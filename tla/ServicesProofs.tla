--------------------------- MODULE ServicesProofs ---------------------------
(* What is proved of the parts that MCServices runs, for every number of      *)
(* rows, fills, positions, withdrawals, deposits and blocks.                  *)
(*                                                                            *)
(* TriggerOrders: TriggerInv is inductive.  Its parts say what a row's status *)
(* tells of the order that it sent (SentOnce), where the keeper stands with   *)
(* the row in its hands (KeeperKnows), that a request which is under way      *)
(* covers the rows it has not named yet (Belongs), and what the fills that    *)
(* the position does not show yet leave to be sold (TurnInv).                 *)
(*                                                                            *)
(* Custody: CustodyInv is inductive.  Each release on the chain is a row as   *)
(* it was stored, released once (ChainFollowed); deposits are followed to the *)
(* listener's own block, not only the saved one (DepositsFollowed); and, away *)
(* from the windows, what was paid out and not scanned yet still has its row  *)
(* pending, so that the account adds up (AccountKept).                        *)
(*                                                                            *)
(* SpotVault: VaultInv is inductive.  A release has the nonce that counts the *)
(* releases before it (NoncesCount) and the row that was signed for it        *)
(* (RowsKnown); each event up to the end of a batch is booked or in the batch *)
(* (DepositsInHand, ReleasesInHand); what was credited is free, held for a    *)
(* signed row or paid out (BooksKept).                                        *)
EXTENDS TriggerOrders, Custody, SpotVault, SumFacts, SequenceTheorems, TLAPS

TriggerStatuses == {"active", "triggered", "executed", "failed", "cancelled"}
TrigT == [kind : Kinds, of : Nat, usd : Nat, mode : {"close", "part"},
          by : {"setter", "request"}, status : TriggerStatuses]
StepsT == [cancel : SUBSET Kinds, create : SUBSET Kinds, usd : Nat, link : {"none", "upsert", "delete"}]
NamedRow == {0} \cup TriggerRows
KeeperBusy == {"scan", "size", "submit", "settle", "fail"}

\* Shapes of the tables and of what the actors hold.
StopTypes ==
    /\ trig \in Seq(TrigT) /\ sent \in Seq(Nat) /\ Len(sent) = Len(trig)
    /\ filled \subseteq TriggerRows /\ dropped \subseteq TriggerRows
    /\ DOMAIN links \subseteq Nat /\ \A p \in DOMAIN links : links[p] \in [Kinds -> NamedRow]
    /\ stake \in [id : Nat, size : Int] /\ fills \in Seq(Int \ {0})
    /\ cascade = Settled \/ cascade \in [of : Nat, step : {"cancel", "unlink"}]
    /\ plan \in [Setters -> [todo : StepsT, of : Nat, next : [Kinds -> NamedRow]]]
    /\ onBook \subseteq [of : TriggerRows, size : Nat \ {0}]
    /\ trades \in Nat

\* The keeper's list names rows, each once.
KeeperTypes ==
    /\ keeper.pc \in {"idle"} \cup KeeperBusy
    /\ keeper.pc = "idle" => keeper = Asleep
    /\ keeper.pc \in {"scan", "size", "fail"} => DOMAIN keeper = {"pc", "price", "todo"}
    /\ keeper.pc = "submit" => /\ DOMAIN keeper = {"pc", "price", "todo", "size", "saw"}
                               /\ keeper.size \in Nat \ {0}
                               /\ keeper.saw \in [id : Nat, size : Int]
    /\ keeper.pc = "settle" => DOMAIN keeper = {"pc", "price", "todo", "got"} /\ keeper.got \in Nat
    /\ keeper.pc \in KeeperBusy =>
          /\ keeper.price \in Nat \ {0} /\ keeper.todo \in Seq(TriggerRows) /\ keeper.todo # << >>
          /\ \A i, j \in DOMAIN keeper.todo : keeper.todo[i] = keeper.todo[j] => i = j

\* What a status says of the order that the row sent: none before it was claimed,
\* or after it was cancelled, one at most afterwards.
SentOnce ==
    /\ \A t \in TriggerRows : /\ trig[t].status \in {"active", "cancelled"} => sent[t] = 0
                              /\ sent[t] <= 1
                              /\ t \in dropped => trig[t].status \in {"cancelled", "failed"} /\ sent[t] = 0
                              /\ t \in filled => sent[t] = 1
    /\ \A o \in onBook : sent[o.of] = 1 /\ trig[o.of].kind \in LimitKinds

\* Where the keeper stands with the row in its hands; the rest of its list waits.
KeeperInv ==
    /\ \A i \in DOMAIN keeper.todo : (i > 1 \/ keeper.pc = "scan") =>
          trig[keeper.todo[i]].status \in {"active", "cancelled"}
    /\ keeper.pc \in {"size", "submit", "settle"} => trig[On].status = "triggered"
    /\ keeper.pc \in {"size", "submit"} => sent[On] = 0
    /\ keeper.pc = "settle" => /\ sent[On] = 1 /\ (keeper.got > 0 => On \in filled)
                               /\ keeper.got = 0 => On \notin filled \/ trig[On].kind \in LimitKinds
    /\ keeper.pc = "fail" => On \in cutOff \/ sent[On] = 0
    /\ keeper.pc = "fail" => trig[On].status \in {"active", "cancelled", "triggered"}
KeeperKnows == keeper.pc \in KeeperBusy => KeeperInv

\* Row t is a setter's and active, for position p, of kind k.
ActiveRow(t, p, k) == /\ t \in TriggerRows /\ trig[t].status = "active" /\ trig[t].by = "setter"
                      /\ trig[t].of = p /\ trig[t].kind = k

\* A setter that works on a position is about to cancel its active rows, or to
\* name them.
Covers(s, t, k) ==
    \/ k \in plan[s].todo.cancel
    \/ plan[s].next[k] = t /\ k \notin plan[s].todo.create /\ plan[s].todo.link = "upsert"
LinkNames(t, p, k) == LinkOf(p)[k] = t \/ \E s \in Setters : Busy(s) /\ plan[s].of = p

\* Rows, links, plans and the position agree, outside the windows that excuse them.
Agreed == windows \cap {"overlap", "set failed", "set late"} = {}
Belongs(t, p, k) ==
    /\ Agreed => /\ LinkNames(t, p, k)
                 /\ \A s \in Setters : Busy(s) /\ plan[s].of = p => Covers(s, t, k)
    /\ "set late" \notin windows /\ cascade.step = "unlink" => p # cascade.of
    /\ windows \cap {"clean-up lost", "set late"} = {} =>
          Open(p) \/ cascade = [of |-> p, step |-> "cancel"]
LinkInv ==
    /\ \A t, p, k : ActiveRow(t, p, k) => Belongs(t, p, k)
    /\ cascade # Settled => stake.size = 0
    /\ "overlap" \notin windows => ~(Busy("user") /\ Busy("hook"))
    /\ \A s \in Setters : plan[s].todo.create # {} => plan[s].todo.link = "upsert"

\* What the user's position comes to with every fill, and what may still be sold.
Balance == stake.size + SumFunctionOnSet(fills, DOMAIN fills)
Straight == windows \cap {"in flight", "closed under", "sized"} = {}
TurnInv ==
    Straight =>
        /\ Balance >= 0
        /\ \A o \in onBook : o.size <= Balance
        /\ \A o, q \in onBook : o = q
        /\ keeper.pc = "submit" =>
              /\ onBook = {} /\ keeper.saw.size >= 0
              /\ trig[On].usd = 0 => keeper.size = keeper.saw.size

TriggerInv ==
    StopTypes /\ KeeperTypes /\ SentOnce /\ KeeperKnows /\ OutcomeIsTrue /\ LinkInv
      /\ TurnInv

LEMMA CancelEffects ==
  ASSUME NEW S, trig \in Seq(TrigT), S \subseteq TriggerRows, CancelAll(S)
  PROVE  /\ trig' \in Seq(TrigT) /\ Len(trig') = Len(trig)
         /\ \A t \in TriggerRows :
               /\ trig'[t].kind = trig[t].kind /\ trig'[t].of = trig[t].of
               /\ trig'[t].usd = trig[t].usd /\ trig'[t].by = trig[t].by
               /\ trig'[t].status = IF t \in S THEN "cancelled" ELSE trig[t].status
         /\ dropped' = dropped \cup S
<1>1. PICK n \in Nat : n = Len(trig) /\ TriggerRows = 1..n /\ DOMAIN trig = 1..n
  BY DEF TriggerRows
<1>2. trig' = [t \in 1..n |-> IF t \in S THEN [trig[t] EXCEPT !.status = "cancelled"] ELSE trig[t]]
  BY <1>1 DEF CancelAll
<1>3. \A t \in 1..n : trig[t] \in TrigT
  BY <1>1
<1>4. \A t \in 1..n : trig'[t] \in TrigT
  BY <1>2, <1>3 DEF TrigT, TriggerStatuses
<1>5. trig' \in Seq(TrigT) /\ Len(trig') = n
  <2>1. trig' \in [1..n -> TrigT]
    BY <1>2, <1>4
  <2> QED BY <2>1
<1>6. \A t \in 1..n :
         /\ trig'[t].kind = trig[t].kind /\ trig'[t].of = trig[t].of
         /\ trig'[t].usd = trig[t].usd /\ trig'[t].by = trig[t].by
         /\ trig'[t].status = IF t \in S THEN "cancelled" ELSE trig[t].status
  BY <1>2, <1>3 DEF TrigT
<1> QED BY <1>1, <1>5, <1>6 DEF CancelAll

LEMMA BecomeEffects ==
  ASSUME NEW u \in TriggerRows, NEW status \in TriggerStatuses, trig \in Seq(TrigT), Become(u, status)
  PROVE  /\ trig' \in Seq(TrigT) /\ Len(trig') = Len(trig)
         /\ \A t \in TriggerRows :
               /\ trig'[t].kind = trig[t].kind /\ trig'[t].of = trig[t].of
               /\ trig'[t].usd = trig[t].usd /\ trig'[t].by = trig[t].by
               /\ trig'[t].status = IF t = u THEN status ELSE trig[t].status
<1>1. PICK n \in Nat : n = Len(trig) /\ TriggerRows = 1..n /\ DOMAIN trig = 1..n
  BY DEF TriggerRows
<1>2. trig' = [trig EXCEPT ![u] = [trig[u] EXCEPT !.status = status]]
  BY DEF Become
<1>3. \A t \in 1..n : trig[t] \in TrigT
  BY <1>1
<1>4. [trig[u] EXCEPT !.status = status] \in TrigT
  BY <1>1, <1>3 DEF TrigT, TriggerStatuses
<1>6. \A t \in 1..n :
         /\ trig'[t].kind = trig[t].kind /\ trig'[t].of = trig[t].of
         /\ trig'[t].usd = trig[t].usd /\ trig'[t].by = trig[t].by
         /\ trig'[t].status = IF t = u THEN status ELSE trig[t].status
  BY <1>1, <1>2, <1>3 DEF TrigT
<1> QED BY <1>1, <1>2, <1>4, <1>6

LEMMA ScanEffects ==
  ASSUME KeeperTypes, keeper.pc \in KeeperBusy, keeper' = Scan(Tail(keeper.todo)),
         Len(trig') = Len(trig)
  PROVE  /\ KeeperTypes'
         /\ keeper'.pc \in {"idle", "scan"}
         /\ keeper'.pc = "scan" => keeper'.todo = Tail(keeper.todo)
<1>1. PICK list \in Seq(TriggerRows) : list = keeper.todo /\ list # << >>
           /\ \A i, j \in DOMAIN list : list[i] = list[j] => i = j
  BY DEF KeeperTypes
<1>2. Tail(list) \in Seq(TriggerRows)
      /\ \A i, j \in DOMAIN Tail(list) : Tail(list)[i] = Tail(list)[j] => i = j
  BY <1>1
<1>3. CASE Tail(list) = << >>
  <2>1. keeper' = Asleep
    BY <1>1, <1>3 DEF Scan
  <2> QED BY <2>1 DEF KeeperTypes, Asleep, KeeperBusy
<1>4. CASE Tail(list) # << >>
  <2>1. keeper' = [pc |-> "scan", price |-> keeper.price, todo |-> Tail(list)]
    BY <1>1, <1>4 DEF Scan
  <2>2. TriggerRows' = TriggerRows /\ keeper.price \in Nat \ {0}
    BY DEF TriggerRows, KeeperTypes
  <2>3. /\ keeper'.pc = "scan" /\ DOMAIN keeper' = {"pc", "price", "todo"}
        /\ keeper'.price = keeper.price /\ keeper'.todo = Tail(list)
    BY <2>1
  <2>4. /\ keeper'.todo \in Seq(TriggerRows') /\ keeper'.todo # << >>
        /\ \A i, j \in DOMAIN keeper'.todo : keeper'.todo[i] = keeper'.todo[j] => i = j
    BY <1>2, <1>4, <2>2, <2>3
  <2>5. KeeperTypes'
    BY <2>2, <2>3, <2>4 DEF KeeperTypes, KeeperBusy
  <2> QED BY <1>1, <2>3, <2>5
<1> QED BY <1>3, <1>4
LEMMA KeeperWaits ==
  ASSUME KeeperTypes, trig \in Seq(TrigT), trig' \in Seq(TrigT), Len(trig') >= Len(trig),
         UNCHANGED keeper
  PROVE  KeeperTypes'
<1>1. PICK n \in Nat, m \in Nat : /\ n = Len(trig) /\ m = Len(trig') /\ n <= m
                                  /\ TriggerRows = 1..n /\ TriggerRows' = 1..m
  BY DEF TriggerRows
<1>2. ASSUME NEW list, list \in Seq(1..n) PROVE list \in Seq(1..m)
  BY <1>1, <1>2
<1>3. keeper.pc \in KeeperBusy => keeper.todo \in Seq(TriggerRows')
  BY <1>1, <1>2 DEF KeeperTypes
<1> QED BY <1>3 DEF KeeperTypes

Fires == StopTypes /\ KeeperTypes /\ SentOnce /\ KeeperKnows /\ OutcomeIsTrue
FireVars == <<trig, keeper, sent, filled, cutOff, onBook, dropped>>

LEMMA FiresStays ==
  ASSUME Fires, UNCHANGED FireVars
  PROVE  KeeperTypes' /\ SentOnce' /\ KeeperKnows' /\ OutcomeIsTrue'
BY DEF Fires, FireVars, KeeperTypes, SentOnce, KeeperKnows, KeeperInv, OutcomeIsTrue, TriggerRows, InHand, On,
       KeeperBusy

LEMMA CancelFires ==
  ASSUME NEW S, Fires, \A t \in S : t \in TriggerRows /\ trig[t].status = "active",
         CancelAll(S), UNCHANGED <<keeper, sent, filled, cutOff, onBook>>
  PROVE  KeeperTypes' /\ SentOnce' /\ KeeperKnows' /\ OutcomeIsTrue'
<1>1. /\ trig' \in Seq(TrigT) /\ Len(trig') = Len(trig)
      /\ \A t \in TriggerRows :
            /\ trig'[t].kind = trig[t].kind /\ trig'[t].of = trig[t].of
            /\ trig'[t].usd = trig[t].usd /\ trig'[t].by = trig[t].by
            /\ trig'[t].status = IF t \in S THEN "cancelled" ELSE trig[t].status
      /\ dropped' = dropped \cup S
  BY CancelEffects DEF Fires, StopTypes
<1>2. TriggerRows' = TriggerRows
  BY <1>1 DEF TriggerRows
<1>3. KeeperTypes'
  <2>1. trig \in Seq(TrigT) /\ Len(trig') >= Len(trig) /\ KeeperTypes /\ UNCHANGED keeper
    BY <1>1 DEF Fires, StopTypes
  <2> QED BY <1>1, <2>1, KeeperWaits
<1>4. SentOnce'
  <2>1. \A o \in onBook : o.of \in TriggerRows
    BY DEF Fires, StopTypes
  <2> QED BY <1>1, <1>2, <2>1 DEF Fires, SentOnce
<1>5. keeper.pc \in KeeperBusy => On \in TriggerRows /\ \A i \in DOMAIN keeper.todo : keeper.todo[i] \in TriggerRows
  BY DEF Fires, KeeperTypes, On
<1>6. KeeperKnows'
  <2> SUFFICES ASSUME keeper.pc \in KeeperBusy PROVE KeeperInv'
    BY DEF KeeperKnows, KeeperBusy
  <2>1. KeeperInv /\ On' = On
    BY DEF Fires, KeeperKnows, On
  <2> QED BY <1>1, <1>5, <2>1 DEF KeeperInv, KeeperBusy
<1>7. OutcomeIsTrue'
  <2>1. On' = On /\ InHand' = InHand
    BY DEF On, InHand
  <2> QED BY <1>1, <1>2, <2>1 DEF Fires, OutcomeIsTrue
<1> QED BY <1>3, <1>4, <1>6, <1>7


LEMMA NoneAtMostOne == \A k : k = 0 => k <= 1
OBVIOUS

LEMMA CreateFires ==
  ASSUME Fires, NEW r \in TrigT, r.status = "active", trig' = Append(trig, r), sent' = Append(sent, 0),
         UNCHANGED <<keeper, filled, cutOff, onBook, dropped>>
  PROVE  KeeperTypes' /\ SentOnce' /\ KeeperKnows' /\ OutcomeIsTrue'
<1>1. PICK n \in Nat : /\ n = Len(trig) /\ TriggerRows = 1..n /\ Len(sent) = n /\ DOMAIN sent = 1..n
                       /\ trig \in Seq(TrigT) /\ sent \in Seq(Nat)
  BY DEF Fires, StopTypes, TriggerRows
<1>2. /\ trig' \in Seq(TrigT) /\ Len(trig') = n + 1
      /\ TriggerRows' = 1..(n + 1)
      /\ \A t \in 1..n : trig'[t] = trig[t] /\ sent'[t] = sent[t]
      /\ trig'[n + 1] = r /\ sent'[n + 1] = 0
  BY <1>1 DEF TriggerRows
<1>3. \A t \in 1..(n + 1) : t \in 1..n \/ t = n + 1
  BY <1>1
<1>4. KeeperTypes'
  BY <1>1, <1>2, KeeperWaits DEF Fires
<1>5. /\ filled \subseteq 1..n /\ dropped \subseteq 1..n /\ \A o \in onBook : o.of \in 1..n
      /\ n + 1 \notin 1..n
  BY <1>1 DEF Fires, StopTypes
<1>6. SentOnce'
  <2>1. \A t \in 1..n : /\ trig'[t].status \in {"active", "cancelled"} => sent'[t] = 0
                        /\ sent'[t] <= 1
                        /\ t \in dropped => trig'[t].status \in {"cancelled", "failed"} /\ sent'[t] = 0
                        /\ t \in filled => sent'[t] = 1
    BY <1>1, <1>2 DEF Fires, SentOnce
  <2>2. \A o \in onBook : sent'[o.of] = 1 /\ trig'[o.of].kind \in LimitKinds
    BY <1>1, <1>2, <1>5 DEF Fires, SentOnce
  <2>3. /\ sent'[n + 1] = 0 /\ n + 1 \notin dropped /\ n + 1 \notin filled
    BY <1>2, <1>5
  <2>4. \A t \in 1..(n + 1) :
                        /\ trig'[t].status \in {"active", "cancelled"} => sent'[t] = 0
                        /\ sent'[t] <= 1
                        /\ t \in dropped => trig'[t].status \in {"cancelled", "failed"} /\ sent'[t] = 0
                        /\ t \in filled => sent'[t] = 1
    <3> SUFFICES ASSUME NEW t \in 1..(n + 1)
                 PROVE  /\ trig'[t].status \in {"active", "cancelled"} => sent'[t] = 0
                        /\ sent'[t] <= 1
                        /\ t \in dropped => trig'[t].status \in {"cancelled", "failed"} /\ sent'[t] = 0
                        /\ t \in filled => sent'[t] = 1
      OBVIOUS
    <3>1. CASE t \in 1..n
      BY <2>1, <3>1
    <3>2. CASE t = n + 1
      <4>1. sent'[t] = 0 /\ t \notin dropped /\ t \notin filled
        BY <2>3, <3>2
      <4> QED BY Zenon, <4>1, NoneAtMostOne
    <3> QED BY <1>3, <3>1, <3>2
  <2> QED BY <1>2, <2>2, <2>4 DEF SentOnce
<1>7. keeper.pc \in KeeperBusy => On \in 1..n /\ \A i \in DOMAIN keeper.todo : keeper.todo[i] \in 1..n
  BY SMTT(30), <1>1 DEF Fires, KeeperTypes, On
<1>8. On' = On /\ InHand' = InHand
  BY DEF On, InHand
<1>9. KeeperKnows'
  <2> SUFFICES ASSUME keeper.pc \in KeeperBusy PROVE KeeperInv'
    BY DEF KeeperKnows, KeeperBusy
  <2>1. KeeperInv
    BY DEF Fires, KeeperKnows
  <2> QED BY <1>2, <1>7, <1>8, <2>1 DEF KeeperInv
<1>10. OutcomeIsTrue'
  <2>1. \A t \in (1..n) \ cutOff :
            /\ trig'[t].status = "executed" => t \in filled
            /\ trig'[t].status = "failed" => t \notin filled \/ trig'[t].kind \in LimitKinds
            /\ trig'[t].status = "triggered" => InHand /\ On = t
    BY <1>1, <1>2 DEF Fires, OutcomeIsTrue
  <2> QED BY <1>2, <1>3, <1>8, <2>1 DEF OutcomeIsTrue
<1> QED BY <1>4, <1>6, <1>9, <1>10

LEMMA RestingFires ==
  ASSUME Fires, NEW o \in onBook, RestingFills(o)
  PROVE  KeeperTypes' /\ SentOnce' /\ KeeperKnows' /\ OutcomeIsTrue'
<1>1. /\ UNCHANGED <<trig, keeper, sent, cutOff, dropped>>
      /\ onBook' = onBook \ {o} /\ filled' = filled \cup {o.of}
      /\ o.of \in TriggerRows /\ sent[o.of] = 1 /\ trig[o.of].kind \in LimitKinds
  BY DEF RestingFills, Fires, StopTypes, SentOnce
<1>2. KeeperTypes' /\ TriggerRows' = TriggerRows /\ On' = On /\ InHand' = InHand
  BY <1>1 DEF Fires, KeeperTypes, TriggerRows, On, InHand
<1>3. SentOnce'
  BY <1>1, <1>2 DEF Fires, SentOnce
<1>4. KeeperKnows'
  BY <1>1, <1>2 DEF Fires, KeeperKnows, KeeperInv, KeeperBusy
<1>5. OutcomeIsTrue'
  BY <1>1, <1>2 DEF Fires, OutcomeIsTrue
<1> QED BY <1>2, <1>3, <1>4, <1>5

LEMMA ListFires ==
  ASSUME Fires, NEW mark \in Marks, ListActive(mark)
  PROVE  KeeperTypes' /\ SentOnce' /\ KeeperKnows' /\ OutcomeIsTrue'
<1>1. PICK list \in SetToSeqs(Listed) :
         /\ \A i, j \in DOMAIN list : i < j => list[i] < list[j]
         /\ keeper' = [pc |-> "scan", price |-> mark, todo |-> list]
  BY DEF ListActive
<1>2. /\ UNCHANGED <<trig, sent, filled, cutOff, onBook, dropped>>
      /\ keeper = Asleep /\ Listed # {}
  BY DEF ListActive, keeperHistory
<1>3. list \in [1..Cardinality(Listed) -> Listed] /\ \A i, j \in DOMAIN list : list[i] = list[j] => i = j
  BY <1>1 DEF SetToSeqs, IsInjective
<1>4. PICK n \in Nat : n = Len(trig) /\ TriggerRows = 1..n /\ Listed \subseteq 1..n
  <2>1. Len(trig) \in Nat
    BY LenProperties DEF Fires, StopTypes
  <2> QED BY <2>1 DEF TriggerRows, Listed
<1>5. PICK m \in Nat \ {0} : m = Cardinality(Listed)
  <2>1. IsFiniteSet(Listed)
    <3>1. IsFiniteSet(1..n)
      BY FS_Interval
    <3> QED BY <1>4, <3>1, FS_Subset
  <2> QED BY <1>2, <2>1, FS_CardinalityType, FS_EmptySet
<1>6. list \in Seq(1..n) /\ list # << >> /\ DOMAIN list = 1..m /\ \A i \in DOMAIN list : list[i] \in Listed
  <2>1. list \in [1..m -> Listed] /\ list \in [1..m -> 1..n]
    BY <1>3, <1>4, <1>5
  <2>2. list \in Seq(1..n)
    BY <2>1
  <2>3. 1 \in DOMAIN list
    BY <1>5, <2>1
  <2> QED BY <2>1, <2>2, <2>3
<1>7. TriggerRows' = TriggerRows
  BY <1>2 DEF TriggerRows
<1>8. /\ keeper'.pc = "scan" /\ DOMAIN keeper' = {"pc", "price", "todo"}
      /\ keeper'.price = mark /\ keeper'.todo = list
  BY <1>1
<1>9. KeeperTypes'
  <2>1. mark \in Nat \ {0}
    BY TriggerAssumption
  <2> QED BY <1>3, <1>4, <1>6, <1>7, <1>8, <2>1 DEF KeeperTypes, KeeperBusy
<1>10. KeeperKnows'
  <2>1. \A i \in DOMAIN list : trig'[list[i]].status = "active"
    BY <1>2, <1>6 DEF Listed
  <2> QED BY <1>8, <2>1 DEF KeeperKnows, KeeperInv
<1>11. SentOnce'
  BY <1>2, <1>7 DEF Fires, SentOnce
<1>12. OutcomeIsTrue'
  <2>1. ~InHand
    BY <1>2 DEF InHand, Asleep
  <2> QED BY <1>2, <1>7, <2>1 DEF Fires, OutcomeIsTrue
<1> QED BY <1>9, <1>10, <1>11, <1>12

\* What the keeper's steps start from.
LEMMA KeeperHolds ==
  ASSUME Fires, keeper.pc \in KeeperBusy
  PROVE  /\ On \in TriggerRows /\ KeeperInv /\ keeper.todo \in Seq(TriggerRows) /\ keeper.todo # << >>
         /\ On = keeper.todo[1] /\ 1 \in DOMAIN keeper.todo
         /\ \A i \in DOMAIN keeper.todo : keeper.todo[i] \in TriggerRows /\ (i > 1 => keeper.todo[i] # On)
         /\ \A i \in DOMAIN Tail(keeper.todo) :
                i + 1 \in DOMAIN keeper.todo /\ i + 1 > 1 /\ Tail(keeper.todo)[i] = keeper.todo[i + 1]
<1>1. PICK list \in Seq(TriggerRows) : list = keeper.todo /\ list # << >>
           /\ \A i, j \in DOMAIN list : list[i] = list[j] => i = j
  BY DEF Fires, KeeperTypes
<1>2. On = Head(list) /\ Head(list) = list[1] /\ 1 \in DOMAIN list
  BY <1>1 DEF On
<1>3. \A i \in DOMAIN list : list[i] \in TriggerRows /\ (i > 1 => list[i] # list[1])
  BY <1>1
<1>4. \A i \in DOMAIN Tail(list) : i + 1 \in DOMAIN list /\ i + 1 > 1 /\ Tail(list)[i] = list[i + 1]
  BY <1>1
<1> QED BY <1>1, <1>2, <1>3, <1>4 DEF Fires, KeeperKnows

\* The keeper's next state, field by field.
LEMMA PcChanges ==
  ASSUME KeeperTypes, keeper.pc \in {"scan", "size", "fail"}, NEW pc \in {"scan", "size", "fail"},
         keeper' = [keeper EXCEPT !.pc = pc]
  PROVE  /\ keeper'.pc = pc /\ DOMAIN keeper' = {"pc", "price", "todo"}
         /\ keeper'.price = keeper.price /\ keeper'.todo = keeper.todo
BY DEF KeeperTypes

LEMMA TypesMove ==
  ASSUME KeeperTypes, keeper.pc \in KeeperBusy, TriggerRows' = TriggerRows,
         keeper'.pc \in KeeperBusy, keeper'.price = keeper.price, keeper'.todo = keeper.todo,
         keeper'.pc \in {"scan", "size", "fail"} => DOMAIN keeper' = {"pc", "price", "todo"},
         keeper'.pc = "submit" => /\ DOMAIN keeper' = {"pc", "price", "todo", "size", "saw"}
                                  /\ keeper'.size \in Nat \ {0}
                                  /\ keeper'.saw \in [id : Nat, size : Int],
         keeper'.pc = "settle" => DOMAIN keeper' = {"pc", "price", "todo", "got"} /\ keeper'.got \in Nat
  PROVE  KeeperTypes'
BY DEF KeeperTypes, KeeperBusy

LEMMA ClaimFires ==
  ASSUME Fires, Claim
  PROVE  KeeperTypes' /\ SentOnce' /\ KeeperKnows' /\ OutcomeIsTrue' /\ trig' \in Seq(TrigT)
         /\ Len(trig') = Len(trig)
<1>0. /\ keeper.pc = "scan" /\ keeper.pc \in KeeperBusy /\ trig \in Seq(TrigT) /\ KeeperTypes
      /\ UNCHANGED <<sent, filled, cutOff, onBook, dropped>>
  BY DEF Claim, keeperHistory, Fires, StopTypes, KeeperBusy
<1>h. /\ On \in TriggerRows /\ KeeperInv /\ 1 \in DOMAIN keeper.todo /\ On = keeper.todo[1]
      /\ \A i \in DOMAIN keeper.todo : keeper.todo[i] \in TriggerRows /\ (i > 1 => keeper.todo[i] # On)
      /\ \A i \in DOMAIN Tail(keeper.todo) :
             i + 1 \in DOMAIN keeper.todo /\ i + 1 > 1 /\ Tail(keeper.todo)[i] = keeper.todo[i + 1]
  BY <1>0, KeeperHolds
<1>1. CASE trig[On].status = "active" /\ Become(On, "triggered") /\ keeper' = [keeper EXCEPT !.pc = "size"]
  <2>1. PICK u \in TriggerRows : u = On
    BY <1>h
  <2>2. /\ trig' \in Seq(TrigT) /\ Len(trig') = Len(trig)
        /\ \A t \in TriggerRows :
              /\ trig'[t].kind = trig[t].kind /\ trig'[t].of = trig[t].of
              /\ trig'[t].usd = trig[t].usd /\ trig'[t].by = trig[t].by
              /\ trig'[t].status = IF t = u THEN "triggered" ELSE trig[t].status
    <3>1. Become(u, "triggered") /\ "triggered" \in TriggerStatuses
      BY <1>1, <2>1 DEF TriggerStatuses
    <3> QED BY <1>0, <3>1, BecomeEffects
  <2>3. TriggerRows' = TriggerRows
    BY <2>2 DEF TriggerRows
  <2>4. /\ keeper'.pc = "size" /\ DOMAIN keeper' = {"pc", "price", "todo"}
        /\ keeper'.price = keeper.price /\ keeper'.todo = keeper.todo /\ On' = On
    BY <1>0, <1>1, PcChanges DEF On
  <2>5. KeeperTypes'
    BY <1>0, <2>3, <2>4, TypesMove DEF KeeperBusy
  <2>6. sent[u] = 0
    BY <1>1, <2>1 DEF Fires, SentOnce
  <2>7. SentOnce'
    <3>1. \A o \in onBook : o.of \in TriggerRows
      BY DEF Fires, StopTypes
    <3>2. u \notin dropped
      BY <1>1, <2>1 DEF Fires, SentOnce
    <3> QED BY <1>0, <2>2, <2>3, <2>6, <3>1, <3>2 DEF Fires, SentOnce
  <2>8. KeeperInv'
    BY <1>0, <1>h, <2>1, <2>2, <2>4, <2>6 DEF KeeperInv
  <2>9. OutcomeIsTrue'
    <3>1. InHand' /\ On' = u
      BY <2>1, <2>4 DEF InHand
    <3>2. ~InHand
      BY <1>0 DEF InHand
    <3> QED BY <1>0, <2>2, <2>3, <3>1, <3>2 DEF Fires, OutcomeIsTrue
  <2> QED BY <2>2, <2>5, <2>7, <2>8, <2>9 DEF KeeperKnows
<1>2. CASE keeper' = Scan(Tail(keeper.todo)) /\ UNCHANGED trig
  <2>1. KeeperTypes' /\ keeper'.pc \in {"idle", "scan"}
        /\ (keeper'.pc = "scan" => keeper'.todo = Tail(keeper.todo))
    BY <1>0, <1>2, ScanEffects
  <2>2. TriggerRows' = TriggerRows
    BY <1>2 DEF TriggerRows
  <2>3. SentOnce'
    BY <1>0, <1>2, <2>2 DEF Fires, SentOnce
  <2>4. KeeperKnows'
    <3> SUFFICES ASSUME keeper'.pc = "scan" PROVE KeeperInv'
      BY <2>1 DEF KeeperKnows, KeeperBusy
    <3>1. \A i \in DOMAIN Tail(keeper.todo) :
             trig[Tail(keeper.todo)[i]].status \in {"active", "cancelled"}
      BY <1>0, <1>h DEF KeeperInv
    <3> QED BY <1>2, <2>1, <3>1 DEF KeeperInv
  <2>5. OutcomeIsTrue'
    <3>1. ~InHand
      BY <1>0 DEF InHand
    <3> QED BY <1>0, <1>2, <2>2, <3>1 DEF Fires, OutcomeIsTrue
  <2> QED BY <1>0, <1>2, <2>1, <2>3, <2>4, <2>5
<1> QED BY <1>1, <1>2 DEF Claim, Claimable

LEMMA SizeFires ==
  ASSUME Fires, ReadSize
  PROVE  KeeperTypes' /\ SentOnce' /\ KeeperKnows' /\ OutcomeIsTrue'
<1>0. /\ keeper.pc = "size" /\ keeper.pc \in KeeperBusy /\ KeeperTypes
      /\ UNCHANGED <<trig, sent, filled, cutOff, onBook, dropped>> /\ TriggerRows' = TriggerRows
  BY DEF ReadSize, keeperHistory, Fires, StopTypes, KeeperBusy, TriggerRows
<1>h. On \in TriggerRows /\ KeeperInv /\ keeper.price \in Nat \ {0}
  BY <1>0, KeeperHolds DEF KeeperTypes
<1>1. TokensFor(On) \in Nat
  <2>1. stake.size \in Int /\ trig[On].usd \in Nat
    <3>1. stake \in [id : Nat, size : Int] /\ trig \in Seq(TrigT) /\ On \in 1..Len(trig)
      BY <1>h DEF Fires, StopTypes, TriggerRows
    <3>2. trig[On] \in TrigT
      BY <3>1, ElementOfSeq
    <3> QED BY <3>1, <3>2 DEF TrigT
  <2>2. PICK usd \in Nat, price \in Nat \ {0} : usd = trig[On].usd /\ price = keeper.price
    BY <1>h, <2>1
  <2>3. usd \div price \in Nat
    BY <2>2
  <2> QED BY <2>1, <2>2, <2>3 DEF TokensFor, Magnitude
<1>2. SentOnce'
  BY <1>0 DEF Fires, SentOnce
<1>3. CASE keeper' = [keeper EXCEPT !.pc = "fail"]
  <2>1. /\ keeper'.pc = "fail" /\ DOMAIN keeper' = {"pc", "price", "todo"}
        /\ keeper'.price = keeper.price /\ keeper'.todo = keeper.todo /\ On' = On
    BY <1>0, <1>3, PcChanges DEF On
  <2>2. KeeperTypes'
    BY <1>0, <2>1, TypesMove DEF KeeperBusy
  <2>3. KeeperInv'
    BY <1>0, <1>h, <2>1 DEF KeeperInv
  <2>4. OutcomeIsTrue'
    BY <1>0, <2>1 DEF Fires, OutcomeIsTrue, InHand
  <2> QED BY <1>2, <2>2, <2>3, <2>4 DEF KeeperKnows
<1>4. CASE /\ TokensFor(On) # 0
           /\ keeper' = [pc |-> "submit", price |-> keeper.price, todo |-> keeper.todo,
                         size |-> TokensFor(On), saw |-> stake]
  <2>1. /\ keeper'.pc = "submit" /\ DOMAIN keeper' = {"pc", "price", "todo", "size", "saw"}
        /\ keeper'.price = keeper.price /\ keeper'.todo = keeper.todo /\ On' = On
        /\ keeper'.size = TokensFor(On) /\ keeper'.saw = stake
    BY <1>4 DEF On
  <2>2. KeeperTypes'
    <3>1. stake \in [id : Nat, size : Int]
      BY DEF Fires, StopTypes
    <3> QED BY <1>0, <1>1, <1>4, <2>1, <3>1, TypesMove DEF KeeperBusy
  <2>3. KeeperInv'
    BY <1>0, <1>h, <2>1 DEF KeeperInv
  <2>4. OutcomeIsTrue'
    BY <1>0, <2>1 DEF Fires, OutcomeIsTrue, InHand
  <2> QED BY <1>2, <2>2, <2>3, <2>4 DEF KeeperKnows
<1> QED BY <1>3, <1>4 DEF ReadSize

\* The keeper is done with a row: it is marked, and the list goes on.
LEMMA OnFires ==
  ASSUME Fires, keeper.pc \in {"settle", "fail"}, NEW status \in {"executed", "failed"},
         Become(On, status), keeper' = Scan(Tail(keeper.todo)),
         UNCHANGED <<sent, filled, cutOff, onBook, dropped>>,
         On \in cutOff \/ (status = "executed" => On \in filled),
         On \in cutOff \/ (status = "failed" => On \notin filled \/ trig[On].kind \in LimitKinds),
         On \in dropped => status = "failed"
  PROVE  KeeperTypes' /\ SentOnce' /\ KeeperKnows' /\ OutcomeIsTrue' /\ trig' \in Seq(TrigT)
         /\ Len(trig') = Len(trig)
<1>0. keeper.pc \in KeeperBusy /\ trig \in Seq(TrigT) /\ KeeperTypes /\ status \in TriggerStatuses
  BY DEF Fires, StopTypes, KeeperBusy, TriggerStatuses
<1>h. /\ On \in TriggerRows /\ KeeperInv
      /\ \A i \in DOMAIN keeper.todo : keeper.todo[i] \in TriggerRows /\ (i > 1 => keeper.todo[i] # On)
      /\ \A i \in DOMAIN Tail(keeper.todo) :
             i + 1 \in DOMAIN keeper.todo /\ i + 1 > 1 /\ Tail(keeper.todo)[i] = keeper.todo[i + 1]
  BY <1>0, KeeperHolds
<1>1. PICK u \in TriggerRows : u = On
  BY <1>h
<1>2. /\ trig' \in Seq(TrigT) /\ Len(trig') = Len(trig)
      /\ \A t \in TriggerRows :
            /\ trig'[t].kind = trig[t].kind /\ trig'[t].of = trig[t].of
            /\ trig'[t].usd = trig[t].usd /\ trig'[t].by = trig[t].by
            /\ trig'[t].status = IF t = u THEN status ELSE trig[t].status
  <2>1. Become(u, status)
    BY <1>1
  <2> QED BY <1>0, <2>1, BecomeEffects
<1>3. TriggerRows' = TriggerRows
  BY <1>2 DEF TriggerRows
<1>4. KeeperTypes' /\ keeper'.pc \in {"idle", "scan"}
      /\ (keeper'.pc = "scan" => keeper'.todo = Tail(keeper.todo))
  BY <1>0, <1>2, ScanEffects
<1>5. SentOnce'
  <2>1. \A o \in onBook : o.of \in TriggerRows
    BY DEF Fires, StopTypes
  <2>2. u \in dropped => status = "failed"
    BY <1>1
  <2> QED BY <1>2, <1>3, <2>1, <2>2 DEF Fires, SentOnce
<1>6. KeeperKnows'
  <2> SUFFICES ASSUME keeper'.pc = "scan" PROVE KeeperInv'
    BY <1>4 DEF KeeperKnows, KeeperBusy
  <2>1. \A i \in DOMAIN Tail(keeper.todo) :
           /\ Tail(keeper.todo)[i] \in TriggerRows /\ Tail(keeper.todo)[i] # u
           /\ trig[Tail(keeper.todo)[i]].status \in {"active", "cancelled"}
    BY <1>h, <1>1 DEF KeeperInv
  <2>2. \A i \in DOMAIN Tail(keeper.todo) :
           trig'[Tail(keeper.todo)[i]].status \in {"active", "cancelled"}
    BY <1>2, <2>1
  <2> QED BY <1>4, <2>2 DEF KeeperInv
<1>7. OutcomeIsTrue'
  <2>1. \A t \in TriggerRows \ cutOff : t # u =>
            /\ trig'[t].status = "executed" => t \in filled
            /\ trig'[t].status = "failed" => t \notin filled \/ trig'[t].kind \in LimitKinds
            /\ trig'[t].status # "triggered"
    BY <1>1, <1>2 DEF Fires, OutcomeIsTrue
  <2>2. u \notin cutOff =>
            /\ trig'[u].status = "executed" => u \in filled
            /\ trig'[u].status = "failed" => u \notin filled \/ trig'[u].kind \in LimitKinds
            /\ trig'[u].status # "triggered"
    BY <1>1, <1>2
  <2> QED BY <1>3, <2>1, <2>2 DEF OutcomeIsTrue
<1> QED BY <1>2, <1>4, <1>5, <1>6, <1>7

LEMMA SettleFires ==
  ASSUME Fires, Settle
  PROVE  KeeperTypes' /\ SentOnce' /\ KeeperKnows' /\ OutcomeIsTrue' /\ trig' \in Seq(TrigT)
         /\ Len(trig') = Len(trig)
<1>1. /\ keeper.pc = "settle" /\ Become(On, Outcome) /\ keeper' = Scan(Tail(keeper.todo))
      /\ UNCHANGED <<sent, filled, cutOff, onBook, dropped>>
  BY DEF Settle, keeperHistory
<1>2. KeeperInv /\ On \in TriggerRows /\ keeper.got \in Nat
  BY <1>1, KeeperHolds DEF KeeperBusy, Fires, KeeperTypes
<1>3. PICK status \in {"executed", "failed"} :
         status = Outcome /\ (status = "executed" <=> keeper.got > 0)
  BY DEF Outcome
<1>4. keeper.got > 0 \/ keeper.got = 0
  BY <1>2
<1>5. /\ status = "executed" => On \in filled
      /\ status = "failed" => On \notin filled \/ trig[On].kind \in LimitKinds
  BY <1>1, <1>2, <1>3, <1>4 DEF KeeperInv
<1>6. On \notin dropped
  BY <1>1, <1>2 DEF KeeperInv, Fires, SentOnce
<1>7. Become(On, status)
  BY <1>1, <1>3
<1> QED BY <1>1, <1>5, <1>6, <1>7, OnFires

LEMMA FailedFires ==
  ASSUME Fires, MarkFailed
  PROVE  KeeperTypes' /\ SentOnce' /\ KeeperKnows' /\ OutcomeIsTrue' /\ trig' \in Seq(TrigT)
         /\ Len(trig') = Len(trig)
<1>1. /\ keeper.pc = "fail" /\ Become(On, "failed") /\ keeper' = Scan(Tail(keeper.todo))
      /\ UNCHANGED <<sent, filled, cutOff, onBook, dropped>>
  BY DEF MarkFailed, keeperHistory
<1>2. KeeperInv /\ On \in TriggerRows
  BY <1>1, KeeperHolds DEF KeeperBusy
<1>3. On \in cutOff \/ On \notin filled
  BY <1>1, <1>2 DEF KeeperInv, Fires, SentOnce
<1> QED BY <1>1, <1>3, OnFires

LEMMA ErrorFires ==
  ASSUME Fires, StepErrs
  PROVE  KeeperTypes' /\ SentOnce' /\ KeeperKnows' /\ OutcomeIsTrue'
<1>1. /\ UNCHANGED <<trig, sent, filled, onBook, dropped>> /\ keeper.pc \in KeeperBusy /\ KeeperTypes
      /\ TriggerRows' = TriggerRows
      /\ cutOff' = IF keeper.pc \in {"settle", "fail"} THEN cutOff \cup {On} ELSE cutOff
      /\ keeper' = IF keeper.pc = "fail" THEN Asleep
                   ELSE [pc |-> "fail", price |-> keeper.price, todo |-> keeper.todo]
  BY DEF StepErrs, KeeperBusy, Fires, TriggerRows
<1>2. KeeperInv /\ On \in TriggerRows /\ 1 \in DOMAIN keeper.todo /\ On = keeper.todo[1]
  BY <1>1, KeeperHolds
<1>3. SentOnce'
  BY <1>1 DEF Fires, SentOnce
<1>4. CASE keeper.pc = "fail"
  <2>1. KeeperTypes' /\ keeper'.pc = "idle" /\ KeeperKnows'
    BY <1>1, <1>4 DEF KeeperTypes, KeeperKnows, KeeperBusy, Asleep
  <2>2. OutcomeIsTrue'
    BY <1>1, <1>4, <2>1 DEF Fires, OutcomeIsTrue
  <2> QED BY <1>3, <2>1, <2>2
<1>5. CASE keeper.pc # "fail"
  <2>1. /\ keeper'.pc = "fail" /\ DOMAIN keeper' = {"pc", "price", "todo"}
        /\ keeper'.price = keeper.price /\ keeper'.todo = keeper.todo /\ On' = On
    BY <1>1, <1>5 DEF On
  <2>2. KeeperTypes'
    BY <1>1, <2>1, TypesMove DEF KeeperBusy
  <2>3. KeeperInv'
    <3>1. trig[On].status \in {"active", "cancelled", "triggered"}
      BY <1>1, <1>2, <1>5 DEF KeeperInv, KeeperBusy
    <3>2. On \in cutOff' \/ sent[On] = 0
      <4>1. CASE keeper.pc = "scan"
        <5>1. trig[On].status \in {"active", "cancelled"}
          BY <1>2, <4>1 DEF KeeperInv
        <5> QED BY <1>2, <5>1 DEF Fires, SentOnce
      <4>2. CASE keeper.pc \in {"size", "submit"}
        BY <1>2, <4>2 DEF KeeperInv
      <4>3. CASE keeper.pc = "settle"
        BY <1>1, <4>3
      <4> QED BY <1>1, <1>5, <4>1, <4>2, <4>3 DEF KeeperBusy
    <3>3. \A i \in DOMAIN keeper.todo : i > 1 => trig[keeper.todo[i]].status \in {"active", "cancelled"}
      BY <1>2 DEF KeeperInv
    <3> QED BY <1>1, <2>1, <3>1, <3>2, <3>3 DEF KeeperInv
  <2>4. OutcomeIsTrue'
    BY <1>1, <2>1 DEF Fires, OutcomeIsTrue, InHand
  <2> QED BY <1>3, <2>2, <2>3, <2>4 DEF KeeperKnows
<1> QED BY <1>4, <1>5

LEMMA RestartFires ==
  ASSUME Fires, Restart
  PROVE  KeeperTypes' /\ SentOnce' /\ KeeperKnows' /\ OutcomeIsTrue'
<1>1. /\ UNCHANGED <<trig, sent, filled, onBook, dropped>> /\ TriggerRows' = TriggerRows
      /\ keeper' = Asleep /\ cutOff' = IF InHand THEN cutOff \cup {On} ELSE cutOff
  BY DEF Restart, TriggerRows
<1>2. KeeperTypes' /\ KeeperKnows'
  BY <1>1 DEF KeeperTypes, KeeperKnows, KeeperBusy, Asleep
<1>3. SentOnce'
  BY <1>1 DEF Fires, SentOnce
<1>4. OutcomeIsTrue'
  BY <1>1 DEF Fires, OutcomeIsTrue
<1> QED BY <1>2, <1>3, <1>4

LEMMA SendFires ==
  ASSUME Fires, NEW got \in Nat, SendOrder(got), got <= keeper.size
  PROVE  /\ KeeperTypes' /\ SentOnce' /\ KeeperKnows' /\ OutcomeIsTrue'
         /\ sent' \in Seq(Nat) /\ Len(sent') = Len(sent) /\ filled' \subseteq TriggerRows
         /\ onBook' \subseteq [of : TriggerRows, size : Nat \ {0}]
<1>1. /\ keeper.pc = "submit" /\ keeper.pc \in KeeperBusy /\ KeeperTypes
      /\ keeper' = [pc |-> "settle", price |-> keeper.price, todo |-> keeper.todo, got |-> got]
      /\ onBook' = IF got < keeper.size /\ trig[On].kind \in LimitKinds
                   THEN onBook \cup {[of |-> On, size |-> keeper.size - got]} ELSE onBook
      /\ sent' = [sent EXCEPT ![On] = @ + 1]
      /\ filled' = IF got > 0 THEN filled \cup {On} ELSE filled
      /\ UNCHANGED <<trig, cutOff, dropped>> /\ TriggerRows' = TriggerRows
  BY DEF SendOrder, KeeperBusy, Fires, TriggerRows
<1>2. KeeperInv /\ On \in TriggerRows /\ keeper.size \in Nat \ {0} /\ 1 \in DOMAIN keeper.todo
      /\ On = keeper.todo[1]
  BY <1>1, KeeperHolds DEF KeeperTypes
<1>3. PICK u \in TriggerRows : u = On /\ sent[u] = 0 /\ trig[u].status = "triggered"
  BY <1>1, <1>2 DEF KeeperInv
<1>4. /\ sent' \in Seq(Nat) /\ Len(sent') = Len(sent)
      /\ \A t \in TriggerRows : sent'[t] = IF t = u THEN 1 ELSE sent[t]
  <2>1. PICK n \in Nat : n = Len(sent) /\ TriggerRows = 1..n /\ sent \in [1..n -> Nat]
    <3>1. Len(sent) \in Nat /\ sent \in [1..Len(sent) -> Nat]
      BY LenProperties DEF Fires, StopTypes
    <3> QED BY <3>1 DEF Fires, StopTypes, TriggerRows
  <2>2. sent' = [sent EXCEPT ![u] = 1]
    BY <1>1, <1>3
  <2>3. sent' \in [1..n -> Nat]
    BY <2>1, <2>2
  <2> QED BY <2>1, <2>2, <2>3
<1>5. filled' \subseteq TriggerRows /\ onBook' \subseteq [of : TriggerRows, size : Nat \ {0}]
  <2>1. got < keeper.size => keeper.size - got \in Nat \ {0}
    BY <1>2
  <2> QED BY <1>1, <1>2, <2>1 DEF Fires, StopTypes
<1>6. u \notin filled /\ u \notin dropped /\ \A o \in onBook : o.of # u
  BY <1>3 DEF Fires, SentOnce
<1>7. SentOnce'
  <2>1. \A o \in onBook : o.of \in TriggerRows
    BY DEF Fires, StopTypes
  <2>2. \A o \in onBook' : o \in onBook \/ (o.of = u /\ trig[u].kind \in LimitKinds)
    <3>1. CASE got < keeper.size /\ trig[On].kind \in LimitKinds
      BY <1>1, <1>3, <3>1
    <3>2. CASE ~(got < keeper.size /\ trig[On].kind \in LimitKinds)
      BY <1>1, <3>2
    <3> QED BY <3>1, <3>2
  <2> QED BY <1>1, <1>3, <1>4, <1>6, <2>1, <2>2 DEF Fires, SentOnce
<1>8. /\ keeper'.pc = "settle" /\ DOMAIN keeper' = {"pc", "price", "todo", "got"}
      /\ keeper'.price = keeper.price /\ keeper'.todo = keeper.todo /\ keeper'.got = got /\ On' = On
  BY <1>1 DEF On
<1>9. KeeperTypes'
  BY <1>1, <1>8, TypesMove DEF KeeperBusy
<1>10. KeeperInv'
  <2>1. sent'[u] = 1 /\ (got > 0 => u \in filled') /\ (got = 0 => u \notin filled')
    BY <1>1, <1>3, <1>4, <1>6
  <2> QED BY <1>1, <1>2, <1>3, <1>8, <2>1 DEF KeeperInv
<1>11. OutcomeIsTrue'
  <2>1. InHand /\ InHand'
    BY <1>1, <1>8 DEF InHand
  <2> QED BY <1>1, <1>3, <1>8, <2>1 DEF Fires, OutcomeIsTrue
<1> QED BY <1>4, <1>5, <1>7, <1>9, <1>10, <1>11 DEF KeeperKnows

RowTypes ==
    /\ trig \in Seq(TrigT) /\ sent \in Seq(Nat) /\ Len(sent) = Len(trig)
    /\ filled \subseteq TriggerRows /\ dropped \subseteq TriggerRows
    /\ onBook \subseteq [of : TriggerRows, size : Nat \ {0}]
PlanT == [todo : StepsT, of : Nat, next : [Kinds -> NamedRow]]
LinkTypes ==
    /\ DOMAIN links \subseteq Nat /\ \A p \in DOMAIN links : links[p] \in [Kinds -> NamedRow]
    /\ plan \in [Setters -> PlanT]
MoneyTypes ==
    /\ stake \in [id : Nat, size : Int] /\ fills \in Seq(Int \ {0}) /\ trades \in Nat
    /\ cascade = Settled \/ cascade \in [of : Nat, step : {"cancel", "unlink"}]

LEMMA TypesParts == StopTypes <=> RowTypes /\ LinkTypes /\ MoneyTypes
BY DEF StopTypes, RowTypes, LinkTypes, MoneyTypes, PlanT

LEMMA SameRows ==
  ASSUME RowTypes, UNCHANGED <<trig, sent, filled, dropped, onBook>>
  PROVE  RowTypes' /\ TriggerRows' = TriggerRows /\ NamedRow' = NamedRow /\ PlanT' = PlanT
BY DEF RowTypes, TriggerRows, NamedRow, PlanT

LEMMA CancelTypes ==
  ASSUME RowTypes, NEW S, S \subseteq TriggerRows, CancelAll(S), UNCHANGED <<sent, filled, onBook>>
  PROVE  RowTypes' /\ TriggerRows' = TriggerRows /\ NamedRow' = NamedRow /\ PlanT' = PlanT
<1>1. trig' \in Seq(TrigT) /\ Len(trig') = Len(trig) /\ dropped' = dropped \cup S
  BY CancelEffects DEF RowTypes
<1>2. TriggerRows' = TriggerRows
  BY <1>1 DEF TriggerRows
<1> QED BY <1>1, <1>2 DEF RowTypes, NamedRow, PlanT

LEMMA WrittenTypes ==
  ASSUME RowTypes, trig' \in Seq(TrigT), Len(trig') = Len(trig), UNCHANGED <<sent, filled, dropped, onBook>>
  PROVE  RowTypes' /\ TriggerRows' = TriggerRows /\ NamedRow' = NamedRow /\ PlanT' = PlanT
BY DEF RowTypes, NamedRow, PlanT, TriggerRows

LEMMA CreatedTypes ==
  ASSUME RowTypes, NEW r \in TrigT, trig' = Append(trig, r), sent' = Append(sent, 0),
         UNCHANGED <<filled, dropped, onBook>>
  PROVE  /\ RowTypes' /\ NamedRow \subseteq NamedRow' /\ Len(trig) + 1 \in NamedRow'
         /\ TriggerRows' = TriggerRows \cup {Len(trig) + 1}
<1>1. PICK n \in Nat : n = Len(trig) /\ Len(sent) = n /\ trig \in Seq(TrigT) /\ sent \in Seq(Nat)
                       /\ TriggerRows = 1..n
  BY DEF RowTypes, TriggerRows
<1>2. trig' \in Seq(TrigT) /\ sent' \in Seq(Nat) /\ Len(trig') = n + 1 /\ Len(sent') = n + 1
  BY <1>1
<1>3. TriggerRows' = 1..(n + 1) /\ 1..(n + 1) = 1..n \cup {n + 1} /\ n + 1 \in 1..(n + 1)
  BY <1>1, <1>2 DEF TriggerRows
<1>4. filled' \subseteq TriggerRows' /\ dropped' \subseteq TriggerRows'
      /\ onBook' \subseteq [of : TriggerRows', size : Nat \ {0}]
  BY <1>1, <1>3 DEF RowTypes
<1> QED BY <1>1, <1>2, <1>3, <1>4 DEF RowTypes, NamedRow

LEMMA SameLinks ==
  ASSUME LinkTypes, NamedRow' = NamedRow, PlanT' = PlanT, UNCHANGED <<links, plan>>
  PROVE  LinkTypes'
BY DEF LinkTypes

LEMMA SameMoney ==
  ASSUME MoneyTypes, UNCHANGED <<stake, fills, cascade, trades>>
  PROVE  MoneyTypes'
BY DEF MoneyTypes

\* What a setter still has to do is well formed.
LEMMA PlanHolds ==
  ASSUME LinkTypes, NEW s \in Setters
  PROVE  /\ plan[s] \in PlanT /\ plan[s].todo \in StepsT /\ plan[s].of \in Nat
         /\ plan[s].next \in [Kinds -> NamedRow]
         /\ plan[s].todo.cancel \subseteq Kinds /\ plan[s].todo.create \subseteq Kinds
         /\ plan[s].todo.usd \in Nat /\ plan[s].todo.link \in {"none", "upsert", "delete"}
BY DEF LinkTypes, PlanT, StepsT

LEMMA LinkHolds ==
  ASSUME LinkTypes, NEW p
  PROVE  LinkOf(p) \in [Kinds -> NamedRow]
BY DEF LinkTypes, LinkOf, NoLink, NamedRow

LEMMA NoPlanHolds == NoPlan \in PlanT
BY DEF NoPlan, PlanT, NoSteps, StepsT, NoLink, NamedRow, Kinds

LEMMA FirstHolds == ASSUME NEW S, S \subseteq Kinds, S # {} PROVE First(S) \in S /\ First(S) \in Kinds
BY DEF First, Kinds

LEMMA BeginTypes ==
  ASSUME StopTypes, NEW s \in Setters, NEW todo \in StepsT, Begin(s, todo)
  PROVE  /\ StopTypes' /\ plan' = [plan EXCEPT ![s] = [todo |-> todo, of |-> stake.id, next |-> LinkOf(stake.id)]]
         /\ plan'[s] = [todo |-> todo, of |-> stake.id, next |-> LinkOf(stake.id)]
         /\ \A q \in Setters \ {s} : plan'[q] = plan[q]
<1>1. /\ RowTypes /\ LinkTypes /\ MoneyTypes
      /\ plan' = [plan EXCEPT ![s] = [todo |-> todo, of |-> stake.id, next |-> LinkOf(stake.id)]]
      /\ UNCHANGED <<trig, sent, filled, dropped, onBook, links, stake, fills, cascade, trades>>
  BY TypesParts DEF Begin, keeperHistory
<1>2. RowTypes' /\ MoneyTypes' /\ NamedRow' = NamedRow /\ PlanT' = PlanT
  BY <1>1, SameRows, SameMoney
<1>3. [todo |-> todo, of |-> stake.id, next |-> LinkOf(stake.id)] \in PlanT
  BY <1>1, LinkHolds DEF PlanT, MoneyTypes
<1>4. LinkTypes'
  BY <1>1, <1>2, <1>3 DEF LinkTypes
<1>5. StopTypes'
  BY <1>2, <1>4, TypesParts DEF StopTypes, RowTypes, LinkTypes, MoneyTypes, PlanT
<1> QED BY <1>1, <1>5 DEF LinkTypes

\* The rows that a step of a setter cancels.
CancelledKinds(s) == IF plan[s].todo.link = "delete" THEN plan[s].todo.cancel ELSE {First(plan[s].todo.cancel)}

LEMMA PrimedParts == StopTypes' <=> RowTypes' /\ LinkTypes' /\ MoneyTypes'
BY DEF StopTypes, RowTypes, LinkTypes, MoneyTypes, PlanT

LEMMA ActiveRows == ASSUME NEW kinds, NEW p PROVE /\ ActiveWhere(kinds, p) \subseteq TriggerRows
                    /\ \A t \in ActiveWhere(kinds, p) : t \in TriggerRows /\ trig[t].status = "active"
BY DEF ActiveWhere

LEMMA PlanCut ==
  ASSUME LinkTypes, NEW s \in Setters, NEW K, plan' = [plan EXCEPT ![s].todo.cancel = @ \ K]
  PROVE  /\ plan' \in [Setters -> PlanT]
         /\ plan'[s].todo.cancel = plan[s].todo.cancel \ K /\ plan'[s].todo.create = plan[s].todo.create
         /\ plan'[s].todo.link = plan[s].todo.link /\ plan'[s].of = plan[s].of /\ plan'[s].next = plan[s].next
         /\ \A q \in Setters \ {s} : plan'[q] = plan[q]
<1>1. plan \in [Setters -> PlanT] /\ plan[s] \in PlanT /\ plan[s].todo \in StepsT
  BY DEF LinkTypes, PlanT
<1>2. PICK p \in PlanT : p = plan[s] /\ p.todo \in StepsT
  BY <1>1
<1>3. [p EXCEPT !.todo = [p.todo EXCEPT !.cancel = p.todo.cancel \ K]] \in PlanT
  BY <1>2 DEF PlanT, StepsT
<1>4. plan' = [plan EXCEPT ![s] = [p EXCEPT !.todo = [p.todo EXCEPT !.cancel = p.todo.cancel \ K]]]
  BY <1>2
<1>5. plan'[s] = [p EXCEPT !.todo = [p.todo EXCEPT !.cancel = p.todo.cancel \ K]]
  BY <1>1, <1>4
<1>6. /\ \A q \in Setters \ {s} : plan'[q] = plan[q]
      /\ plan' \in [Setters -> PlanT]
  BY <1>1, <1>3, <1>4
<1>7. /\ plan'[s].todo = [p.todo EXCEPT !.cancel = p.todo.cancel \ K] /\ plan'[s].of = p.of
      /\ plan'[s].next = p.next
  BY <1>2, <1>5 DEF PlanT
<1>8. /\ plan'[s].todo.cancel = p.todo.cancel \ K /\ plan'[s].todo.create = p.todo.create
      /\ plan'[s].todo.link = p.todo.link
  BY <1>2, <1>7 DEF StepsT
<1> QED BY <1>2, <1>6, <1>7, <1>8

LEMMA CancelStepTypes ==
  ASSUME StopTypes, NEW s \in Setters, StepCancel(s)
  PROVE  /\ StopTypes' /\ UNCHANGED <<links, stake, fills, cascade, onBook, keeper, keeperHistory, windows>>
         /\ plan[s].todo.cancel # {} /\ CancelAll(ActiveWhere(CancelledKinds(s), plan[s].of))
         /\ plan'[s].todo.cancel = plan[s].todo.cancel \ CancelledKinds(s)
         /\ plan'[s].todo.create = plan[s].todo.create
         /\ plan'[s].todo.link = plan[s].todo.link /\ plan'[s].of = plan[s].of /\ plan'[s].next = plan[s].next
         /\ \A q \in Setters \ {s} : plan'[q] = plan[q]
<1>1. /\ RowTypes /\ LinkTypes /\ MoneyTypes /\ plan[s].todo.cancel # {}
      /\ CancelAll(ActiveWhere(CancelledKinds(s), plan[s].of))
      /\ plan' = [plan EXCEPT ![s].todo.cancel = @ \ CancelledKinds(s)]
      /\ UNCHANGED <<links, stake, fills, cascade, onBook, keeper, keeperHistory, windows, trades>>
  BY TypesParts DEF StepCancel, CancelledKinds
<1>2. RowTypes' /\ NamedRow' = NamedRow /\ PlanT' = PlanT
  BY <1>1, ActiveRows, CancelTypes DEF keeperHistory
<1>3. MoneyTypes'
  BY <1>1, SameMoney
<1> HIDE DEF CancelledKinds
<1>4. /\ plan' \in [Setters -> PlanT]
      /\ plan'[s].todo.cancel = plan[s].todo.cancel \ CancelledKinds(s)
      /\ plan'[s].todo.create = plan[s].todo.create
      /\ plan'[s].todo.link = plan[s].todo.link /\ plan'[s].of = plan[s].of /\ plan'[s].next = plan[s].next
      /\ \A q \in Setters \ {s} : plan'[q] = plan[q]
  <2>1. PICK K : K = CancelledKinds(s)
    OBVIOUS
  <2>2. plan' = [plan EXCEPT ![s].todo.cancel = @ \ K]
    BY <1>1, <2>1
  <2>3. /\ plan' \in [Setters -> PlanT]
        /\ plan'[s].todo.cancel = plan[s].todo.cancel \ K /\ plan'[s].todo.create = plan[s].todo.create
        /\ plan'[s].todo.link = plan[s].todo.link /\ plan'[s].of = plan[s].of /\ plan'[s].next = plan[s].next
        /\ \A q \in Setters \ {s} : plan'[q] = plan[q]
    BY <1>1, <2>2, PlanCut
  <2> QED BY <2>1, <2>3
<1>5. LinkTypes'
  BY <1>1, <1>2, <1>4 DEF LinkTypes
<1> QED BY <1>1, <1>2, <1>3, <1>4, <1>5, PrimedParts

LEMMA CreateStepTypes ==
  ASSUME StopTypes, NEW s \in Setters, StepCreate(s)
  PROVE  \E kind \in Kinds, entry \in TrigT :
         /\ StopTypes' /\ UNCHANGED <<links, stake, fills, cascade, onBook, keeper, filled, cutOff, dropped>>
         /\ plan[s].todo.cancel = {} /\ kind \in plan[s].todo.create /\ TooLate(s)
         /\ entry.status = "active" /\ entry.kind = kind /\ entry.of = plan[s].of
         /\ trig' = Append(trig, entry) /\ sent' = Append(sent, 0)
         /\ plan'[s].todo.cancel = {}
         /\ plan'[s].todo.create = plan[s].todo.create \ {kind}
         /\ plan'[s].todo.link = plan[s].todo.link /\ plan'[s].of = plan[s].of
         /\ plan'[s].next = [plan[s].next EXCEPT ![kind] = Len(trig) + 1]
         /\ \A q \in Setters \ {s} : plan'[q] = plan[q]
<1>1. PICK kind : kind = First(plan[s].todo.create)
  OBVIOUS
<1>2. PICK mode, entry : /\ mode = IF plan[s].todo.usd = 0 THEN "close" ELSE "part"
                         /\ entry = NewTrigger(kind, plan[s].of, plan[s].todo.usd, mode, "setter")
  OBVIOUS
<1>3. /\ RowTypes /\ LinkTypes /\ MoneyTypes /\ plan[s].todo.cancel = {} /\ plan[s].todo.create # {}
      /\ TooLate(s) /\ trig' = Append(trig, entry) /\ sent' = Append(sent, 0)
      /\ plan' = [plan EXCEPT ![s].todo.create = @ \ {kind}, ![s].next[kind] = Len(trig) + 1]
      /\ UNCHANGED <<links, stake, fills, cascade, onBook, keeper, filled, cutOff, dropped, trades>>
  <2>1. /\ RowTypes /\ LinkTypes /\ MoneyTypes /\ plan[s].todo.cancel = {} /\ plan[s].todo.create # {}
        /\ TooLate(s) /\ sent' = Append(sent, 0)
        /\ plan' = [plan EXCEPT ![s].todo.create = @ \ {kind}, ![s].next[kind] = Len(trig) + 1]
        /\ UNCHANGED <<links, stake, fills, cascade, onBook, keeper, filled, cutOff, dropped, trades>>
    BY <1>1, TypesParts DEF StepCreate
  <2>2. trig' = Append(trig, NewTrigger(kind, plan[s].of, plan[s].todo.usd,
                                    IF plan[s].todo.usd = 0 THEN "close" ELSE "part", "setter"))
    BY <1>1 DEF StepCreate
  <2> QED BY <1>2, <2>1, <2>2
<1>4. /\ plan[s] \in PlanT /\ plan[s].todo \in StepsT /\ plan[s].of \in Nat
      /\ plan[s].next \in [Kinds -> NamedRow] /\ plan[s].todo.usd \in Nat /\ plan[s].todo.create \subseteq Kinds
  BY <1>3, PlanHolds
<1>5. kind \in plan[s].todo.create /\ kind \in Kinds
  BY <1>1, <1>3, <1>4, FirstHolds
<1>6. entry \in TrigT /\ entry.status = "active" /\ entry.kind = kind /\ entry.of = plan[s].of
  <2>1. mode \in {"close", "part"}
    BY <1>2
  <2> QED BY <1>2, <1>4, <1>5, <2>1 DEF NewTrigger, TrigT, TriggerStatuses
<1>7. RowTypes' /\ NamedRow \subseteq NamedRow' /\ Len(trig) + 1 \in NamedRow'
  BY <1>3, <1>6, CreatedTypes
<1>8. MoneyTypes'
  BY <1>3, SameMoney
<1>9. PICK p, n : /\ p \in PlanT /\ p = plan[s] /\ n = Len(trig) + 1 /\ n \in NamedRow' /\ p.todo \in StepsT
                            /\ p.next \in [Kinds -> NamedRow]
  BY <1>4, <1>7
<1>10. plan' = [plan EXCEPT ![s] = [p EXCEPT !.todo = [p.todo EXCEPT !.create = p.todo.create \ {kind}],
                                             !.next = [p.next EXCEPT ![kind] = n]]]
  BY <1>3, <1>9
<1>11. /\ plan'[s] = [p EXCEPT !.todo = [p.todo EXCEPT !.create = p.todo.create \ {kind}],
                               !.next = [p.next EXCEPT ![kind] = n]]
       /\ \A q \in Setters \ {s} : plan'[q] = plan[q]
       /\ DOMAIN plan' = Setters /\ plan' = [q \in Setters |-> plan'[q]]
  BY <1>3, <1>10 DEF LinkTypes
<1>12. /\ plan'[s].todo = [p.todo EXCEPT !.create = p.todo.create \ {kind}] /\ plan'[s].of = p.of
       /\ plan'[s].next = [p.next EXCEPT ![kind] = n]
  BY <1>9, <1>11 DEF PlanT
<1>13. /\ plan'[s].todo.create = p.todo.create \ {kind} /\ plan'[s].todo.cancel = p.todo.cancel
       /\ plan'[s].todo.link = p.todo.link
  BY <1>9, <1>12 DEF StepsT
<1>14. LinkTypes'
  <2>1. \A q \in [Kinds -> NamedRow] : q \in [Kinds -> NamedRow']
    BY <1>7
  <2>2. \A q \in Setters \ {s} : plan'[q] \in PlanT'
    <3>1. \A q \in Setters \ {s} : plan[q] \in PlanT
      BY <1>3 DEF LinkTypes
    <3>2. \A q \in PlanT : q \in PlanT'
      BY <2>1 DEF PlanT
    <3> QED BY <1>11, <3>1, <3>2
  <2>3. plan'[s] \in PlanT'
    <3>1. [p.todo EXCEPT !.create = p.todo.create \ {kind}] \in StepsT
      BY <1>9 DEF StepsT
    <3>2. [p.next EXCEPT ![kind] = n] \in [Kinds -> NamedRow']
      BY <1>9, <2>1
    <3> QED BY <1>9, <1>11, <3>1, <3>2 DEF PlanT
  <2>4. plan' \in [Setters -> PlanT']
    BY <1>11, <2>2, <2>3
  <2> QED BY <1>3, <2>1, <2>4 DEF LinkTypes
<1> QED BY ZenonT(40), <1>3, <1>5, <1>6, <1>7, <1>8, <1>9, <1>11, <1>12, <1>13, <1>14, PrimedParts

SettersSame == UNCHANGED <<links, plan>>
MoneySame == UNCHANGED <<stake, fills, cascade, trades>>
RowsSame == UNCHANGED <<trig, sent, filled, dropped, onBook>>

LEMMA LinkStepTypes ==
  ASSUME StopTypes, NEW s \in Setters, StepLink(s)
  PROVE  /\ StopTypes' /\ RowsSame /\ MoneySame /\ UNCHANGED <<keeper, cutOff>>
         /\ plan[s].todo.cancel = {} /\ plan[s].todo.create = {}
         /\ plan'[s] = NoPlan /\ \A q \in Setters \ {s} : plan'[q] = plan[q]
         /\ \/ plan[s].todo.link = "upsert" /\ TooLate(s) /\ links' = WithLink(plan[s].of, Upserted(s))
            \/ plan[s].todo.link = "delete" /\ UNCHANGED windows /\ links' = WithoutLink(plan[s].of)
<1>1. /\ RowTypes /\ LinkTypes /\ MoneyTypes /\ RowsSame /\ MoneySame /\ UNCHANGED <<keeper, cutOff>>
      /\ plan[s].todo.cancel = {} /\ plan[s].todo.create = {}
      /\ plan' = [plan EXCEPT ![s] = NoPlan]
      /\ \/ plan[s].todo.link = "upsert" /\ TooLate(s) /\ links' = WithLink(plan[s].of, Upserted(s))
         \/ plan[s].todo.link = "delete" /\ UNCHANGED windows /\ links' = WithoutLink(plan[s].of)
  BY TypesParts DEF StepLink, RowsSame, MoneySame, keeperHistory
<1>2. RowTypes' /\ MoneyTypes' /\ NamedRow' = NamedRow /\ PlanT' = PlanT
  BY <1>1, SameRows, SameMoney DEF RowsSame, MoneySame
<1>3. /\ plan' \in [Setters -> PlanT] /\ plan'[s] = NoPlan
      /\ \A q \in Setters \ {s} : plan'[q] = plan[q]
  BY <1>1, NoPlanHolds DEF LinkTypes
<1>4. DOMAIN links' \subseteq Nat /\ \A p \in DOMAIN links' : links'[p] \in [Kinds -> NamedRow]
  <2>1. plan[s].of \in Nat /\ plan[s].next \in [Kinds -> NamedRow] /\ LinkOf(plan[s].of) \in [Kinds -> NamedRow]
    BY <1>1, PlanHolds, LinkHolds
  <2>2. Upserted(s) \in [Kinds -> NamedRow]
    BY <2>1 DEF Upserted
  <2> QED BY <1>1, <2>1, <2>2 DEF WithLink, WithoutLink, LinkTypes
<1>5. LinkTypes'
  BY <1>2, <1>3, <1>4 DEF LinkTypes
<1> QED BY <1>1, <1>2, <1>3, <1>5, PrimedParts

LEMMA PlanDropTypes ==
  ASSUME StopTypes, RowsSame, UNCHANGED <<links, stake, fills, trades>>,
         cascade' = cascade \/ cascade' = Settled,
         plan' \in [Setters -> {NoPlan} \cup PlanT]
  PROVE  StopTypes'
<1>1. RowTypes /\ LinkTypes /\ MoneyTypes
  BY TypesParts
<1>2. RowTypes' /\ NamedRow' = NamedRow /\ PlanT' = PlanT
  BY <1>1, SameRows DEF RowsSame
<1>3. MoneyTypes'
  BY <1>1 DEF MoneyTypes
<1>4. LinkTypes'
  BY <1>1, <1>2, NoPlanHolds DEF LinkTypes
<1> QED BY <1>2, <1>3, <1>4, PrimedParts

LEMMA FailsTypes ==
  ASSUME StopTypes, NEW s \in Setters, StepFails(s)
  PROVE  StopTypes' /\ RowsSame /\ MoneySame /\ UNCHANGED <<links, keeper, cutOff>>
         /\ Through("set failed", TRUE)
<1>1. /\ RowsSame /\ MoneySame /\ UNCHANGED <<links, keeper, cutOff>> /\ Through("set failed", TRUE)
      /\ plan' = [plan EXCEPT ![s] = NoPlan]
  BY DEF StepFails, RowsSame, MoneySame, keeperHistory
<1>2. plan' \in [Setters -> {NoPlan} \cup PlanT]
  BY <1>1, TypesParts DEF LinkTypes
<1> QED BY <1>1, <1>2, PlanDropTypes DEF MoneySame

LEMMA RestartTypes ==
  ASSUME StopTypes, Restart
  PROVE  StopTypes' /\ RowsSame /\ UNCHANGED <<links, stake, fills, trades>> /\ cascade' = Settled
         /\ \A s \in Setters : plan'[s] = NoPlan
<1>1. /\ RowsSame /\ UNCHANGED <<links, stake, fills, trades>> /\ cascade' = Settled
      /\ plan' = [s \in Setters |-> NoPlan]
  BY DEF Restart, RowsSame
<1>2. plan' \in [Setters -> {NoPlan} \cup PlanT]
  BY <1>1
<1> QED BY <1>1, <1>2, PlanDropTypes

LEMMA CancelRowTypes ==
  ASSUME StopTypes, NEW t \in TriggerRows, CancelTrigger(t)
  PROVE  StopTypes' /\ SettersSame /\ MoneySame /\ UNCHANGED <<keeper, keeperHistory, onBook, windows>>
         /\ trig[t].status = "active" /\ CancelAll({t})
<1>1. /\ RowTypes /\ LinkTypes /\ MoneyTypes /\ trig[t].status = "active" /\ CancelAll({t})
      /\ SettersSame /\ MoneySame /\ UNCHANGED <<keeper, keeperHistory, onBook, windows>>
  BY TypesParts DEF CancelTrigger, setterState, SettersSame, MoneySame
<1>2. RowTypes' /\ NamedRow' = NamedRow /\ PlanT' = PlanT
  <2>1. {t} \subseteq TriggerRows
    OBVIOUS
  <2> QED BY <1>1, <2>1, CancelTypes DEF keeperHistory
<1>3. MoneyTypes' /\ LinkTypes'
  BY <1>1, <1>2, SameMoney, SameLinks DEF MoneySame, SettersSame
<1> QED BY <1>1, <1>2, <1>3, PrimedParts

LEMMA BuyTypes ==
  ASSUME StopTypes, UserBuys
  PROVE  StopTypes' /\ RowsSame /\ SettersSame /\ UNCHANGED <<stake, cascade, keeper, cutOff, windows>>
         /\ fills' = Append(fills, Lot) /\ Lot \in Nat \ {0}
<1>1. /\ RowTypes /\ LinkTypes /\ MoneyTypes /\ RowsSame /\ SettersSame
      /\ UNCHANGED <<stake, cascade, keeper, cutOff, windows>>
      /\ fills' = Append(fills, Lot) /\ Lot \in Nat \ {0} /\ trades' = trades + 1
  BY TypesParts, TriggerAssumption DEF UserBuys, setterState, SettersSame, RowsSame, keeperHistory
<1>2. RowTypes' /\ LinkTypes'
  BY <1>1, SameRows, SameLinks DEF SettersSame, RowsSame
<1>3. MoneyTypes'
  <2>1. Append(fills, Lot) \in Seq(Int \ {0})
    BY <1>1 DEF MoneyTypes
  <2> QED BY <1>1, <2>1 DEF MoneyTypes
<1> QED BY <1>1, <1>2, <1>3, PrimedParts

LEMMA RestingTypes ==
  ASSUME StopTypes, NEW o \in onBook, RestingFills(o)
  PROVE  StopTypes' /\ SettersSame /\ UNCHANGED <<trig, stake, cascade, keeper, windows>>
         /\ fills' = Append(fills, -o.size) /\ onBook' = onBook \ {o} /\ o.size \in Nat \ {0}
<1>1. /\ RowTypes /\ LinkTypes /\ MoneyTypes /\ SettersSame
      /\ UNCHANGED <<trig, sent, dropped, stake, cascade, keeper, trades, windows>>
      /\ fills' = Append(fills, -o.size) /\ onBook' = onBook \ {o} /\ filled' = filled \cup {o.of}
      /\ o.size \in Nat \ {0} /\ o.of \in TriggerRows
  BY TypesParts DEF RestingFills, setterState, SettersSame, RowTypes
<1>2. RowTypes' /\ NamedRow' = NamedRow /\ PlanT' = PlanT
  BY <1>1 DEF RowTypes, TriggerRows, NamedRow, PlanT
<1>3. LinkTypes'
  BY <1>1, <1>2, SameLinks DEF SettersSame
<1>4. MoneyTypes'
  <2>1. -o.size \in Int \ {0}
    BY <1>1
  <2>2. Append(fills, -o.size) \in Seq(Int \ {0})
    BY <1>1, <2>1 DEF MoneyTypes
  <2> QED BY <1>1, <2>2 DEF MoneyTypes
<1> QED BY <1>1, <1>2, <1>3, <1>4, PrimedParts

LEMMA ClosedStake ==
  ASSUME MoneyTypes, stake' = [stake EXCEPT !.size = 0]
  PROVE  stake' \in [id : Nat, size : Int] /\ stake'.size = 0 /\ stake'.id = stake.id
<1>1. PICK x \in [id : Nat, size : Int] : x = stake
  BY DEF MoneyTypes
<1>2. [x EXCEPT !.size = 0] \in [id : Nat, size : Int] /\ [x EXCEPT !.size = 0].size = 0
      /\ [x EXCEPT !.size = 0].id = x.id
  OBVIOUS
<1> QED BY <1>1, <1>2

LEMMA PersistTypes ==
  ASSUME StopTypes, Persist
  PROVE  /\ StopTypes' /\ RowsSame /\ SettersSame /\ UNCHANGED <<keeper, cutOff, windows>>
         /\ fills # << >> /\ cascade = Settled
         /\ Head(fills) \in Int \ {0}
         /\ \/ /\ Closes(Head(fills)) /\ stake' = [stake EXCEPT !.size = 0]
               /\ cascade' = [of |-> stake.id, step |-> "cancel"]
               /\ fills' = (IF Head(fills) + stake.size = 0 THEN << >> ELSE <<Head(fills) + stake.size>>) \o Tail(fills)
            \/ /\ ~Closes(Head(fills)) /\ cascade' = cascade /\ fills' = Tail(fills)
               /\ stake' = [id |-> IF stake.size = 0 THEN stake.id + 1 ELSE stake.id,
                            size |-> stake.size + Head(fills)]
<1>1. PICK d : d = Head(fills)
  OBVIOUS
<1>2. /\ RowTypes /\ LinkTypes /\ MoneyTypes /\ RowsSame /\ SettersSame
      /\ UNCHANGED <<keeper, cutOff, windows, trades>>
      /\ fills # << >> /\ cascade = Settled /\ d \in Int \ {0}
      /\ Tail(fills) \in Seq(Int \ {0}) /\ stake.id \in Nat /\ stake.size \in Int
  BY <1>1, TypesParts DEF Persist, setterState, SettersSame, RowsSame, keeperHistory, MoneyTypes
<1>3. RowTypes' /\ LinkTypes'
  BY <1>2, SameRows, SameLinks DEF SettersSame, RowsSame
<1>4. CASE Closes(d)
  <2>1. /\ stake' = [stake EXCEPT !.size = 0]
        /\ cascade' = [of |-> stake.id, step |-> "cancel"]
        /\ fills' = (IF d + stake.size = 0 THEN << >> ELSE <<d + stake.size>>) \o Tail(fills)
    BY <1>1, <1>4 DEF Persist
  <2>2. fills' \in Seq(Int \ {0})
    <3>1. PICK k \in Int : k = d + stake.size
      BY <1>2
    <3>2. (IF k = 0 THEN << >> ELSE <<k>>) \in Seq(Int \ {0})
      <4>1. CASE k = 0
        BY <4>1
      <4>2. CASE k # 0
        BY <4>2
      <4> QED BY <4>1, <4>2
    <3> QED BY <1>2, <2>1, <3>1, <3>2, ConcatProperties
  <2>3. MoneyTypes'
    <3>1. stake' \in [id : Nat, size : Int]
      BY <1>2, <2>1, ClosedStake
    <3>2. cascade' \in [of : Nat, step : {"cancel", "unlink"}]
      BY <1>2, <2>1
    <3> QED BY <1>2, <2>2, <3>1, <3>2 DEF MoneyTypes
  <2> QED BY <1>1, <1>2, <1>3, <1>4, <2>1, <2>3, PrimedParts
<1>5. CASE ~Closes(d)
  <2>1. /\ cascade' = cascade /\ fills' = Tail(fills)
        /\ stake' = [id |-> IF stake.size = 0 THEN stake.id + 1 ELSE stake.id, size |-> stake.size + d]
    BY <1>1, <1>5 DEF Persist
  <2>2. MoneyTypes'
    BY <1>2, <2>1 DEF MoneyTypes
  <2> QED BY <1>1, <1>2, <1>3, <1>5, <2>1, <2>2, PrimedParts
<1> QED BY <1>4, <1>5

LEMMA CleanTypes ==
  ASSUME StopTypes, CleanTriggers
  PROVE  StopTypes' /\ SettersSame /\ UNCHANGED <<stake, fills, keeper, keeperHistory, onBook, windows>>
         /\ CancelAll(ActiveWhere(Kinds, cascade.of)) /\ cascade.step = "cancel"
         /\ cascade \in [of : Nat, step : {"cancel", "unlink"}]
         /\ cascade' = [of |-> cascade.of, step |-> "unlink"]
<1>1. /\ RowTypes /\ LinkTypes /\ MoneyTypes /\ SettersSame /\ cascade.step = "cancel"
      /\ CancelAll(ActiveWhere(Kinds, cascade.of)) /\ cascade' = [cascade EXCEPT !.step = "unlink"]
      /\ UNCHANGED <<stake, fills, trades, keeper, keeperHistory, onBook, windows>>
  BY TypesParts DEF CleanTriggers, setterState, SettersSame, Leftover
<1>2. RowTypes' /\ NamedRow' = NamedRow /\ PlanT' = PlanT
  BY <1>1, ActiveRows, CancelTypes DEF keeperHistory
<1>3. LinkTypes'
  BY <1>1, <1>2, SameLinks DEF SettersSame
<1>4. cascade \in [of : Nat, step : {"cancel", "unlink"}]
  BY <1>1 DEF MoneyTypes, Settled
<1>5. cascade' = [of |-> cascade.of, step |-> "unlink"]
  BY <1>1, <1>4
<1>6. MoneyTypes'
  BY <1>1, <1>4, <1>5 DEF MoneyTypes
<1> QED BY <1>1, <1>2, <1>3, <1>4, <1>5, <1>6, PrimedParts

LEMMA UnlinkTypes ==
  ASSUME StopTypes, CleanLink
  PROVE  StopTypes' /\ RowsSame /\ UNCHANGED <<plan, stake, fills, keeper, cutOff, windows>>
         /\ cascade.step = "unlink" /\ cascade' = Settled /\ links' = WithoutLink(cascade.of)
<1>1. /\ RowTypes /\ LinkTypes /\ MoneyTypes /\ RowsSame
      /\ UNCHANGED <<plan, stake, fills, trades, keeper, cutOff, windows>>
      /\ cascade.step = "unlink" /\ cascade' = Settled /\ links' = WithoutLink(cascade.of)
  BY TypesParts DEF CleanLink, RowsSame, keeperHistory
<1>2. RowTypes' /\ NamedRow' = NamedRow /\ PlanT' = PlanT
  BY <1>1, SameRows DEF RowsSame
<1>3. LinkTypes'
  BY <1>1, <1>2 DEF LinkTypes, WithoutLink
<1>4. MoneyTypes'
  BY <1>1 DEF MoneyTypes
<1> QED BY <1>1, <1>2, <1>3, <1>4, PrimedParts

LEMMA CloseTypes ==
  ASSUME StopTypes, UserCloses
  PROVE  StopTypes' /\ UNCHANGED <<plan, fills, cascade, keeper, keeperHistory, onBook>>
         /\ stake.size # 0 /\ stake' = [stake EXCEPT !.size = 0]
         /\ CancelAll(ActiveWhere(Kinds, stake.id)) /\ links' = WithoutLink(stake.id)
         /\ Through("closed under", fills # << >> \/ onBook # {})
<1>1. /\ RowTypes /\ LinkTypes /\ MoneyTypes
      /\ UNCHANGED <<plan, fills, cascade, trades, keeper, keeperHistory, onBook>>
      /\ stake.size # 0 /\ stake' = [stake EXCEPT !.size = 0]
      /\ CancelAll(ActiveWhere(Kinds, stake.id)) /\ links' = WithoutLink(stake.id)
      /\ Through("closed under", fills # << >> \/ onBook # {})
  BY TypesParts DEF UserCloses
<1>2. RowTypes' /\ NamedRow' = NamedRow /\ PlanT' = PlanT
  BY <1>1, ActiveRows, CancelTypes DEF keeperHistory
<1>3. LinkTypes'
  BY <1>1, <1>2 DEF LinkTypes, WithoutLink
<1>4. MoneyTypes'
  BY <1>1, ClosedStake DEF MoneyTypes
<1> QED BY <1>1, <1>2, <1>3, <1>4, PrimedParts

\* The keeper's steps that leave the tables alone, or write one status.
LEMMA QuietTypes ==
  ASSUME StopTypes, RowsSame, SettersSame, MoneySame
  PROVE  StopTypes'
<1>1. RowTypes /\ LinkTypes /\ MoneyTypes
  BY TypesParts
<1> QED BY <1>1, SameRows, SameLinks, SameMoney, PrimedParts DEF RowsSame, SettersSame, MoneySame

LEMMA WriteTypes ==
  ASSUME StopTypes, trig' \in Seq(TrigT), Len(trig') = Len(trig), UNCHANGED <<sent, filled, dropped, onBook>>,
         SettersSame, MoneySame
  PROVE  StopTypes'
<1>1. RowTypes /\ LinkTypes /\ MoneyTypes
  BY TypesParts
<1> QED BY <1>1, WrittenTypes, SameLinks, SameMoney, PrimedParts DEF SettersSame, MoneySame

LEMMA SendTypes ==
  ASSUME Fires, NEW got \in Nat, SendOrder(got), got <= keeper.size
  PROVE  StopTypes'
<1>1. /\ sent' \in Seq(Nat) /\ Len(sent') = Len(sent) /\ filled' \subseteq TriggerRows
      /\ onBook' \subseteq [of : TriggerRows, size : Nat \ {0}]
  BY SendFires
<1>2. /\ RowTypes /\ LinkTypes /\ MoneyTypes /\ SettersSame
      /\ UNCHANGED <<trig, dropped, stake, cascade, trades>>
      /\ fills' = IF got > 0 THEN Append(fills, -got) ELSE fills
  BY TypesParts DEF SendOrder, setterState, SettersSame, Fires
<1>3. RowTypes' /\ NamedRow' = NamedRow /\ PlanT' = PlanT
  BY <1>1, <1>2 DEF RowTypes, TriggerRows, NamedRow, PlanT
<1>4. LinkTypes'
  BY <1>2, <1>3, SameLinks DEF SettersSame
<1>5. fills' \in Seq(Int \ {0})
  <2>1. CASE got > 0
    <3>1. -got \in Int \ {0}
      BY <2>1
    <3> QED BY <1>2, <2>1, <3>1 DEF MoneyTypes
  <2>2. CASE ~(got > 0)
    BY <1>2, <2>2 DEF MoneyTypes
  <2> QED BY <2>1, <2>2
<1>6. MoneyTypes'
  BY <1>2, <1>5 DEF MoneyTypes
<1> QED BY <1>3, <1>4, <1>6, PrimedParts

\* No row becomes active.
Fewer == \A t, p, k : ActiveRow(t, p, k)' => ActiveRow(t, p, k)

LEMMA CancelFewer ==
  ASSUME RowTypes, NEW S, S \subseteq TriggerRows, CancelAll(S)
  PROVE  Fewer /\ \A t, p, k : ActiveRow(t, p, k)' => t \notin S
<1>1. /\ Len(trig') = Len(trig)
      /\ \A t \in TriggerRows :
            /\ trig'[t].kind = trig[t].kind /\ trig'[t].of = trig[t].of
            /\ trig'[t].usd = trig[t].usd /\ trig'[t].by = trig[t].by
            /\ trig'[t].status = IF t \in S THEN "cancelled" ELSE trig[t].status
  BY CancelEffects DEF RowTypes
<1>2. TriggerRows' = TriggerRows
  BY <1>1 DEF TriggerRows
<1> QED BY <1>1, <1>2 DEF Fewer, ActiveRow

LEMMA SameFewer == ASSUME UNCHANGED trig PROVE Fewer
BY DEF Fewer, ActiveRow, TriggerRows

LEMMA BecomeFewer ==
  ASSUME RowTypes, NEW status \in TriggerStatuses \ {"active"}, On \in TriggerRows, Become(On, status)
  PROVE  Fewer
<1>1. PICK u \in TriggerRows : u = On
  OBVIOUS
<1>2. Become(u, status)
  BY <1>1
<1>3. /\ Len(trig') = Len(trig)
      /\ \A t \in TriggerRows :
            /\ trig'[t].kind = trig[t].kind /\ trig'[t].of = trig[t].of
            /\ trig'[t].usd = trig[t].usd /\ trig'[t].by = trig[t].by
            /\ trig'[t].status = IF t = u THEN status ELSE trig[t].status
  BY <1>2, BecomeEffects DEF RowTypes
<1>4. TriggerRows' = TriggerRows
  BY <1>3 DEF TriggerRows
<1> QED BY <1>3, <1>4 DEF Fewer, ActiveRow

\* The setters and what they read stand still.
LEMMA SettersStill ==
  ASSUME UNCHANGED <<links, plan>>, windows \subseteq windows'
  PROVE  /\ Agreed' => Agreed
         /\ \A s \in Setters : Busy(s)' = Busy(s)
         /\ \A t, p, k : LinkNames(t, p, k)' = LinkNames(t, p, k)
         /\ \A t, k : \A s \in Setters : Covers(s, t, k)' = Covers(s, t, k)
BY DEF Agreed, Busy, LinkNames, Covers, LinkOf

\* Rows may only stop being active, and the setters and the position stand still.
LEMMA FewerLinks ==
  ASSUME LinkInv, Fewer, UNCHANGED <<links, plan, cascade, stake>>, windows \subseteq windows'
  PROVE  LinkInv'
<1>1. /\ Agreed' => Agreed
      /\ \A s \in Setters : Busy(s)' = Busy(s)
      /\ \A t, p, k : LinkNames(t, p, k)' = LinkNames(t, p, k)
      /\ \A t, k : \A s \in Setters : Covers(s, t, k)' = Covers(s, t, k)
  BY SettersStill
<1>2. ASSUME NEW t, NEW p, NEW k, ActiveRow(t, p, k)'
      PROVE  Belongs(t, p, k)'
  <2>1. Belongs(t, p, k)
    BY <1>2 DEF LinkInv, Fewer
  <2> QED BY <1>1, <2>1 DEF Belongs, Open
<1>3. "overlap" \notin windows' => ~(Busy("user")' /\ Busy("hook")')
  BY <1>1 DEF LinkInv, Setters
<1> QED BY <1>2, <1>3 DEF LinkInv

\* A fill reaches the position.
LEMMA PersistLinks ==
  ASSUME StopTypes, LinkInv, Persist
  PROVE  LinkInv'
<1>1. /\ RowsSame /\ SettersSame /\ UNCHANGED windows /\ cascade = Settled
      /\ Head(fills) \in Int \ {0}
      /\ \/ /\ Closes(Head(fills)) /\ stake' = [stake EXCEPT !.size = 0]
            /\ cascade' = [of |-> stake.id, step |-> "cancel"]
         \/ /\ ~Closes(Head(fills)) /\ cascade' = cascade
            /\ stake' = [id |-> IF stake.size = 0 THEN stake.id + 1 ELSE stake.id,
                         size |-> stake.size + Head(fills)]
  BY PersistTypes
<1>2. Fewer
  BY <1>1, SameFewer DEF RowsSame
<1>3. /\ Agreed' => Agreed
      /\ \A s \in Setters : Busy(s)' = Busy(s)
      /\ \A t, p, k : LinkNames(t, p, k)' = LinkNames(t, p, k)
      /\ \A t, k : \A s \in Setters : Covers(s, t, k)' = Covers(s, t, k)
  BY <1>1, SettersStill DEF SettersSame
<1>4. cascade.step = "done" /\ \A p : cascade # [of |-> p, step |-> "cancel"]
  BY <1>1 DEF Settled
<1>5. stake \in [id : Nat, size : Int] /\ stake.size \in Int
  BY TypesParts DEF MoneyTypes
<1>6. cascade' # Settled => stake'.size = 0
  BY <1>1, <1>5
<1>7. "overlap" \notin windows' => ~(Busy("user")' /\ Busy("hook")')
  BY <1>1, <1>3 DEF LinkInv, Setters
<1>8. \A s \in Setters : plan'[s].todo.create # {} => plan'[s].todo.link = "upsert"
  BY <1>1 DEF LinkInv, SettersSame
<1>9. cascade'.step # "unlink"
  BY <1>1, <1>4
<1>10. ASSUME NEW p, Open(p) PROVE Open(p)' \/ cascade' = [of |-> p, step |-> "cancel"]
  <2>1. stake.size # 0 /\ stake.id = p
    BY <1>10 DEF Open
  <2>2. CASE Closes(Head(fills))
    BY <1>1, <2>1, <2>2
  <2>3. CASE ~Closes(Head(fills))
    <3>1. PICK d \in Int \ {0}, z \in Int : d = Head(fills) /\ z = stake.size
      BY <1>1, <1>5
    <3>2. z # 0 /\ ~((z > 0) = (d < 0) /\ Magnitude(d) >= Magnitude(z))
      BY <2>1, <2>3, <3>1 DEF Closes
    <3>3. z + d # 0
      BY <3>1, <3>2 DEF Magnitude
    <3>4. stake' = [id |-> stake.id, size |-> z + d]
      BY <1>1, <2>1, <2>3, <3>1
    <3> QED BY <2>1, <3>3, <3>4 DEF Open
  <2> QED BY <2>2, <2>3
<1>11. ASSUME NEW t, NEW p, NEW k, ActiveRow(t, p, k)' PROVE Belongs(t, p, k)'
  <2>1. Belongs(t, p, k)
    BY <1>2, <1>11 DEF LinkInv, Fewer
  <2>2. Agreed' => LinkNames(t, p, k)' /\ \A s \in Setters : Busy(s)' /\ plan'[s].of = p => Covers(s, t, k)'
    BY <1>1, <1>3, <2>1 DEF Belongs, SettersSame
  <2>3. windows \cap {"clean-up lost", "set late"} = {} => Open(p)
    BY <1>4, <2>1 DEF Belongs
  <2> QED BY <1>1, <1>9, <1>10, <2>2, <2>3 DEF Belongs
<1> QED BY <1>6, <1>7, <1>8, <1>11 DEF LinkInv

LEMMA OtherLink ==
  ASSUME NEW pos, NEW p, p # pos, NEW t, NEW k
  PROVE  /\ links' = WithoutLink(pos) => (LinkOf(p)[k] = t => LinkOf(p)'[k] = t)
         /\ \A entry : links' = WithLink(pos, entry) => (LinkOf(p)[k] = t => LinkOf(p)'[k] = t)
BY DEF WithoutLink, WithLink, LinkOf

\* The user closes; the clean-up's two statements.
LEMMA CloseLinks ==
  ASSUME StopTypes, LinkInv, UserCloses
  PROVE  LinkInv'
<1>1. /\ UNCHANGED <<plan, cascade>> /\ stake.size # 0 /\ stake' = [stake EXCEPT !.size = 0]
      /\ CancelAll(ActiveWhere(Kinds, stake.id)) /\ links' = WithoutLink(stake.id)
      /\ windows \subseteq windows' /\ RowTypes /\ MoneyTypes
  BY CloseTypes, TypesParts DEF Through
<1>2. cascade = Settled /\ cascade.step = "done" /\ \A p : cascade # [of |-> p, step |-> "cancel"]
  BY <1>1 DEF LinkInv, Settled
<1>3. Fewer /\ \A t, p, k : ActiveRow(t, p, k)' => t \notin ActiveWhere(Kinds, stake.id)
  BY <1>1, ActiveRows, CancelFewer
<1>4. ASSUME NEW t, NEW p, NEW k, ActiveRow(t, p, k)' PROVE p # stake.id /\ ActiveRow(t, p, k)
  <2>1. ActiveRow(t, p, k) /\ t \notin ActiveWhere(Kinds, stake.id)
    BY <1>3, <1>4 DEF Fewer
  <2>2. k \in Kinds
    <3>1. trig \in Seq(TrigT) /\ t \in 1..Len(trig)
      BY <1>1, <2>1 DEF RowTypes, ActiveRow, TriggerRows
    <3>2. trig[t] \in TrigT
      BY <3>1, ElementOfSeq
    <3> QED BY <2>1, <3>2 DEF TrigT, ActiveRow
  <2> QED BY <2>1, <2>2 DEF ActiveRow, ActiveWhere
<1>5. \A s \in Setters : Busy(s)' = Busy(s)
  BY <1>1 DEF Busy
<1>6. ASSUME NEW t, NEW p, NEW k, ActiveRow(t, p, k)' PROVE Belongs(t, p, k)'
  <2>1. Belongs(t, p, k) /\ p # stake.id
    BY <1>4, <1>6 DEF LinkInv
  <2>2. ASSUME Agreed' PROVE LinkNames(t, p, k)' /\ \A s \in Setters : Busy(s)' /\ plan'[s].of = p => Covers(s, t, k)'
    <3>1. Agreed
      BY <1>1, <2>2 DEF Agreed
    <3>2. LinkNames(t, p, k) /\ \A s \in Setters : Busy(s) /\ plan[s].of = p => Covers(s, t, k)
      BY <2>1, <3>1 DEF Belongs
    <3>3. LinkNames(t, p, k)'
      <4>1. PICK pos : pos = stake.id
        OBVIOUS
      <4>2. LinkOf(p)[k] = t => LinkOf(p)'[k] = t
        BY <1>1, <2>1, <4>1, OtherLink
      <4> QED BY <1>1, <1>5, <3>2, <4>2 DEF LinkNames
    <3>4. \A s \in Setters : Covers(s, t, k)' = Covers(s, t, k)
      BY <1>1 DEF Covers
    <3> QED BY <1>1, <1>5, <3>2, <3>3, <3>4
  <2>3. ~(windows' \cap {"clean-up lost", "set late"} = {})
    BY <1>1, <1>2, <2>1 DEF Belongs, Open
  <2> QED BY <1>1, <1>2, <2>2, <2>3 DEF Belongs
<1>7. "overlap" \notin windows' => ~(Busy("user")' /\ Busy("hook")')
  BY <1>1, <1>5 DEF LinkInv, Setters
<1>8. \A s \in Setters : plan'[s].todo.create # {} => plan'[s].todo.link = "upsert"
  BY <1>1 DEF LinkInv
<1> QED BY <1>1, <1>2, <1>6, <1>7, <1>8 DEF LinkInv

LEMMA RowKind == ASSUME RowTypes, NEW t, NEW p, NEW k, ActiveRow(t, p, k)
                 PROVE k \in Kinds /\ t \in TriggerRows /\ t # 0
<1>1. trig \in Seq(TrigT) /\ t \in 1..Len(trig)
  BY DEF RowTypes, ActiveRow, TriggerRows
<1>2. trig[t] \in TrigT
  BY <1>1, ElementOfSeq
<1> QED BY <1>1, <1>2 DEF TrigT, ActiveRow

LEMMA CleansUp ==
  ASSUME NEW p, cascade = [of |-> p, step |-> "cancel"] PROVE cascade.of = p /\ cascade.step = "cancel"
OBVIOUS

LEMMA CleanLinks ==
  ASSUME StopTypes, LinkInv, CleanTriggers
  PROVE  LinkInv'
<1>1. /\ UNCHANGED <<plan, links, stake, windows>> /\ RowTypes
      /\ CancelAll(ActiveWhere(Kinds, cascade.of)) /\ cascade.step = "cancel"
      /\ cascade \in [of : Nat, step : {"cancel", "unlink"}]
      /\ cascade' = [of |-> cascade.of, step |-> "unlink"]
  BY CleanTypes, TypesParts DEF SettersSame
<1>2. Fewer /\ \A t, p, k : ActiveRow(t, p, k)' => t \notin ActiveWhere(Kinds, cascade.of)
  BY <1>1, ActiveRows, CancelFewer
<1>3. ASSUME NEW t, NEW p, NEW k, ActiveRow(t, p, k)' PROVE p # cascade.of /\ ActiveRow(t, p, k)
  <2>1. ActiveRow(t, p, k) /\ t \notin ActiveWhere(Kinds, cascade.of)
    BY <1>2, <1>3 DEF Fewer
  <2>2. k \in Kinds
    BY <1>1, <2>1, RowKind
  <2> QED BY <2>1, <2>2 DEF ActiveRow, ActiveWhere
<1>4. /\ Agreed' => Agreed
      /\ \A s \in Setters : Busy(s)' = Busy(s)
      /\ \A t, p, k : LinkNames(t, p, k)' = LinkNames(t, p, k)
      /\ \A t, k : \A s \in Setters : Covers(s, t, k)' = Covers(s, t, k)
  BY <1>1, SettersStill
<1>5. stake.size = 0
  BY <1>1 DEF LinkInv, Settled
<1>6. ASSUME NEW t, NEW p, NEW k, ActiveRow(t, p, k)' PROVE Belongs(t, p, k)'
  <2>1. Belongs(t, p, k) /\ p # cascade.of
    BY <1>3, <1>6 DEF LinkInv
  <2>2. ~(windows \cap {"clean-up lost", "set late"} = {})
    BY <1>1, <1>5, <2>1, CleansUp DEF Belongs, Open
  <2> QED BY <1>1, <1>4, <2>1, <2>2 DEF Belongs
<1>7. "overlap" \notin windows' => ~(Busy("user")' /\ Busy("hook")')
  BY <1>1, <1>4 DEF LinkInv, Setters
<1> QED BY <1>1, <1>5, <1>6, <1>7 DEF LinkInv

LEMMA UnlinkLinks ==
  ASSUME StopTypes, LinkInv, CleanLink
  PROVE  LinkInv'
<1>1. /\ UNCHANGED <<plan, trig, stake, windows>> /\ cascade.step = "unlink"
      /\ cascade' = Settled /\ links' = WithoutLink(cascade.of)
  BY UnlinkTypes DEF RowsSame
<1>2. stake.size = 0
  BY <1>1 DEF LinkInv, Settled
<1>3. \A s \in Setters : Busy(s)' = Busy(s)
  BY <1>1 DEF Busy
<1>4. ASSUME NEW t, NEW p, NEW k, ActiveRow(t, p, k)' PROVE Belongs(t, p, k)'
  <2>1. Belongs(t, p, k)
    BY <1>1, <1>4 DEF LinkInv, ActiveRow, TriggerRows
  <2>2. "set late" \notin windows => p # cascade.of
    BY <1>1, <2>1 DEF Belongs
  <2>3. ~(windows \cap {"clean-up lost", "set late"} = {})
    BY <1>1, <1>2, <2>1, CleansUp DEF Belongs, Open
  <2>4. ASSUME Agreed' PROVE LinkNames(t, p, k)' /\ \A s \in Setters : Busy(s)' /\ plan'[s].of = p => Covers(s, t, k)'
    <3>1. Agreed /\ p # cascade.of
      BY <1>1, <2>2, <2>4 DEF Agreed
    <3>2. LinkNames(t, p, k) /\ \A s \in Setters : Busy(s) /\ plan[s].of = p => Covers(s, t, k)
      BY <2>1, <3>1 DEF Belongs
    <3>3. LinkNames(t, p, k)'
      <4>1. PICK pos : pos = cascade.of
        OBVIOUS
      <4>2. LinkOf(p)[k] = t => LinkOf(p)'[k] = t
        BY <1>1, <3>1, <4>1, OtherLink
      <4> QED BY <1>1, <1>3, <3>2, <4>2 DEF LinkNames
    <3>4. \A s \in Setters : Covers(s, t, k)' = Covers(s, t, k)
      BY <1>1 DEF Covers
    <3> QED BY <1>1, <1>3, <3>2, <3>3, <3>4
  <2>5. cascade'.step # "unlink"
    BY <1>1 DEF Settled
  <2> QED BY <1>1, <2>3, <2>4, <2>5 DEF Belongs
<1>5. "overlap" \notin windows' => ~(Busy("user")' /\ Busy("hook")')
  BY <1>1, <1>3 DEF LinkInv, Setters
<1>6. \A s \in Setters : plan'[s].todo.create # {} => plan'[s].todo.link = "upsert"
  BY <1>1 DEF LinkInv
<1> QED BY <1>1, <1>2, <1>4, <1>5, <1>6 DEF LinkInv

\* A request or the hook begins: what it read covers what it will not cancel.
LEMMA BeginLinks ==
  ASSUME StopTypes, LinkInv, NEW s \in Setters, NEW todo \in StepsT, Begin(s, todo),
         todo.create # {} => todo.link = "upsert",
         \A t, p, k : ActiveRow(t, p, k) /\ p = stake.id /\ LinkOf(p)[k] = t /\ k \in Kinds /\ t # 0 =>
             k \in todo.cancel \/ (todo.link = "upsert" /\ k \notin todo.create)
  PROVE  LinkInv'
<1>1. /\ UNCHANGED <<trig, links, stake, cascade>> /\ RowTypes /\ ~Busy(s)
      /\ Through("overlap", \E other \in Setters : Busy(other))
      /\ plan'[s] = [todo |-> todo, of |-> stake.id, next |-> LinkOf(stake.id)]
      /\ \A q \in Setters \ {s} : plan'[q] = plan[q]
  BY BeginTypes, TypesParts DEF Begin
<1>2. windows \subseteq windows' /\ ("overlap" \notin windows' => \A q \in Setters : ~Busy(q))
  BY <1>1 DEF Through
<1>3. \A q \in Setters \ {s} : Busy(q)' = Busy(q)
  BY <1>1 DEF Busy
<1>4. ASSUME NEW t, NEW p, NEW k, ActiveRow(t, p, k)' PROVE Belongs(t, p, k)'
  <2>1. Belongs(t, p, k) /\ ActiveRow(t, p, k)
    BY <1>1, <1>4 DEF LinkInv, ActiveRow, TriggerRows
  <2>2. ASSUME Agreed' PROVE LinkNames(t, p, k)' /\ \A q \in Setters : Busy(q)' /\ plan'[q].of = p => Covers(q, t, k)'
    <3>1. Agreed /\ \A q \in Setters : ~Busy(q)
      BY <1>2, <2>2 DEF Agreed
    <3>2. LinkOf(p)[k] = t
      BY <2>1, <3>1 DEF Belongs, LinkNames
    <3>3. LinkNames(t, p, k)'
      BY <1>1, <3>2 DEF LinkNames, LinkOf
    <3>4. ASSUME stake.id = p PROVE Covers(s, t, k)'
      <4>1. k \in Kinds /\ t # 0
        BY <1>1, <2>1, RowKind
      <4>2. k \in todo.cancel \/ (todo.link = "upsert" /\ k \notin todo.create)
        BY <2>1, <3>2, <3>4, <4>1
      <4>3. plan'[s].todo = todo /\ plan'[s].next[k] = t
        BY <1>1, <3>2, <3>4
      <4> QED BY <4>2, <4>3 DEF Covers
    <3> QED BY <1>1, <1>3, <3>1, <3>3, <3>4
  <2> QED BY <1>1, <1>2, <2>1, <2>2 DEF Belongs, Open
<1>5. "overlap" \notin windows' => ~(Busy("user")' /\ Busy("hook")')
  BY <1>2, <1>3 DEF Setters
<1>6. \A q \in Setters : plan'[q].todo.create # {} => plan'[q].todo.link = "upsert"
  BY <1>1 DEF LinkInv
<1> QED BY <1>1, <1>4, <1>5, <1>6 DEF LinkInv

LEMMA SetLinks ==
  ASSUME StopTypes, LinkInv, NEW S \in SUBSET Kinds, NEW usd \in Usd, SetTpSl(S, usd)
  PROVE  LinkInv' /\ StopTypes'
<1>1. Replacing(S, usd) \in StepsT
  BY TriggerAssumption DEF Replacing, StepsT
<1>2. Begin("user", Replacing(S, usd)) /\ "user" \in Setters
  BY DEF SetTpSl, Setters
<1>3. Replacing(S, usd).link = "upsert" /\ Replacing(S, usd).cancel = Replacing(S, usd).create
  BY DEF Replacing
<1> HIDE DEF Replacing
<1> QED BY <1>1, <1>2, <1>3, BeginLinks, BeginTypes

LEMMA DeleteLinks ==
  ASSUME StopTypes, LinkInv, DeleteTpSl
  PROVE  LinkInv' /\ StopTypes'
<1>1. PICK todo : todo = [cancel |-> Kinds, create |-> {}, usd |-> 0, link |-> "delete"]
  OBVIOUS
<1>2. todo \in StepsT /\ Begin("user", todo) /\ "user" \in Setters /\ todo.cancel = Kinds /\ todo.create = {}
  BY <1>1 DEF DeleteTpSl, Setters, StepsT
<1> QED BY <1>2, BeginLinks, BeginTypes

LEMMA HookLinks ==
  ASSUME StopTypes, LinkInv, NEW S \in SUBSET Kinds, Deferred(S)
  PROVE  LinkInv' /\ StopTypes'
<1>1. PICK todo : todo = [cancel |-> {}, create |-> S, usd |-> 0, link |-> "upsert"]
  OBVIOUS
<1>2. todo \in StepsT /\ Begin("hook", todo) /\ "hook" \in Setters /\ todo.link = "upsert"
  BY <1>1 DEF Deferred, Setters, StepsT
<1>3. stake.id \notin DOMAIN links
  BY DEF Deferred
<1>4. \A k \in Kinds : LinkOf(stake.id)[k] = 0
  BY <1>3 DEF LinkOf, NoLink
<1> QED BY ZenonT(40), <1>2, <1>4, BeginLinks, BeginTypes

LEMMA SetterCancels ==
  ASSUME StopTypes, LinkInv, NEW s \in Setters, StepCancel(s)
  PROVE  LinkInv'
<1>1. /\ UNCHANGED <<links, stake, cascade, windows>> /\ RowTypes
      /\ CancelAll(ActiveWhere(CancelledKinds(s), plan[s].of))
      /\ plan'[s].todo.cancel = plan[s].todo.cancel \ CancelledKinds(s)
      /\ plan'[s].todo.create = plan[s].todo.create
      /\ plan'[s].todo.link = plan[s].todo.link /\ plan'[s].of = plan[s].of /\ plan'[s].next = plan[s].next
      /\ \A q \in Setters \ {s} : plan'[q] = plan[q]
  BY CancelStepTypes, TypesParts
<1>2. Fewer /\ \A t, p, k : ActiveRow(t, p, k)' => t \notin ActiveWhere(CancelledKinds(s), plan[s].of)
  BY <1>1, ActiveRows, CancelFewer
<1>3. /\ \A q \in Setters : Busy(q)' = Busy(q) /\ plan'[q].of = plan[q].of
      /\ \A q \in Setters \ {s} : \A t, k : Covers(q, t, k)' = Covers(q, t, k)
  BY <1>1 DEF Busy, Covers
<1>4. \A t, p, k : LinkNames(t, p, k)' = LinkNames(t, p, k)
  BY <1>1, <1>3 DEF LinkNames, LinkOf
<1>5. ASSUME NEW t, NEW p, NEW k, ActiveRow(t, p, k)' PROVE Belongs(t, p, k)'
  <2>1. Belongs(t, p, k) /\ ActiveRow(t, p, k)
    BY <1>2, <1>5 DEF LinkInv, Fewer
  <2>2. plan[s].of = p /\ Covers(s, t, k) => Covers(s, t, k)'
    <3>1. plan[s].of = p => k \notin CancelledKinds(s)
      BY <1>2, <1>5, <2>1 DEF ActiveWhere, ActiveRow
    <3> QED BY <1>1, <3>1 DEF Covers
  <2>3. Agreed' => LinkNames(t, p, k)' /\ \A q \in Setters : Busy(q)' /\ plan'[q].of = p => Covers(q, t, k)'
    <3>1. Agreed' => Agreed
      BY <1>1 DEF Agreed
    <3> QED BY <1>3, <1>4, <2>1, <2>2, <3>1 DEF Belongs
  <2> QED BY <1>1, <2>1, <2>3 DEF Belongs, Open
<1>6. "overlap" \notin windows' => ~(Busy("user")' /\ Busy("hook")')
  BY <1>1, <1>3 DEF LinkInv, Setters
<1>7. \A q \in Setters : plan'[q].todo.create # {} => plan'[q].todo.link = "upsert"
  BY <1>1 DEF LinkInv
<1> QED BY <1>1, <1>5, <1>6, <1>7 DEF LinkInv

LEMMA SetterCreates ==
  ASSUME StopTypes, LinkInv, NEW s \in Setters, StepCreate(s)
  PROVE  LinkInv'
<1>1. PICK kind \in Kinds, entry \in TrigT :
         /\ UNCHANGED <<links, stake, cascade>>
         /\ plan[s].todo.cancel = {} /\ kind \in plan[s].todo.create /\ TooLate(s)
         /\ entry.status = "active" /\ entry.kind = kind /\ entry.of = plan[s].of
         /\ trig' = Append(trig, entry)
         /\ plan'[s].todo.cancel = {}
         /\ plan'[s].todo.create = plan[s].todo.create \ {kind}
         /\ plan'[s].todo.link = plan[s].todo.link /\ plan'[s].of = plan[s].of
         /\ plan'[s].next = [plan[s].next EXCEPT ![kind] = Len(trig) + 1]
         /\ \A q \in Setters \ {s} : plan'[q] = plan[q]
  BY ZenonT(40), CreateStepTypes
<1>2. PICK n \in Nat : n = Len(trig) /\ trig \in Seq(TrigT) /\ TriggerRows = 1..n /\ LinkTypes
  BY TypesParts DEF RowTypes, TriggerRows
<1>3. /\ TriggerRows' = 1..(n + 1) /\ trig'[n + 1] = entry /\ \A t \in 1..n : trig'[t] = trig[t]
      /\ \A t \in 1..(n + 1) : t \in 1..n \/ t = n + 1
  BY <1>1, <1>2 DEF TriggerRows
<1>4. ASSUME NEW t, NEW p, NEW k, ActiveRow(t, p, k)'
      PROVE  \/ ActiveRow(t, p, k)
             \/ t = n + 1 /\ p = plan[s].of /\ k = kind
  <2>1. /\ t \in 1..(n + 1) /\ trig'[t].status = "active" /\ trig'[t].by = "setter"
        /\ trig'[t].of = p /\ trig'[t].kind = k
    BY <1>3, <1>4 DEF ActiveRow
  <2>2. CASE t \in 1..n
    BY <1>2, <1>3, <2>1, <2>2 DEF ActiveRow
  <2>3. CASE t = n + 1
    BY <1>1, <1>3, <2>1, <2>3
  <2> QED BY <1>3, <2>1, <2>2, <2>3
<1>5. /\ windows \subseteq windows'
      /\ "set late" \notin windows' => Open(plan[s].of)
  BY <1>1 DEF TooLate, Through
<1>6. plan[s].todo.link = "upsert" /\ Busy(s) /\ Busy(s)' /\ \A q \in Setters : Busy(q)' = Busy(q)
  BY <1>1 DEF LinkInv, Busy
<1>7. /\ \A q \in Setters \ {s} : \A t, k : Covers(q, t, k)' = Covers(q, t, k)
      /\ \A q \in Setters : plan'[q].of = plan[q].of
  BY <1>1 DEF Covers
<1>8. \A t, p, k : LinkNames(t, p, k)' = LinkNames(t, p, k)
  BY <1>1, <1>6, <1>7 DEF LinkNames, LinkOf
<1>9. "overlap" \notin windows' => \A q \in Setters \ {s} : ~Busy(q)
  BY <1>5, <1>6 DEF LinkInv, Setters
<1>10. plan'[s].next[kind] = n + 1 /\ \A k : k # kind => plan'[s].next[k] = plan[s].next[k]
  <2>1. plan[s].next \in [Kinds -> NamedRow]
    BY <1>2, PlanHolds
  <2> QED BY <1>1, <1>2, <2>1
<1>11. ASSUME NEW t, NEW p, NEW k, ActiveRow(t, p, k) PROVE Belongs(t, p, k)'
  <2>1. Belongs(t, p, k)
    BY <1>11 DEF LinkInv
  <2>2. ASSUME Agreed' PROVE LinkNames(t, p, k)' /\ \A q \in Setters : Busy(q)' /\ plan'[q].of = p => Covers(q, t, k)'
    <3>1. Agreed
      BY <1>5, <2>2 DEF Agreed
    <3>2. LinkNames(t, p, k) /\ \A q \in Setters : Busy(q) /\ plan[q].of = p => Covers(q, t, k)
      BY <2>1, <3>1 DEF Belongs
    <3>3. plan[s].of = p => Covers(s, t, k)'
      <4> SUFFICES ASSUME plan[s].of = p PROVE Covers(s, t, k)'
        OBVIOUS
      <4>1. plan[s].next[k] = t /\ k \notin plan[s].todo.create
        BY <1>1, <1>6, <3>2 DEF Covers
      <4>2. k # kind
        BY <1>1, <4>1
      <4> QED BY <1>1, <1>6, <1>10, <4>1, <4>2 DEF Covers
    <3> QED BY <1>6, <1>7, <1>8, <3>2, <3>3
  <2> QED BY <1>1, <1>5, <2>1, <2>2 DEF Belongs, Open
<1>12. ASSUME NEW p, p = plan[s].of PROVE Belongs(n + 1, p, kind)'
  <2>1. p = plan[s].of
    BY <1>12
  <2>2. LinkNames(n + 1, p, kind)'
    BY <1>1, <1>6, <2>1 DEF LinkNames
  <2>3. Covers(s, n + 1, kind)'
    BY <1>1, <1>6, <1>10 DEF Covers
  <2>4. Agreed' => \A q \in Setters : Busy(q)' /\ plan'[q].of = p => Covers(q, n + 1, kind)'
    BY <1>6, <1>9, <2>3 DEF Agreed
  <2>5. "set late" \notin windows' => Open(p)' /\ cascade'.step = "done"
    <3> SUFFICES ASSUME "set late" \notin windows' PROVE Open(p)' /\ cascade'.step = "done"
      OBVIOUS
    <3>1. Open(p)
      BY <1>5, <2>1
    <3>2. cascade = Settled
      BY <3>1 DEF Open, LinkInv
    <3> QED BY <1>1, <3>1, <3>2 DEF Open, Settled
  <2>6. Belongs(n + 1, p, kind)'
    BY <2>2, <2>4, <2>5 DEF Belongs
  <2> QED BY <2>6
<1>13. \A t, p, k : ActiveRow(t, p, k)' => Belongs(t, p, k)'
  <2> SUFFICES ASSUME NEW t, NEW p, NEW k, ActiveRow(t, p, k)' PROVE Belongs(t, p, k)'
    OBVIOUS
  <2>1. CASE ActiveRow(t, p, k)
    BY <1>11, <2>1
  <2>2. CASE t = n + 1 /\ p = plan[s].of /\ k = kind
    <3>1. Belongs(n + 1, p, kind)'
      BY <1>12, <2>2
    <3> QED BY <2>2, <3>1
  <2> QED BY <1>4, <2>1, <2>2
<1>14. "overlap" \notin windows' => ~(Busy("user")' /\ Busy("hook")')
  BY <1>5, <1>6 DEF LinkInv, Setters
<1>15. \A q \in Setters : plan'[q].todo.create # {} => plan'[q].todo.link = "upsert"
  BY <1>1, <1>6 DEF LinkInv
<1> QED BY <1>1, <1>13, <1>14, <1>15 DEF LinkInv

LEMMA SetterLinks ==
  ASSUME StopTypes, LinkInv, NEW s \in Setters, StepLink(s)
  PROVE  LinkInv'
<1>1. /\ UNCHANGED <<trig, stake, cascade>> /\ RowTypes /\ LinkTypes
      /\ plan[s].todo.cancel = {} /\ plan[s].todo.create = {}
      /\ plan'[s] = NoPlan /\ \A q \in Setters \ {s} : plan'[q] = plan[q]
      /\ \/ plan[s].todo.link = "upsert" /\ TooLate(s) /\ links' = WithLink(plan[s].of, Upserted(s))
         \/ plan[s].todo.link = "delete" /\ UNCHANGED windows /\ links' = WithoutLink(plan[s].of)
  BY LinkStepTypes, TypesParts DEF RowsSame, MoneySame
<1>2. windows \subseteq windows'
  BY <1>1 DEF TooLate, Through
<1>3. Busy(s) /\ ~Busy(s)' /\ \A q \in Setters \ {s} : Busy(q)' = Busy(q)
  BY <1>1 DEF Busy, NoPlan, NoSteps
<1>4. "overlap" \notin windows' => \A q \in Setters \ {s} : ~Busy(q)
  BY <1>2, <1>3 DEF LinkInv, Setters
<1>5. ASSUME NEW t, NEW p, NEW k, ActiveRow(t, p, k)' PROVE Belongs(t, p, k)'
  <2>1. Belongs(t, p, k) /\ ActiveRow(t, p, k)
    BY <1>1, <1>5 DEF LinkInv, ActiveRow, TriggerRows
  <2>2. ASSUME Agreed' PROVE LinkNames(t, p, k)' /\ \A q \in Setters : Busy(q)' /\ plan'[q].of = p => Covers(q, t, k)'
    <3>1. Agreed /\ \A q \in Setters : ~Busy(q)'
      BY <1>2, <1>3, <1>4, <2>2 DEF Agreed
    <3>2. LinkNames(t, p, k) /\ (plan[s].of = p => Covers(s, t, k))
      BY <1>3, <2>1, <3>1 DEF Belongs
    <3>3. LinkOf(p)'[k] = t
      <4>1. CASE plan[s].of = p
        <5>1. plan[s].todo.link = "upsert" /\ plan[s].next[k] = t
          BY <1>1, <3>2, <4>1 DEF Covers
        <5>2. k \in Kinds /\ t # 0
          BY <1>1, <2>1, RowKind
        <5>3. Upserted(s)[k] = t
          BY <5>1, <5>2 DEF Upserted
        <5> QED BY <1>1, <4>1, <5>1, <5>3 DEF WithLink, LinkOf
      <4>2. CASE plan[s].of # p
        <5>1. LinkOf(p)[k] = t
          BY <1>3, <1>4, <2>2, <3>2, <4>2 DEF LinkNames, Agreed
        <5>2. PICK pos, entry : /\ pos = plan[s].of
                                /\ links' = WithLink(pos, entry) \/ links' = WithoutLink(pos)
          BY <1>1
        <5> QED BY <4>2, <5>1, <5>2, OtherLink
      <4> QED BY <4>1, <4>2
    <3> QED BY <3>1, <3>3 DEF LinkNames
  <2> QED BY <1>1, <1>2, <2>1, <2>2 DEF Belongs, Open
<1>6. "overlap" \notin windows' => ~(Busy("user")' /\ Busy("hook")')
  BY <1>3, <1>4 DEF Setters
<1>7. \A q \in Setters : plan'[q].todo.create # {} => plan'[q].todo.link = "upsert"
  BY <1>1 DEF LinkInv, NoPlan, NoSteps
<1> QED BY <1>1, <1>5, <1>6, <1>7 DEF LinkInv

LEMMA FailsLinks ==
  ASSUME StopTypes, LinkInv, NEW s \in Setters, StepFails(s)
  PROVE  LinkInv'
<1>1. /\ UNCHANGED <<trig, stake, cascade>> /\ Through("set failed", TRUE)
      /\ plan' = [plan EXCEPT ![s] = NoPlan] /\ LinkTypes
  BY TypesParts DEF StepFails
<1>2. windows \subseteq windows' /\ "set failed" \in windows'
  BY <1>1 DEF Through
<1>3. plan'[s] = NoPlan /\ \A q \in Setters \ {s} : plan'[q] = plan[q]
  BY <1>1 DEF LinkTypes
<1>4. ~Busy(s)' /\ \A q \in Setters : Busy(q)' => Busy(q)
  BY <1>3 DEF Busy, NoPlan, NoSteps
<1>5. ASSUME NEW t, NEW p, NEW k, ActiveRow(t, p, k)' PROVE Belongs(t, p, k)'
  <2>1. Belongs(t, p, k)
    BY <1>1, <1>5 DEF LinkInv, ActiveRow, TriggerRows
  <2> QED BY <1>1, <1>2, <2>1 DEF Belongs, Open, Agreed
<1>6. "overlap" \notin windows' => ~(Busy("user")' /\ Busy("hook")')
  BY <1>2, <1>4 DEF LinkInv, Setters
<1>7. \A q \in Setters : plan'[q].todo.create # {} => plan'[q].todo.link = "upsert"
  BY <1>3 DEF LinkInv, NoPlan, NoSteps
<1> QED BY <1>1, <1>5, <1>6, <1>7 DEF LinkInv

LEMMA RestartLinks ==
  ASSUME StopTypes, LinkInv, Restart
  PROVE  LinkInv'
<1>1. /\ UNCHANGED <<trig, stake, links>> /\ cascade' = Settled
      /\ \A s \in Setters : plan'[s] = NoPlan
      /\ windows' = windows
           \cup (IF cascade # Settled THEN {"clean-up lost"} ELSE {})
           \cup (IF \E s \in Setters : Busy(s) THEN {"set failed"} ELSE {})
  BY RestartTypes DEF Restart
<1>2. /\ windows \subseteq windows'
      /\ cascade # Settled => "clean-up lost" \in windows'
      /\ "set failed" \notin windows' => \A s \in Setters : ~Busy(s)
  BY <1>1
<1>n. NoPlan.todo.link = "none" /\ NoPlan.todo.create = {}
  BY DEF NoPlan, NoSteps
<1>3. \A s \in Setters : ~Busy(s)'
  BY <1>1, <1>n DEF Busy
<1>4. ASSUME NEW t, NEW p, NEW k, ActiveRow(t, p, k)' PROVE Belongs(t, p, k)'
  <2>1. Belongs(t, p, k)
    BY <1>1, <1>4 DEF LinkInv, ActiveRow, TriggerRows
  <2>2. Agreed' => LinkNames(t, p, k)'
    <3>1. Agreed' => LinkOf(p)[k] = t
      BY <1>2, <2>1 DEF Agreed, Belongs, LinkNames
    <3> QED BY <1>1, <3>1 DEF LinkNames, LinkOf
  <2>3. cascade'.step # "unlink"
    BY <1>1 DEF Settled
  <2>4. windows' \cap {"clean-up lost", "set late"} = {} => Open(p)'
    <3>1. windows' \cap {"clean-up lost", "set late"} = {} => cascade = Settled
      BY <1>2
    <3>2. cascade = Settled => ~(cascade = [of |-> p, step |-> "cancel"])
      BY CleansUp DEF Settled
    <3>3. windows' \cap {"clean-up lost", "set late"} = {} => windows \cap {"clean-up lost", "set late"} = {}
      BY <1>2
    <3>4. windows' \cap {"clean-up lost", "set late"} = {} => Open(p)
      BY <2>1, <3>1, <3>2, <3>3 DEF Belongs
    <3> QED BY <1>1, <3>4 DEF Open
  <2> QED BY <1>3, <2>2, <2>3, <2>4 DEF Belongs
<1>5. \A q \in Setters : plan'[q].todo.create # {} => plan'[q].todo.link = "upsert"
  BY <1>1, <1>n
<1> QED BY <1>1, <1>3, <1>4, <1>5 DEF LinkInv, Setters

LEMMA ZeroEnough == \A k : k = 0 => k >= 0
OBVIOUS

LEMMA SameOrMore == \A x, y : x \in Int /\ y = x => y \in Int /\ x <= y
OBVIOUS

LEMMA BalanceIs ==
  ASSUME MoneyTypes
  PROVE  /\ Balance = stake.size + SumOfSeq(fills) /\ stake.size \in Int /\ stake.id \in Nat
         /\ SumOfSeq(fills) \in Int /\ Balance \in Int /\ fills \in Seq(Int)
<1>1. fills \in Seq(Int) /\ stake.size \in Int /\ stake.id \in Nat
  BY DEF MoneyTypes
<1>2. PICK s \in Seq(Int) : s = fills
  BY <1>1
<1>3. SumOfSeq(s) \in Int
  BY <1>2, SumOfAppend
<1> QED BY <1>1, <1>2, <1>3 DEF Balance, SumOfSeq

LEMMA NextBalanceIs ==
  ASSUME MoneyTypes'
  PROVE  /\ Balance' = stake'.size + SumOfSeq(fills') /\ stake'.size \in Int
         /\ SumOfSeq(fills') \in Int /\ Balance' \in Int
<1>1. fills' \in Seq(Int) /\ stake'.size \in Int
  BY DEF MoneyTypes
<1>2. PICK s \in Seq(Int) : s = fills'
  BY <1>1
<1>3. SumOfSeq(s) \in Int
  BY <1>2, SumOfAppend
<1> QED BY <1>1, <1>2, <1>3 DEF Balance, SumOfSeq

LEMMA NoFills == ASSUME MoneyTypes, fills = << >> PROVE Balance = stake.size
<1>1. SumOfSeq(<< >>) = 0
  BY SumEmpty DEF SumOfSeq
<1> QED BY <1>1, BalanceIs

LEMMA NoFillsNext == ASSUME MoneyTypes', fills' = << >> PROVE Balance' = stake'.size
<1>1. SumOfSeq(<< >>) = 0
  BY SumEmpty DEF SumOfSeq
<1> QED BY <1>1, NextBalanceIs

LEMMA AppendBalance ==
  ASSUME MoneyTypes, MoneyTypes', NEW x \in Int, fills' = Append(fills, x), UNCHANGED stake
  PROVE  Balance' = Balance + x
<1>1. PICK s \in Seq(Int) : s = fills
  BY BalanceIs
<1>2. SumOfSeq(Append(s, x)) = SumOfSeq(s) + x
  BY <1>1, SumOfAppend
<1> QED BY <1>1, <1>2, BalanceIs, NextBalanceIs

LEMMA FrontTail == ASSUME NEW k \in Int, NEW t \in Seq(Int)
                   PROVE <<k>> \o t \in Seq(Int) /\ <<k>> \o t # << >> /\ Head(<<k>> \o t) = k /\ Tail(<<k>> \o t) = t
OBVIOUS

LEMMA PersistBalance ==
  ASSUME StopTypes, Persist
  PROVE  Balance' = Balance
<1>1. /\ fills # << >> /\ MoneyTypes /\ MoneyTypes'
      /\ \/ /\ Closes(Head(fills)) /\ stake' = [stake EXCEPT !.size = 0]
            /\ fills' = (IF Head(fills) + stake.size = 0 THEN << >> ELSE <<Head(fills) + stake.size>>) \o Tail(fills)
         \/ /\ ~Closes(Head(fills)) /\ fills' = Tail(fills)
            /\ stake' = [id |-> IF stake.size = 0 THEN stake.id + 1 ELSE stake.id,
                         size |-> stake.size + Head(fills)]
  BY PersistTypes, TypesParts, PrimedParts
<1>2. PICK s \in Seq(Int), z \in Int : s = fills /\ z = stake.size /\ s # << >>
  BY <1>1, BalanceIs
<1>3. PICK d \in Int, t \in Seq(Int), m \in Int : d = Head(s) /\ t = Tail(s) /\ m = SumOfSeq(t) /\ SumOfSeq(s) = d + m
  <2>1. Head(s) \in Int /\ Tail(s) \in Seq(Int)
    BY <1>2
  <2> QED BY <1>2, <2>1, SumOfTail
<1>4. Balance = z + (d + m)
  BY <1>1, <1>2, <1>3, BalanceIs
<1>5. CASE Closes(d)
  <2>1. stake'.size = 0 /\ fills' = (IF d + z = 0 THEN << >> ELSE <<d + z>>) \o t
    BY <1>1, <1>2, <1>3, <1>5, ClosedStake
  <2>2. CASE d + z = 0
    <3>1. fills' = t
      BY <2>1, <2>2, <1>3
    <3> QED BY <1>1, <1>3, <1>4, <2>1, <2>2, <3>1, NextBalanceIs
  <2>3. CASE d + z # 0
    <3>0. PICK k \in Int : k = d + z
      BY <1>2, <1>3
    <3>1. PICK f \in Seq(Int) : fills' = f /\ f # << >> /\ Head(f) = k /\ Tail(f) = t
      <4>1. fills' = <<k>> \o t
        BY <2>1, <2>3, <3>0
      <4> QED BY <1>3, <4>1, FrontTail
    <3>2. SumOfSeq(f) = k + m
      BY <3>1, <1>3, SumOfTail
    <3>3. Balance' = stake'.size + SumOfSeq(fills')
      BY <1>1, NextBalanceIs
    <3>4. SumOfSeq(fills') = k + m
      BY <3>1, <3>2
    <3>5. Balance' = (d + z) + m
      BY <1>3, <2>1, <3>0, <3>3, <3>4
    <3> QED BY <1>2, <1>3, <1>4, <3>5
  <2> QED BY <2>2, <2>3
<1>6. CASE ~Closes(d)
  <2>1. stake'.size = z + d /\ fills' = t
    BY <1>1, <1>2, <1>3, <1>6
  <2> QED BY <1>1, <1>2, <1>3, <1>4, <2>1, NextBalanceIs
<1> QED BY <1>5, <1>6

UsdKept == \A t \in TriggerRows : trig'[t].usd = trig[t].usd

LEMMA SameUsd == ASSUME UNCHANGED trig PROVE UsdKept
BY DEF UsdKept

LEMMA CancelUsd == ASSUME RowTypes, NEW S, S \subseteq TriggerRows, CancelAll(S) PROVE UsdKept
BY CancelEffects DEF RowTypes, UsdKept

LEMMA BecomeUsd ==
  ASSUME RowTypes, NEW status \in TriggerStatuses, On \in TriggerRows, Become(On, status)
  PROVE  UsdKept
<1>1. PICK u \in TriggerRows : u = On /\ Become(u, status)
  OBVIOUS
<1> QED BY <1>1, BecomeEffects DEF RowTypes, UsdKept

\* Nothing is sold: more is bought, at most, and no order comes to rest.
LEMMA TurnStays ==
  ASSUME TurnInv, StopTypes, KeeperTypes, windows \subseteq windows', Balance' \in Int, Balance <= Balance',
         UNCHANGED onBook, keeper'.pc = "submit" => UNCHANGED keeper, UsdKept
  PROVE  TurnInv'
<1>1. SUFFICES ASSUME Straight'
      PROVE  /\ Balance' >= 0
             /\ \A o \in onBook' : o.size <= Balance'
             /\ \A o, q \in onBook' : o = q
             /\ keeper'.pc = "submit" =>
                   /\ onBook' = {} /\ keeper'.saw.size >= 0
                   /\ trig'[On'].usd = 0 => keeper'.size = keeper'.saw.size
  BY DEF TurnInv
<1>2. Straight /\ Balance \in Int /\ \A o \in onBook : o.size \in Nat
  BY <1>1, BalanceIs, TypesParts DEF Straight, RowTypes
<1>3. /\ Balance >= 0
      /\ \A o \in onBook : o.size <= Balance
      /\ \A o, q \in onBook : o = q
      /\ keeper.pc = "submit" =>
            /\ onBook = {} /\ keeper.saw.size >= 0
            /\ trig[On].usd = 0 => keeper.size = keeper.saw.size
  BY <1>2 DEF TurnInv
<1>4. Balance' >= 0 /\ \A o \in onBook : o.size <= Balance'
  BY <1>2, <1>3
<1>5. ASSUME keeper'.pc = "submit" PROVE trig'[On'].usd = trig[On].usd /\ keeper' = keeper
  <2>1. keeper' = keeper /\ On' = On /\ On \in TriggerRows
    BY <1>5 DEF On, KeeperTypes, KeeperBusy
  <2> QED BY <2>1 DEF UsdKept
<1> QED BY <1>3, <1>4, <1>5

LEMMA QuietTurn ==
  ASSUME TurnInv, StopTypes, StopTypes', KeeperTypes, windows \subseteq windows', UNCHANGED <<stake, fills, onBook>>,
         keeper'.pc = "submit" => UNCHANGED keeper, UsdKept
  PROVE  TurnInv'
<1>1. Balance' = Balance /\ Balance \in Int
  BY BalanceIs, TypesParts DEF Balance
<1>2. Balance' \in Int /\ Balance <= Balance'
  BY <1>1
<1> QED BY <1>2, TurnStays

LEMMA BuyTurn ==
  ASSUME TurnInv, StopTypes, KeeperTypes, UserBuys
  PROVE  TurnInv'
<1>1. /\ MoneyTypes /\ MoneyTypes' /\ fills' = Append(fills, Lot) /\ Lot \in Nat \ {0} /\ Lot \in Int
      /\ UNCHANGED <<stake, keeper, windows, onBook, trig>>
  BY BuyTypes, TypesParts, PrimedParts DEF RowsSame
<1>2. Balance' = Balance + Lot
  <2>1. PICK x \in Int : x = Lot
    BY <1>1
  <2> QED BY <1>1, <2>1, AppendBalance
<1>3. Balance' \in Int /\ Balance <= Balance'
  BY <1>1, <1>2, BalanceIs
<1> QED BY <1>1, <1>3, TurnStays, SameUsd

LEMMA PersistTurn ==
  ASSUME TurnInv, StopTypes, KeeperTypes, Persist
  PROVE  TurnInv'
<1>1. UNCHANGED <<keeper, windows, onBook, trig>> /\ MoneyTypes
  BY PersistTypes, TypesParts DEF RowsSame
<1>2. Balance' \in Int /\ Balance <= Balance'
  BY <1>1, PersistBalance, BalanceIs
<1> QED BY <1>1, <1>2, TurnStays, SameUsd

LEMMA RestingTurn ==
  ASSUME TurnInv, StopTypes, KeeperTypes, NEW o \in onBook, RestingFills(o)
  PROVE  TurnInv'
<1>1. /\ MoneyTypes /\ MoneyTypes' /\ fills' = Append(fills, -o.size) /\ o.size \in Nat /\ -o.size \in Int
      /\ UNCHANGED <<trig, stake, keeper, windows>> /\ onBook' = onBook \ {o}
  BY RestingTypes, TypesParts, PrimedParts
<1>2. Balance' = Balance - o.size /\ Balance \in Int
  <2>1. PICK x \in Int : x = -o.size
    BY <1>1
  <2>2. Balance' = Balance + x
    BY <1>1, <2>1, AppendBalance
  <2> QED BY <1>1, <2>1, <2>2, BalanceIs
<1>3. SUFFICES ASSUME Straight'
      PROVE  /\ Balance' >= 0 /\ onBook' = {} /\ keeper'.pc # "submit"
  BY DEF TurnInv
<1>4. Straight
  BY <1>1, <1>3 DEF Straight
<1>5. o.size <= Balance /\ (\A q \in onBook : q = o) /\ keeper.pc # "submit"
  BY <1>4 DEF TurnInv
<1> QED BY <1>1, <1>2, <1>5

LEMMA OnStays == ASSUME KeeperTypes, keeper.pc = "submit", UNCHANGED keeper PROVE On' = On /\ On \in TriggerRows
BY DEF On, KeeperTypes, KeeperBusy

LEMMA CloseTurn ==
  ASSUME TurnInv, StopTypes, KeeperTypes, UserCloses
  PROVE  TurnInv'
<1>1. /\ MoneyTypes /\ MoneyTypes' /\ RowTypes /\ UNCHANGED <<fills, keeper, onBook>>
      /\ stake' = [stake EXCEPT !.size = 0]
      /\ CancelAll(ActiveWhere(Kinds, stake.id))
      /\ Through("closed under", fills # << >> \/ onBook # {})
  BY CloseTypes, TypesParts, PrimedParts
<1>2. stake'.size = 0
  BY <1>1, ClosedStake
<1>3. UsdKept
  BY <1>1, ActiveRows, CancelUsd
<1>4. SUFFICES ASSUME Straight'
      PROVE  /\ Balance' >= 0
             /\ \A o \in onBook' : o.size <= Balance'
             /\ \A o, q \in onBook' : o = q
             /\ keeper'.pc = "submit" =>
                   /\ onBook' = {} /\ keeper'.saw.size >= 0
                   /\ trig'[On'].usd = 0 => keeper'.size = keeper'.saw.size
  BY DEF TurnInv
<1>5. Straight /\ fills = << >> /\ onBook = {}
  BY <1>1, <1>4 DEF Straight, Through
<1>6. Balance' = 0
  BY <1>1, <1>2, <1>5, NoFillsNext
<1>7. ASSUME keeper'.pc = "submit" PROVE trig'[On'].usd = trig[On].usd /\ keeper' = keeper
  <2>1. keeper' = keeper /\ On' = On /\ On \in TriggerRows
    BY <1>1, <1>7, OnStays
  <2> QED BY <1>3, <2>1 DEF UsdKept
<1>8. keeper.pc = "submit" => /\ keeper.saw.size >= 0
                              /\ trig[On].usd = 0 => keeper.size = keeper.saw.size
  BY <1>5 DEF TurnInv
<1>9. Balance' >= 0 /\ onBook' = {}
  BY Zenon, <1>1, <1>5, <1>6, ZeroEnough
<1>10. ASSUME keeper'.pc = "submit"
       PROVE  keeper'.saw.size >= 0 /\ (trig'[On'].usd = 0 => keeper'.size = keeper'.saw.size)
  BY <1>7, <1>8, <1>10
<1> QED BY <1>9, <1>10

LEMMA SizeTurn ==
  ASSUME TurnInv, Fires, ReadSize
  PROVE  TurnInv'
<1>1. /\ keeper.pc = "size" /\ MoneyTypes /\ UNCHANGED <<trig, stake, fills, onBook>>
      /\ Through("in flight", fills # << >> \/ onBook # {})
      /\ KeeperTypes /\ KeeperTypes'
      /\ \/ keeper' = [keeper EXCEPT !.pc = "fail"]
         \/ /\ TokensFor(On) # 0
            /\ keeper' = [pc |-> "submit", price |-> keeper.price, todo |-> keeper.todo,
                          size |-> TokensFor(On), saw |-> stake]
  BY SizeFires, TypesParts DEF ReadSize, Fires
<1>2. windows \subseteq windows' /\ Balance' = Balance
  BY <1>1 DEF Through, Balance
<1>3. CASE keeper' = [keeper EXCEPT !.pc = "fail"]
  <2>1. keeper'.pc # "submit"
    BY <1>1, <1>3, PcChanges
  <2>2. Balance' \in Int /\ Balance <= Balance'
    <3>1. Balance \in Int
      BY <1>1, BalanceIs
    <3> QED BY Zenon, <1>2, <3>1, SameOrMore
  <2> QED BY <1>1, <1>2, <2>1, <2>2, SameUsd, TurnStays DEF Fires
<1>4. CASE /\ TokensFor(On) # 0
           /\ keeper' = [pc |-> "submit", price |-> keeper.price, todo |-> keeper.todo,
                         size |-> TokensFor(On), saw |-> stake]
  <2>1. /\ keeper'.todo = keeper.todo /\ On' = On
        /\ keeper'.size = TokensFor(On) /\ keeper'.saw = stake
    BY <1>4 DEF On
  <2>2. SUFFICES ASSUME Straight'
        PROVE  /\ Balance' >= 0 /\ onBook' = {} /\ stake.size >= 0
               /\ trig[On].usd = 0 => TokensFor(On) = stake.size
    BY <1>1, <2>1 DEF TurnInv
  <2>3. Straight /\ fills = << >> /\ onBook = {}
    BY <1>1, <2>2 DEF Straight, Through
  <2>4. Balance >= 0 /\ Balance = stake.size /\ stake.size \in Int
    BY <1>1, <2>3, NoFills, BalanceIs DEF TurnInv
  <2>5. ASSUME trig[On].usd = 0 PROVE TokensFor(On) = stake.size
    <3>1. CASE stake.size = 0
      <4>1. PICK price \in Nat \ {0} : price = keeper.price
        BY <1>1 DEF KeeperTypes, KeeperBusy
      <4>2. 0 \div price = 0
        OBVIOUS
      <4>3. TokensFor(On) = 0
        BY <2>5, <3>1, <4>1, <4>2 DEF TokensFor
      <4> QED BY <1>4, <4>3
    <3>2. CASE stake.size # 0
      <4>1. PICK z \in Int : z = stake.size /\ z >= 0
        BY <2>4
      <4>2. CASE trig[On].mode = "close"
        BY <3>2, <4>1, <4>2 DEF TokensFor, Magnitude
      <4>3. CASE trig[On].mode # "close"
        <5>1. PICK price \in Nat \ {0} : price = keeper.price
          BY <1>1 DEF KeeperTypes, KeeperBusy
        <5>2. 0 \div price = 0
          OBVIOUS
        <5>3. TokensFor(On) = 0
          BY <2>5, <4>3, <5>1, <5>2 DEF TokensFor
        <5> QED BY <1>4, <5>3
      <4> QED BY <4>2, <4>3
    <3> QED BY <3>1, <3>2
  <2> QED BY <1>1, <1>2, <2>3, <2>4, <2>5
<1> QED BY <1>1, <1>3, <1>4

LEMMA SendTurn ==
  ASSUME TurnInv, Fires, NEW got \in Nat, SendOrder(got), got <= keeper.size
  PROVE  TurnInv'
<1>1. /\ keeper.pc = "submit" /\ MoneyTypes /\ MoneyTypes' /\ UNCHANGED <<trig, stake>>
      /\ keeper' = [pc |-> "settle", price |-> keeper.price, todo |-> keeper.todo, got |-> got]
      /\ fills' = (IF got > 0 THEN Append(fills, -got) ELSE fills)
      /\ onBook' = IF got < keeper.size /\ trig[On].kind \in LimitKinds
                   THEN onBook \cup {[of |-> On, size |-> keeper.size - got]} ELSE onBook
      /\ windows' = windows \cup (IF stake # keeper.saw \/ fills # << >> THEN {"in flight"} ELSE {})
                            \cup (IF trig[On].usd # 0 THEN {"sized"} ELSE {})
  BY SendTypes, TypesParts, PrimedParts DEF SendOrder, Fires
<1>2. keeper'.pc # "submit"
  BY <1>1
<1>3. SUFFICES ASSUME Straight'
      PROVE  /\ Balance' >= 0
             /\ \A o \in onBook' : o.size <= Balance'
             /\ \A o, q \in onBook' : o = q
  BY <1>2 DEF TurnInv
<1>4. Straight /\ fills = << >> /\ stake = keeper.saw /\ trig[On].usd = 0
  BY <1>1, <1>3 DEF Straight
<1>5. onBook = {} /\ keeper.saw.size >= 0 /\ keeper.size = keeper.saw.size
  BY <1>1, <1>4 DEF TurnInv
<1>6. PICK z \in Int : z = stake.size /\ z = keeper.size /\ z >= 0 /\ Balance = z
  BY <1>1, <1>4, <1>5, NoFills, BalanceIs
<1>7. Balance' = z - got
  <2>1. CASE got > 0
    <3>1. PICK x \in Int : x = -got /\ fills' = Append(fills, x)
      <4>1. fills' = Append(fills, -got)
        BY <1>1, <2>1
      <4>2. -got \in Int
        BY <2>1
      <4> QED BY <4>1, <4>2
    <3>2. Balance' = Balance + x
      BY <1>1, <3>1, AppendBalance
    <3> QED BY <1>6, <3>1, <3>2
  <2>2. CASE ~(got > 0)
    <3>1. Balance' = z
      BY <1>1, <1>6, <2>2 DEF Balance
    <3>2. got = 0 /\ z = z - 0
      BY <1>6, <2>2
    <3> QED BY <3>1, <3>2
  <2> QED BY <2>1, <2>2
<1>8. \A o \in onBook' : o = [of |-> On, size |-> z - got]
  BY <1>1, <1>5, <1>6
<1>9. \A o \in onBook' : o.size = z - got
  BY <1>8
<1>10. z - got >= 0 /\ z - got \in Int
  BY <1>6
<1> QED BY <1>7, <1>8, <1>9, <1>10

LEMMA TriggerParts == TriggerInv <=> Fires /\ LinkInv /\ TurnInv
BY DEF TriggerInv, Fires
LEMMA NextTriggerParts ==
    TriggerInv' <=> StopTypes' /\ KeeperTypes' /\ SentOnce' /\ KeeperKnows' /\ OutcomeIsTrue' /\ LinkInv' /\ TurnInv'
BY DEF TriggerInv

LEMMA TriggerStarts == TriggerInit => TriggerInv
<1> SUFFICES ASSUME TriggerInit PROVE TriggerInv
  OBVIOUS
<1>1. /\ trig = << >> /\ links = << >> /\ stake = [id |-> 0, size |-> 0] /\ fills = << >>
      /\ cascade = Settled /\ keeper = Asleep /\ plan = [s \in Setters |-> NoPlan]
      /\ onBook = {} /\ trades = 0 /\ sent = << >> /\ filled = {} /\ dropped = {}
  BY DEF TriggerInit
<1>2. TriggerRows = {} /\ \A t, p, k : ~ActiveRow(t, p, k)
  BY <1>1 DEF TriggerRows, ActiveRow
<1>3. NoPlan.todo.link = "none" /\ NoPlan.todo.create = {}
  BY DEF NoPlan, NoSteps
<1>4. RowTypes /\ MoneyTypes
  BY <1>1, <1>2 DEF RowTypes, MoneyTypes
<1>5. LinkTypes
  <2>1. DOMAIN links = {}
    BY <1>1
  <2> QED BY <1>1, <2>1, NoPlanHolds DEF LinkTypes
<1>6. KeeperTypes /\ KeeperKnows
  BY <1>1 DEF KeeperTypes, KeeperKnows, KeeperBusy, Asleep
<1>7. SentOnce /\ OutcomeIsTrue
  BY <1>1, <1>2 DEF SentOnce, OutcomeIsTrue
<1>8. LinkInv
  <2>1. \A s \in Setters : plan[s].todo.create = {} /\ ~Busy(s)
    BY <1>1, <1>3 DEF Busy
  <2> QED BY <1>1, <1>2, <2>1 DEF LinkInv, Setters
<1>9. TurnInv
  <2>1. Balance = 0
    BY <1>1, <1>4, NoFills
  <2>2. Balance >= 0
    BY Zenon, <2>1, ZeroEnough
  <2>3. keeper.pc # "submit"
    BY <1>1 DEF Asleep
  <2> QED BY <1>1, <2>2, <2>3 DEF TurnInv
<1> QED BY <1>4, <1>5, <1>6, <1>7, <1>8, <1>9, TypesParts DEF TriggerInv

\* A step of a setter that leaves the rows alone.
LEMMA SetterKeeps ==
  ASSUME TriggerInv, StopTypes', LinkInv', RowsSame, UNCHANGED <<stake, fills, keeper, cutOff>>, windows \subseteq windows'
  PROVE  TriggerInv'
<1>1. Fires /\ TurnInv /\ StopTypes /\ KeeperTypes
  BY TriggerParts DEF Fires
<1>2. KeeperTypes' /\ SentOnce' /\ KeeperKnows' /\ OutcomeIsTrue'
  BY <1>1, FiresStays DEF FireVars, RowsSame
<1>3. TurnInv'
  BY <1>1, SameUsd, QuietTurn DEF RowsSame
<1> QED BY <1>2, <1>3, NextTriggerParts

\* A step that cancels rows, each of them active.
LEMMA CancelKeeps ==
  ASSUME TriggerInv, StopTypes', LinkInv', NEW S, \A t \in S : t \in TriggerRows /\ trig[t].status = "active",
         CancelAll(S), UNCHANGED <<keeper, sent, filled, cutOff, onBook, stake, fills>>, windows \subseteq windows'
  PROVE  TriggerInv'
<1>1. Fires /\ TurnInv /\ StopTypes /\ KeeperTypes /\ RowTypes /\ S \subseteq TriggerRows
  BY TriggerParts, TypesParts DEF Fires
<1>2. KeeperTypes' /\ SentOnce' /\ KeeperKnows' /\ OutcomeIsTrue'
  BY <1>1, CancelFires
<1>3. UsdKept
  BY <1>1, CancelUsd
<1>4. TurnInv'
  BY <1>1, <1>3, QuietTurn
<1> QED BY <1>2, <1>4, NextTriggerParts

LEMMA SetterStep ==
  ASSUME TriggerInv, NEW s \in Setters, StepCancel(s) \/ StepCreate(s) \/ StepLink(s) \/ StepFails(s)
  PROVE  TriggerInv'
<1>1. StopTypes /\ LinkInv /\ Fires /\ TurnInv /\ RowTypes /\ KeeperTypes
  BY TriggerParts, TypesParts DEF Fires
<1>2. CASE StepCancel(s)
  <2>1. /\ StopTypes' /\ CancelAll(ActiveWhere(CancelledKinds(s), plan[s].of))
        /\ UNCHANGED <<keeper, sent, filled, cutOff, onBook, stake, fills, windows>>
    BY <1>1, <1>2, CancelStepTypes DEF keeperHistory
  <2>2. LinkInv'
    BY <1>1, <1>2, SetterCancels
  <2>3. PICK S : S = ActiveWhere(CancelledKinds(s), plan[s].of)
    OBVIOUS
  <2>4. \A t \in S : t \in TriggerRows /\ trig[t].status = "active"
    BY <2>3, ActiveRows
  <2> QED BY <2>1, <2>2, <2>3, <2>4, CancelKeeps
<1>3. CASE StepCreate(s)
  <2>1. PICK kind \in Kinds, entry \in TrigT :
         /\ StopTypes' /\ UNCHANGED <<links, stake, fills, cascade, onBook, keeper, filled, cutOff, dropped>>
         /\ entry.status = "active" /\ trig' = Append(trig, entry) /\ sent' = Append(sent, 0) /\ TooLate(s)
    BY <1>1, <1>3, CreateStepTypes
  <2>2. LinkInv'
    BY <1>1, <1>3, SetterCreates
  <2>3. KeeperTypes' /\ SentOnce' /\ KeeperKnows' /\ OutcomeIsTrue'
    BY <1>1, <2>1, CreateFires
  <2>4. UsdKept
    BY <1>1, <2>1 DEF UsdKept, RowTypes, TriggerRows
  <2>5. TurnInv'
    BY <1>1, <2>1, <2>4, QuietTurn DEF TooLate, Through
  <2> QED BY <2>1, <2>2, <2>3, <2>5, NextTriggerParts
<1>4. CASE StepLink(s)
  <2>1. LinkInv' /\ StopTypes' /\ RowsSame /\ UNCHANGED <<stake, fills, keeper, cutOff>> /\ windows \subseteq windows'
    BY <1>1, <1>4, SetterLinks, LinkStepTypes DEF MoneySame, TooLate, Through
  <2> QED BY <2>1, SetterKeeps
<1>5. CASE StepFails(s)
  <2>1. LinkInv' /\ StopTypes' /\ RowsSame /\ UNCHANGED <<stake, fills, keeper, cutOff>> /\ windows \subseteq windows'
    BY <1>1, <1>5, FailsLinks, FailsTypes DEF MoneySame, Through
  <2> QED BY <2>1, SetterKeeps
<1> QED BY <1>2, <1>3, <1>4, <1>5

\* A row that a request creates alone is no setter's.
LEMMA RequestStep ==
  ASSUME TriggerInv, NEW kind \in Kinds, NEW pos \in 0 .. stake.id, NEW usd \in Usd,
         NEW mode \in {"close", "part"}, RequestTrigger(kind, pos, usd, mode)
  PROVE  TriggerInv'
<1>1. StopTypes /\ LinkInv /\ Fires /\ TurnInv /\ RowTypes /\ LinkTypes /\ MoneyTypes /\ KeeperTypes
  BY TriggerParts, TypesParts DEF Fires
<1>2. PICK r : r = NewTrigger(kind, pos, usd, mode, "request")
  OBVIOUS
<1>3. r \in TrigT /\ r.status = "active" /\ r.by = "request"
  <2>1. stake.id \in Nat /\ pos \in Nat /\ usd \in Nat
    BY <1>1, TriggerAssumption DEF MoneyTypes
  <2> QED BY <1>2, <2>1 DEF NewTrigger, TrigT, TriggerStatuses
<1>4. /\ trig' = Append(trig, r) /\ sent' = Append(sent, 0)
      /\ UNCHANGED <<plan, links, stake, fills, cascade, keeper, onBook, trades, filled, cutOff, dropped, windows>>
  BY <1>2 DEF RequestTrigger, setterState
<1>5. RowTypes' /\ NamedRow \subseteq NamedRow'
  BY <1>1, <1>3, <1>4, CreatedTypes
<1>6. MoneyTypes'
  BY <1>1, <1>4, SameMoney
<1>7. LinkTypes'
  <2>1. \A q \in [Kinds -> NamedRow] : q \in [Kinds -> NamedRow']
    BY <1>5
  <2>2. \A q \in PlanT : q \in PlanT'
    BY <2>1 DEF PlanT
  <2> QED BY <1>1, <1>4, <2>1, <2>2 DEF LinkTypes
<1>8. StopTypes'
  BY <1>5, <1>6, <1>7, PrimedParts
<1>9. KeeperTypes' /\ SentOnce' /\ KeeperKnows' /\ OutcomeIsTrue'
  BY <1>1, <1>3, <1>4, CreateFires
<1>10. Fewer
  <2>1. PICK n \in Nat : n = Len(trig) /\ TriggerRows = 1..n /\ trig \in Seq(TrigT)
    BY <1>1 DEF RowTypes, TriggerRows
  <2>2. /\ TriggerRows' = 1..(n + 1) /\ trig'[n + 1] = r /\ \A t \in 1..n : trig'[t] = trig[t]
        /\ \A t \in 1..(n + 1) : t \in 1..n \/ t = n + 1
    BY <1>4, <2>1 DEF TriggerRows
  <2> QED BY <1>3, <2>1, <2>2 DEF Fewer, ActiveRow
<1>11. LinkInv'
  BY <1>1, <1>4, <1>10, FewerLinks
<1>12. UsdKept
  BY <1>1, <1>4 DEF UsdKept, RowTypes, TriggerRows
<1>13. TurnInv'
  BY <1>1, <1>4, <1>8, <1>12, QuietTurn
<1> QED BY <1>8, <1>9, <1>11, <1>13, NextTriggerParts

LEMMA BeginStep ==
  ASSUME TriggerInv, DeleteTpSl \/ \E S \in SUBSET Kinds : Deferred(S) \/ \E usd \in Usd : SetTpSl(S, usd)
  PROVE  TriggerInv'
<1>1. StopTypes /\ LinkInv
  BY TriggerParts DEF Fires
<1>2. LinkInv' /\ StopTypes'
  BY <1>1, SetLinks, DeleteLinks, HookLinks
<1>3. \E s \in Setters : \E todo : Begin(s, todo)
  BY DEF DeleteTpSl, Deferred, SetTpSl, Setters
<1>4. RowsSame /\ UNCHANGED <<stake, fills, keeper, cutOff>> /\ windows \subseteq windows'
  BY <1>3 DEF Begin, RowsSame, keeperHistory, Through
<1> QED BY <1>2, <1>4, SetterKeeps

LEMMA MarketStep ==
  ASSUME TriggerInv, UserBuys \/ (\E o \in onBook : RestingFills(o)) \/ Persist
  PROVE  TriggerInv'
<1>1. StopTypes /\ LinkInv /\ Fires /\ TurnInv /\ KeeperTypes
  BY TriggerParts DEF Fires
<1>2. CASE UserBuys
  <2>1. StopTypes' /\ RowsSame /\ SettersSame /\ UNCHANGED <<stake, cascade, keeper, cutOff, windows>>
    BY <1>1, <1>2, BuyTypes
  <2>2. LinkInv'
    BY <1>1, <2>1, SameFewer, FewerLinks DEF RowsSame, SettersSame
  <2>3. KeeperTypes' /\ SentOnce' /\ KeeperKnows' /\ OutcomeIsTrue'
    BY <1>1, <2>1, FiresStays DEF FireVars, RowsSame
  <2> QED BY <1>1, <1>2, <2>1, <2>2, <2>3, BuyTurn, NextTriggerParts
<1>3. ASSUME NEW o \in onBook, RestingFills(o) PROVE TriggerInv'
  <2>1. StopTypes' /\ SettersSame /\ UNCHANGED <<trig, stake, cascade, keeper, windows>>
    BY <1>1, <1>3, RestingTypes
  <2>2. LinkInv'
    BY <1>1, <2>1, SameFewer, FewerLinks DEF SettersSame
  <2> QED BY <1>1, <1>3, <2>1, <2>2, RestingFires, RestingTurn, NextTriggerParts
<1>4. CASE Persist
  <2>1. StopTypes' /\ RowsSame /\ UNCHANGED <<keeper, cutOff, windows>>
    BY <1>1, <1>4, PersistTypes
  <2>2. KeeperTypes' /\ SentOnce' /\ KeeperKnows' /\ OutcomeIsTrue'
    BY <1>1, <2>1, FiresStays DEF FireVars, RowsSame
  <2> QED BY <1>1, <1>4, <2>1, <2>2, PersistLinks, PersistTurn, NextTriggerParts
<1> QED BY <1>2, <1>3, <1>4

LEMMA CleanStep ==
  ASSUME TriggerInv, CleanTriggers \/ CleanLink \/ UserCloses \/ (\E t \in TriggerRows : CancelTrigger(t))
  PROVE  TriggerInv'
<1>1. StopTypes /\ LinkInv /\ Fires /\ TurnInv /\ KeeperTypes /\ RowTypes
  BY TriggerParts, TypesParts DEF Fires
<1>2. CASE CleanTriggers
  <2>1. /\ StopTypes' /\ CancelAll(ActiveWhere(Kinds, cascade.of))
        /\ UNCHANGED <<keeper, sent, filled, cutOff, onBook, stake, fills, windows>>
    BY <1>1, <1>2, CleanTypes DEF keeperHistory
  <2>2. LinkInv'
    BY <1>1, <1>2, CleanLinks
  <2>3. PICK S : S = ActiveWhere(Kinds, cascade.of)
    OBVIOUS
  <2>4. \A t \in S : t \in TriggerRows /\ trig[t].status = "active"
    BY <2>3, ActiveRows
  <2> QED BY <2>1, <2>2, <2>3, <2>4, CancelKeeps
<1>3. CASE CleanLink
  <2>1. LinkInv' /\ StopTypes' /\ RowsSame /\ UNCHANGED <<stake, fills, keeper, cutOff, windows>>
    BY <1>1, <1>3, UnlinkLinks, UnlinkTypes
  <2> QED BY <2>1, SetterKeeps
<1>4. CASE UserCloses
  <2>1. /\ StopTypes' /\ CancelAll(ActiveWhere(Kinds, stake.id))
        /\ UNCHANGED <<keeper, sent, filled, cutOff, onBook>>
    BY <1>1, <1>4, CloseTypes DEF keeperHistory
  <2>2. PICK S : S = ActiveWhere(Kinds, stake.id)
    OBVIOUS
  <2>3. \A t \in S : t \in TriggerRows /\ trig[t].status = "active"
    BY <2>2, ActiveRows
  <2>4. KeeperTypes' /\ SentOnce' /\ KeeperKnows' /\ OutcomeIsTrue'
    BY <1>1, <2>1, <2>2, <2>3, CancelFires
  <2> QED BY <1>1, <1>4, <2>1, <2>4, CloseLinks, CloseTurn, NextTriggerParts
<1>5. ASSUME NEW t \in TriggerRows, CancelTrigger(t) PROVE TriggerInv'
  <2>1. /\ StopTypes' /\ SettersSame /\ MoneySame /\ UNCHANGED <<keeper, keeperHistory, onBook, windows>>
        /\ trig[t].status = "active" /\ CancelAll({t})
    BY <1>1, <1>5, CancelRowTypes
  <2>2. PICK S : S = {t}
    OBVIOUS
  <2>3. LinkInv'
    <3>1. Fewer
      BY <1>1, <2>1, <2>2, CancelFewer
    <3> QED BY <1>1, <2>1, <3>1, FewerLinks DEF SettersSame, MoneySame
  <2> QED BY <2>1, <2>2, <2>3, CancelKeeps DEF keeperHistory, MoneySame
<1> QED BY <1>2, <1>3, <1>4, <1>5

\* A step of the keeper that leaves the rows alone.
LEMMA KeeperQuiet ==
  ASSUME TriggerInv, KeeperTypes', SentOnce', KeeperKnows', OutcomeIsTrue', RowsSame, SettersSame, MoneySame,
         windows \subseteq windows'
  PROVE  StopTypes' /\ LinkInv'
<1>1. StopTypes /\ LinkInv
  BY TriggerParts DEF Fires
<1> QED BY <1>1, QuietTypes, SameFewer, FewerLinks DEF RowsSame, SettersSame, MoneySame

LEMMA KeeperWrites ==
  ASSUME TriggerInv, trig' \in Seq(TrigT), Len(trig') = Len(trig), NEW status \in TriggerStatuses \ {"active"},
         On \in TriggerRows, Become(On, status), UNCHANGED <<sent, filled, dropped, onBook, windows>>,
         SettersSame, MoneySame, keeper'.pc # "submit"
  PROVE  StopTypes' /\ LinkInv' /\ TurnInv'
<1>1. StopTypes /\ LinkInv /\ TurnInv /\ KeeperTypes /\ RowTypes
  BY TriggerParts, TypesParts DEF Fires
<1>2. Fewer /\ UsdKept
  BY <1>1, BecomeFewer, BecomeUsd
<1>3. StopTypes'
  BY <1>1, WriteTypes
<1>4. LinkInv'
  BY <1>1, <1>2, FewerLinks DEF SettersSame, MoneySame
<1> QED BY <1>1, <1>2, <1>3, <1>4, QuietTurn DEF MoneySame

LEMMA KeeperStep ==
  ASSUME TriggerInv,
         \/ \E mark \in Marks : ListActive(mark)
         \/ Claim \/ ReadSize \/ Settle \/ StepErrs \/ MarkFailed
  PROVE  TriggerInv'
<1>1. StopTypes /\ LinkInv /\ Fires /\ TurnInv /\ KeeperTypes /\ RowTypes
  BY TriggerParts, TypesParts DEF Fires
<1>2. ASSUME NEW mark \in Marks, ListActive(mark) PROVE TriggerInv'
  <2>1. KeeperTypes' /\ SentOnce' /\ KeeperKnows' /\ OutcomeIsTrue'
    BY <1>1, <1>2, ListFires
  <2>2. /\ RowsSame /\ SettersSame /\ MoneySame /\ UNCHANGED <<trig, stake, fills, onBook, windows>>
        /\ keeper'.pc # "submit"
    BY <1>2 DEF ListActive, RowsSame, SettersSame, MoneySame, setterState, keeperHistory
  <2>3. StopTypes' /\ LinkInv'
    BY <2>1, <2>2, KeeperQuiet
  <2>4. TurnInv'
    BY <1>1, <2>2, <2>3, SameUsd, QuietTurn
  <2> QED BY <2>1, <2>3, <2>4, NextTriggerParts
<1>3. CASE Claim
  <2>1. /\ KeeperTypes' /\ SentOnce' /\ KeeperKnows' /\ OutcomeIsTrue' /\ trig' \in Seq(TrigT)
        /\ Len(trig') = Len(trig)
    BY <1>1, <1>3, ClaimFires
  <2>2. keeper.pc = "scan" /\ keeper.pc \in KeeperBusy
    BY <1>3 DEF Claim, KeeperBusy
  <2>3. /\ SettersSame /\ MoneySame /\ UNCHANGED <<sent, filled, dropped, onBook, windows, stake, fills>>
        /\ On \in TriggerRows
    BY <1>1, <1>3, <2>2, KeeperHolds DEF Claim, SettersSame, MoneySame, setterState, keeperHistory
  <2>4. CASE Become(On, "triggered") /\ keeper' = [keeper EXCEPT !.pc = "size"]
    <3>1. keeper'.pc # "submit"
      BY <1>1, <2>2, <2>4, PcChanges
    <3>2. PICK status \in TriggerStatuses \ {"active"} : status = "triggered"
      BY DEF TriggerStatuses
    <3>3. Become(On, status)
      BY <2>4, <3>2
    <3> QED BY <2>1, <2>3, <3>1, <3>3, KeeperWrites, NextTriggerParts
  <2>5. CASE keeper' = Scan(Tail(keeper.todo)) /\ UNCHANGED trig
    <3>1. keeper'.pc # "submit"
      BY <1>1, <2>1, <2>2, <2>5, ScanEffects
    <3>2. RowsSame
      BY <2>3, <2>5 DEF RowsSame
    <3>3. StopTypes' /\ LinkInv'
      BY <2>1, <2>3, <3>2, KeeperQuiet
    <3>4. TurnInv'
      BY <1>1, <2>3, <2>5, <3>1, <3>3, SameUsd, QuietTurn
    <3> QED BY <2>1, <3>3, <3>4, NextTriggerParts
  <2> QED BY <1>3, <2>4, <2>5 DEF Claim
<1>4. CASE ReadSize
  <2>1. KeeperTypes' /\ SentOnce' /\ KeeperKnows' /\ OutcomeIsTrue'
    BY <1>1, <1>4, SizeFires
  <2>2. /\ RowsSame /\ SettersSame /\ MoneySame /\ windows \subseteq windows'
    BY <1>4 DEF ReadSize, RowsSame, SettersSame, MoneySame, setterState, keeperHistory, Through
  <2> QED BY <1>1, <1>4, <2>1, <2>2, KeeperQuiet, SizeTurn, NextTriggerParts
<1>5. CASE Settle \/ MarkFailed
  <2>1. /\ KeeperTypes' /\ SentOnce' /\ KeeperKnows' /\ OutcomeIsTrue' /\ trig' \in Seq(TrigT)
        /\ Len(trig') = Len(trig)
    BY <1>1, <1>5, SettleFires, FailedFires
  <2>2. keeper.pc \in KeeperBusy /\ keeper' = Scan(Tail(keeper.todo))
    BY <1>5 DEF Settle, MarkFailed, KeeperBusy
  <2>3. /\ SettersSame /\ MoneySame /\ UNCHANGED <<sent, filled, dropped, onBook, windows>>
        /\ On \in TriggerRows
    BY <1>1, <1>5, <2>2, KeeperHolds
    DEF Settle, MarkFailed, SettersSame, MoneySame, setterState, keeperHistory
  <2>4. keeper'.pc # "submit"
    BY <1>1, <2>1, <2>2, ScanEffects
  <2>5. \E status \in TriggerStatuses \ {"active"} : Become(On, status)
    BY <1>5 DEF Settle, MarkFailed, Outcome, TriggerStatuses
  <2> QED BY <2>1, <2>3, <2>4, <2>5, KeeperWrites, NextTriggerParts
<1>6. CASE StepErrs
  <2>1. KeeperTypes' /\ SentOnce' /\ KeeperKnows' /\ OutcomeIsTrue'
    BY <1>1, <1>6, ErrorFires
  <2>2. /\ RowsSame /\ SettersSame /\ MoneySame /\ UNCHANGED <<trig, stake, fills, onBook, windows>>
    BY <1>6 DEF StepErrs, RowsSame, SettersSame, MoneySame, setterState
  <2>3. keeper'.pc # "submit"
    BY <1>6 DEF StepErrs, Asleep
  <2>4. StopTypes' /\ LinkInv'
    BY <2>1, <2>2, KeeperQuiet
  <2>5. TurnInv'
    BY <1>1, <2>2, <2>3, <2>4, SameUsd, QuietTurn
  <2> QED BY <2>1, <2>4, <2>5, NextTriggerParts
<1> QED BY <1>2, <1>3, <1>4, <1>5, <1>6

LEMMA SendStep ==
  ASSUME TriggerInv, keeper.pc = "submit" /\ \E got \in 0 .. keeper.size : SendOrder(got)
  PROVE  TriggerInv'
<1>1. StopTypes /\ LinkInv /\ Fires /\ TurnInv /\ KeeperTypes
  BY TriggerParts DEF Fires
<1>2. PICK got \in Nat : SendOrder(got) /\ got <= keeper.size
  BY <1>1 DEF KeeperTypes
<1>3. KeeperTypes' /\ SentOnce' /\ KeeperKnows' /\ OutcomeIsTrue' /\ StopTypes' /\ TurnInv'
  BY <1>1, <1>2, SendFires, SendTypes, SendTurn
<1>4. UNCHANGED <<trig, links, plan, cascade, stake>> /\ windows \subseteq windows'
  BY <1>2 DEF SendOrder, setterState
<1>5. LinkInv'
  BY <1>1, <1>4, SameFewer, FewerLinks
<1> QED BY <1>3, <1>5, NextTriggerParts

LEMMA RestartStep ==
  ASSUME TriggerInv, Restart
  PROVE  TriggerInv'
<1>1. StopTypes /\ LinkInv /\ Fires /\ TurnInv /\ KeeperTypes
  BY TriggerParts DEF Fires
<1>2. KeeperTypes' /\ SentOnce' /\ KeeperKnows' /\ OutcomeIsTrue' /\ StopTypes' /\ LinkInv'
  BY <1>1, RestartFires, RestartTypes, RestartLinks
<1>3. UNCHANGED <<trig, stake, fills, onBook>> /\ windows \subseteq windows' /\ keeper'.pc # "submit"
  BY DEF Restart, Asleep
<1>4. TurnInv'
  BY <1>1, <1>2, <1>3, SameUsd, QuietTurn
<1> QED BY <1>2, <1>4, NextTriggerParts

LEMMA TriggerStutters == TriggerInv /\ UNCHANGED triggerVars => TriggerInv'
<1> SUFFICES ASSUME TriggerInv, UNCHANGED triggerVars PROVE TriggerInv'
  OBVIOUS
<1>1. StopTypes /\ LinkInv /\ Fires /\ TurnInv /\ KeeperTypes
  BY TriggerParts DEF Fires
<1>2. /\ RowsSame /\ SettersSame /\ MoneySame /\ UNCHANGED <<stake, fills, keeper, cutOff, trig, windows>>
  BY DEF triggerVars, keeperHistory, setterState, RowsSame, SettersSame, MoneySame
<1>3. StopTypes' /\ LinkInv'
  BY <1>1, <1>2, QuietTypes, SameFewer, FewerLinks DEF SettersSame, MoneySame
<1> QED BY <1>2, <1>3, SetterKeeps

LEMMA TriggerSteps == TriggerInv /\ [TriggerNext]_triggerVars => TriggerInv'
<1> SUFFICES ASSUME TriggerInv, TriggerStep PROVE TriggerInv'
  BY TriggerStutters DEF TriggerNext
<1>1. CASE DeleteTpSl \/ \E S \in SUBSET Kinds : Deferred(S) \/ \E usd \in Usd : SetTpSl(S, usd)
  BY <1>1, BeginStep
<1>2. CASE \E s \in Setters : StepCancel(s) \/ StepCreate(s) \/ StepLink(s) \/ StepFails(s)
  BY <1>2, SetterStep
<1>3. CASE UserBuys \/ (\E o \in onBook : RestingFills(o)) \/ Persist
  BY <1>3, MarketStep
<1>4. CASE CleanTriggers \/ CleanLink \/ UserCloses \/ (\E t \in TriggerRows : CancelTrigger(t))
  BY <1>4, CleanStep
<1>5. CASE \/ \E mark \in Marks : ListActive(mark)
           \/ Claim \/ ReadSize \/ Settle \/ StepErrs \/ MarkFailed
  BY <1>5, KeeperStep
<1>6. CASE keeper.pc = "submit" /\ \E got \in 0 .. keeper.size : SendOrder(got)
  BY <1>6, SendStep
<1>7. CASE Restart
  BY <1>7, RestartStep
<1>8. CASE \E kind \in Kinds, pos \in 0 .. stake.id, usd \in Usd, mode \in {"close", "part"} :
             RequestTrigger(kind, pos, usd, mode)
  BY <1>8, RequestStep
<1> QED BY <1>1, <1>2, <1>3, <1>4, <1>5, <1>6, <1>7, <1>8 DEF TriggerStep

\* Every active row that a setter made is the one that its position names, and its
\* position is open: set_position_tp_sl, the deferred creation and the clean-up after a
\* close keep trigger_orders, position_tp_sl and positions together, however
\* many rows and positions there are (windows excused as in StopsBelong).
THEOREM StopsKept == TriggerSpec => []StopsBelong
<1>1. TriggerInv => StopsBelong
  <2> SUFFICES ASSUME TriggerInv PROVE StopsBelong
    OBVIOUS
  <2>1. StopTypes /\ KeeperTypes /\ LinkInv /\ RowTypes /\ LinkTypes /\ MoneyTypes
    BY TriggerParts, TypesParts DEF Fires
  <2>2. TriggerTypeOK
    <3>1. \A t \in TriggerRows : trig[t].status \in TriggerStatuses
      <4>1. \A t \in 1..Len(trig) : trig[t] \in TrigT
        BY <2>1, ElementOfSeq DEF RowTypes
      <4> QED BY <4>1 DEF TriggerRows, TrigT
    <3>2. \A p \in DOMAIN links : \A k \in Kinds : links[p][k] \in TriggerRows \cup {0}
      BY <2>1 DEF LinkTypes, NamedRow
    <3>3. stake.size \in Int /\ \A i \in DOMAIN fills : fills[i] \in Int \ {0}
      BY <2>1 DEF MoneyTypes
    <3>4. keeper.pc \in {"idle", "scan", "size", "submit", "settle", "fail"}
      BY <2>1 DEF KeeperTypes, KeeperBusy
    <3> QED BY <2>1, <3>1, <3>2, <3>3, <3>4 DEF TriggerTypeOK, RowTypes, TriggerStatuses
  <2>3. \A t \in TriggerRows : IsSetUp(t) => Belongs(t, trig[t].of, trig[t].kind)
    BY <2>1 DEF LinkInv, ActiveRow, IsSetUp
  <2>4. LinkAgrees
    BY <2>3 DEF LinkAgrees, Belongs, Agreed, LinkNames
  <2>5. ActiveHasPosition
    BY <2>3 DEF ActiveHasPosition, Belongs
  <2> QED BY <2>2, <2>4, <2>5 DEF StopsBelong
<1> QED BY <1>1, TriggerStarts, TriggerSteps, PTL DEF TriggerSpec

\* A row sends at most one order, none once it was cancelled; its status says
\* what that order did; and no stop turns its position: the keeper's scan,
\* claim, submission and bookkeeping, against requests, fills, errors and
\* restarts in any order.
THEOREM StopsFireOnce == TriggerSpec => []FiredAndTold
<1>1. TriggerInv => FiredAndTold
  <2> SUFFICES ASSUME TriggerInv PROVE FiredAndTold
    OBVIOUS
  <2>1. SentOnce /\ OutcomeIsTrue /\ TurnInv
    BY DEF TriggerInv
  <2>2. FiredOnce
    BY <2>1 DEF SentOnce, FiredOnce
  <2>3. NeverReversed
    BY <2>1 DEF TurnInv, NeverReversed, Straight, Balance
  <2> QED BY <2>1, <2>2, <2>3 DEF FiredAndTold
<1> QED BY <1>1, TriggerStarts, TriggerSteps, PTL DEF TriggerSpec
----------------------------------------------------------------------------
(* Custody *)

PendingStates == {"signed", "submitted"}
Listeners == {"deposit", "release"}
Drawn == [status : {"checked", "signed", "submitted", "confirmed", "cancelled", "expired"},
          nonce : Nat, amount : Amounts, expired : BOOLEAN, saw : Int]
Stored == {r \in Drawn : r.status # "checked"}
DepositEvents == [kind : {"deposit"}, from : Payments, tx : {TxOf[p] : p \in Payments}]
ReleaseEvents == [kind : {"release"}, of : Withdrawals, nonce : Nat, amount : Amounts]

\* Shapes of the tables, of the chain and of what the actors hold.
CustodyShape ==
    /\ row \in [Withdrawals -> Drawn \cup {NoRow}]
    /\ log \in Seq(DepositEvents \cup ReleaseEvents)
    /\ call \in [Withdrawals -> {"none", "cancel", "confirm"}] /\ overdue \subseteq Withdrawals
    /\ \A w \in Withdrawals : call[w] # "none" \/ w \in overdue => row[w] \in Stored
    /\ purse \in Int /\ locked \in Int /\ recorded \subseteq {TxOf[p] : p \in Payments}
    /\ at \in [Listeners -> Nat] /\ saved \in [Listeners -> Nat]
    /\ \A k \in Listeners : saved[k] <= at[k] /\ at[k] <= Len(log)
    /\ done \subseteq Releases

\* What the chain released is a row as it was stored, with a nonce of the past.
ReleaseKnown(b) ==
    /\ row[log[b].of] \in Stored
    /\ row[log[b].of].nonce = log[b].nonce /\ row[log[b].of].amount = log[b].amount
    /\ log[b].nonce < ContractNonce
ChainFollowed ==
    /\ \A b \in Releases : ReleaseKnown(b)
    /\ \A b, c \in Releases : log[b].of = log[c].of => b = c
    /\ \A w \in Withdrawals : In(w, {"checked"}) => row[w].saw >= row[w].amount

\* Deposits up to the listener's block, saved or not; what is recorded was paid.
DepositSeen(b) == log[b].kind = "deposit" /\ b \notin skipped
DepositsFollowed ==
    /\ \A b \in 1 .. at["deposit"] : DepositSeen(b) => log[b].tx \in recorded
    /\ \A b, c \in 1 .. at["deposit"] :
          b # c /\ DepositSeen(b) /\ DepositSeen(c) => log[b].tx # log[c].tx
    /\ \A t \in recorded : \E b \in DOMAIN log :
          log[b].kind = "deposit" /\ log[b].tx = t
EventsTrue == \A b \in DOMAIN log : log[b].kind = "deposit" => log[b].tx = TxOf[log[b].from]

\* The account, to the unit: each release that was not scanned has its row pending.
AccountKept == astray = {} =>
    /\ \A b \in Releases \ done : In(log[b].of, PendingStates)
    /\ locked = OtherLocks + PendingSum /\ purse >= 0
    /\ purse + PendingSum + PaidOut = PaymentSize * Cardinality(recorded) + Unscanned

CustodyInv == CustodyShape /\ ChainFollowed /\ DepositsFollowed /\ EventsTrue /\ AccountKept

----------------------------------------------------------------------------
\* Events and rows, by their kind.
LEMMA LogFacts ==
  ASSUME CustodyShape
  PROVE  /\ Len(log) \in Nat /\ DOMAIN log = 1 .. Len(log) /\ Releases \subseteq 1 .. Len(log)
         /\ \A b \in Releases : /\ log[b].of \in Withdrawals /\ log[b].nonce \in Nat
                                /\ log[b].amount \in Nat \ {0} /\ log[b] \in ReleaseEvents
         /\ \A b \in DOMAIN log : log[b].kind = "deposit" => log[b] \in DepositEvents
         /\ \A b \in DOMAIN log : log[b].kind \in {"deposit", "release"}
<1>1. Len(log) \in Nat /\ DOMAIN log = 1 .. Len(log)
  BY LenProperties DEF CustodyShape
<1>2. \A b \in DOMAIN log : log[b] \in DepositEvents \cup ReleaseEvents
  BY <1>1, ElementOfSeq DEF CustodyShape
<1> QED BY <1>1, <1>2, CustodyAssumption DEF Releases, DepositEvents, ReleaseEvents

LEMMA RecordFacts ==
  ASSUME NEW r \in Drawn \cup {NoRow}
  PROVE  /\ r \in Stored => /\ r.amount \in Nat \ {0} /\ r.nonce \in Nat
                            /\ r.status # "checked" /\ r.status # "none" /\ r \in Drawn
         /\ r.status \in PendingStates => r \in Stored
         /\ r.status = "checked" => r \in Drawn /\ r.amount \in Nat \ {0} /\ r.saw \in Int
         /\ r.status = "none" => r = NoRow
<1>1. CASE r = NoRow
  BY <1>1 DEF Drawn, Stored, NoRow, PendingStates
<1>2. CASE r \in Drawn
  BY <1>2, CustodyAssumption DEF Drawn, Stored, PendingStates
<1> QED BY <1>1, <1>2

LEMMA RowFacts ==
  ASSUME CustodyShape, NEW w \in Withdrawals
  PROVE  /\ row[w] \in Stored => /\ row[w].amount \in Nat \ {0} /\ row[w].nonce \in Nat
                                 /\ row[w].status # "checked" /\ row[w].status # "none"
                                 /\ row[w] \in Drawn
         /\ In(w, PendingStates) => row[w] \in Stored
         /\ In(w, {"checked"}) => row[w] \in Drawn /\ row[w].amount \in Nat \ {0} /\ row[w].saw \in Int
         /\ In(w, {"none"}) => row[w] = NoRow
<1>1. row[w] \in Drawn \cup {NoRow}
  BY DEF CustodyShape
<1>2. PICK r \in Drawn \cup {NoRow} : row[w] = r
  BY <1>1
<1> QED BY <1>2, RecordFacts DEF In

\* A signature was handed out once the row was stored.
LEMMA HandedStored ==
  ASSUME CustodyShape, NEW w \in Withdrawals, Handed(w)
  PROVE  row[w] \in Stored
<1>1. row[w] \in Drawn \cup {NoRow}
  BY DEF CustodyShape
<1> QED BY <1>1 DEF Handed, In, Stored, NoRow

LEMMA ReleasesFinite ==
  ASSUME CustodyShape
  PROVE  /\ IsFiniteSet(Releases) /\ ContractNonce \in Nat /\ IsFiniteSet(Releases \ done)
         /\ PaidOut \in Nat /\ Unscanned \in Nat
<1>1. IsFiniteSet(1 .. Len(log)) /\ IsFiniteSet(Releases)
  <2>1. Len(log) \in Nat /\ Releases \in SUBSET (1 .. Len(log))
    BY LogFacts
  <2>2. IsFiniteSet(1 .. Len(log))
    BY <2>1, FS_Interval
  <2> QED BY <2>1, <2>2, FS_Subset
<1>2. IsFiniteSet(Releases \ done)
  BY <1>1, FS_Subset
<1>3. ContractNonce \in Nat
  BY <1>1, FS_CardinalityType DEF ContractNonce
<1> DEFINE f == [b \in Releases |-> log[b].amount]
           g == [b \in Releases \ done |-> log[b].amount]
<1>4. (\A b \in Releases : f[b] \in Nat) /\ (\A b \in Releases \ done : g[b] \in Nat)
  BY LogFacts
<1>5. PaidOut = SumFunctionOnSet(f, Releases) /\ Unscanned = SumFunctionOnSet(g, Releases \ done)
  BY DEF PaidOut, Unscanned, SumFunction
<1> HIDE DEF f, g
<1> QED BY <1>1, <1>2, <1>3, <1>4, <1>5, SumNat

LEMMA RecordedFinite ==
  ASSUME CustodyShape
  PROVE  /\ IsFiniteSet(recorded) /\ Cardinality(recorded) \in Nat
         /\ PaymentSize * Cardinality(recorded) \in Int
<1>1. [p \in Payments |-> TxOf[p]] \in Surjection(Payments, {TxOf[p] : p \in Payments})
  BY DEF Surjection
<1>2. IsFiniteSet({TxOf[p] : p \in Payments})
  BY <1>1, FS_Surjection, CustodyAssumption
<1>3. IsFiniteSet(recorded) /\ Cardinality(recorded) \in Nat
  BY <1>2, FS_Subset, FS_CardinalityType DEF CustodyShape
<1> QED BY <1>3, TimesSum, CustodyAssumption

LEMMA PendingSums ==
  ASSUME CustodyShape
  PROVE  /\ IsFiniteSet(PendingRows) /\ PendingSum \in Nat
         /\ \A w \in PendingRows : row[w].amount <= PendingSum
         /\ PendingSum = SumFunctionOnSet([w \in PendingRows |-> row[w].amount], PendingRows)
<1> DEFINE f == [w \in PendingRows |-> row[w].amount]
<1>1. IsFiniteSet(PendingRows)
  BY CustodyAssumption, FS_Subset DEF PendingRows
<1>2. \A w \in PendingRows : f[w] \in Nat
  BY RowFacts DEF PendingRows, PendingStates
<1>3. PendingSum = SumFunctionOnSet(f, PendingRows)
  BY DEF PendingSum, SumFunction
<1>4. \A w \in PendingRows : f[w] = row[w].amount
  OBVIOUS
<1>5. SumFunctionOnSet(f, PendingRows) \in Nat /\ \A w \in PendingRows : f[w] <= SumFunctionOnSet(f, PendingRows)
  <2> HIDE DEF f
  <2> QED BY <1>1, <1>2, SumNat
<1> QED BY <1>1, <1>3, <1>4, <1>5

\* The sum of the pending rows: one row becomes pending, or stops being so.
LEMMA PendingJoins ==
  ASSUME CustodyShape, CustodyShape', NEW w \in Withdrawals,
         ~In(w, PendingStates), In(w, PendingStates)',
         \A v \in Withdrawals \ {w} : row'[v] = row[v]
  PROVE  PendingSum' = PendingSum + row'[w].amount
<1>1. PendingRows' = PendingRows \cup {w} /\ w \notin PendingRows
  BY DEF PendingRows, In, PendingStates
<1> DEFINE g == [v \in PendingRows |-> row[v].amount]
           h == [v \in PendingRows' |-> row'[v].amount]
<1>2. \A v \in PendingRows \cup {w} : h[v] \in Int
  <2>1. \A v \in PendingRows' : row'[v].amount \in Int
    <3>1. \A v \in Withdrawals : row'[v] \in Drawn \cup {NoRow}
      BY DEF CustodyShape
    <3>2. \A v \in Withdrawals : row'[v].status \in PendingStates => row'[v].amount \in Int
      <4> SUFFICES ASSUME NEW v \in Withdrawals, row'[v].status \in PendingStates
                   PROVE  row'[v].amount \in Int
        OBVIOUS
      <4>1. PICK r \in Drawn \cup {NoRow} : row'[v] = r
        BY <3>1
      <4> QED BY <4>1, RecordFacts
    <3> QED BY <3>2 DEF PendingRows, In, PendingStates
  <2> QED BY <1>1, <2>1
<1>3. (\A v \in PendingRows : g[v] = h[v]) /\ h[w] = row'[w].amount
  BY <1>1 DEF PendingRows
<1>4. PendingSum = SumFunctionOnSet(g, PendingRows) /\ IsFiniteSet(PendingRows)
  BY PendingSums
<1>5. PendingSum' = SumFunctionOnSet(h, PendingRows')
  BY DEF PendingSum, SumFunction
<1> HIDE DEF g, h
<1>6. SumFunctionOnSet(h, PendingRows \cup {w}) = SumFunctionOnSet(g, PendingRows) + h[w]
  BY <1>1, <1>2, <1>3, <1>4, SumGrow
<1> QED BY <1>1, <1>3, <1>4, <1>5, <1>6

LEMMA PendingLeaves ==
  ASSUME CustodyShape, CustodyShape', NEW w \in Withdrawals,
         In(w, PendingStates), ~In(w, PendingStates)',
         \A v \in Withdrawals \ {w} : row'[v] = row[v]
  PROVE  PendingSum' = PendingSum - row[w].amount /\ row[w].amount <= PendingSum
<1>1. PendingRows = PendingRows' \cup {w} /\ w \notin PendingRows'
  BY DEF PendingRows, In, PendingStates
<1> DEFINE h == [v \in PendingRows |-> row[v].amount]
           g == [v \in PendingRows' |-> row'[v].amount]
           S == PendingRows'
<1>2. \A v \in S \cup {w} : h[v] \in Int
  BY <1>1, RowFacts DEF PendingRows, PendingStates
<1>3. (\A v \in S : g[v] = h[v]) /\ h[w] = row[w].amount /\ row[w].amount \in Int
  BY <1>1, <1>2 DEF PendingRows
<1>4. PendingSum = SumFunctionOnSet(h, PendingRows) /\ IsFiniteSet(S)
  <2>1. IsFiniteSet(PendingRows) /\ S \subseteq PendingRows
    BY <1>1, PendingSums
  <2> QED BY <2>1, PendingSums, FS_Subset
<1>5. PendingSum' = SumFunctionOnSet(g, S)
  BY DEF PendingSum, SumFunction
<1>6. SumFunctionOnSet(h, S \cup {w}) = SumFunctionOnSet(g, S) + h[w]
  <2>1. w \notin S
    BY <1>1
  <2> HIDE DEF g, h, S
  <2> QED BY <2>1, <1>2, <1>3, <1>4, SumGrow
<1>7. SumFunctionOnSet(g, S) \in Int
  <2>1. \A v \in S : g[v] \in Int
    BY <1>2, <1>3
  <2> HIDE DEF g, h, S
  <2> QED BY <2>1, <1>4, SumInt
<1>8. row[w].amount <= PendingSum
  BY PendingSums, <1>1
<1> HIDE DEF g, h, S
<1>9. PendingSum = PendingSum' + row[w].amount /\ PendingSum' \in Int
  BY <1>1, <1>3, <1>4, <1>5, <1>6, <1>7 DEF S
<1> QED BY <1>3, <1>8, <1>9

\* The sum does not see other changes of a row.
LEMMA PendingStays ==
  ASSUME \A v \in Withdrawals : /\ row'[v].status \in PendingStates <=> row[v].status \in PendingStates
                                /\ row[v].status \in PendingStates => row'[v].amount = row[v].amount
  PROVE  PendingSum' = PendingSum
<1>1. PendingRows' = PendingRows
  BY DEF PendingRows, In, PendingStates
<1>2. [w \in PendingRows' |-> row'[w].amount] = [w \in PendingRows |-> row[w].amount]
  BY <1>1 DEF PendingRows, In, PendingStates
<1> QED BY <1>2 DEF PendingSum


----------------------------------------------------------------------------
(* The shapes *)

\* What a step writes into one row is a row.
LEMMA RowWritten ==
  ASSUME CustodyShape, NEW w \in Withdrawals, NEW r \in Drawn, row' = [row EXCEPT ![w] = r]
  PROVE  /\ row' \in [Withdrawals -> Drawn \cup {NoRow}]
         /\ row'[w] = r /\ \A v \in Withdrawals \ {w} : row'[v] = row[v]
BY DEF CustodyShape

Restated(r, s) == [r EXCEPT !.status = s]
RunOut(r) == [r EXCEPT !.expired = TRUE]

LEMMA StatusWritten ==
  ASSUME NEW r \in Drawn, NEW s \in {"signed", "submitted", "confirmed", "cancelled", "expired"}
  PROVE  /\ Restated(r, s) \in Stored /\ Restated(r, s) \in Drawn
         /\ Restated(r, s).status = s /\ Restated(r, s).amount = r.amount
         /\ Restated(r, s).nonce = r.nonce
BY DEF Drawn, Stored, Restated

LEMMA ExpiryWritten ==
  ASSUME NEW r \in Drawn
  PROVE  /\ RunOut(r) \in Drawn /\ RunOut(r).status = r.status /\ RunOut(r).amount = r.amount
         /\ RunOut(r).nonce = r.nonce /\ RunOut(r).saw = r.saw
BY DEF Drawn, RunOut

\* The step of a status, whole.
LEMMA StatusStep ==
  ASSUME CustodyShape, NEW w \in Withdrawals, row[w] \in Drawn,
         NEW s \in {"signed", "submitted", "confirmed", "cancelled", "expired"},
         row' = [row EXCEPT ![w].status = s]
  PROVE  /\ row' \in [Withdrawals -> Drawn \cup {NoRow}]
         /\ row'[w] \in Stored /\ row'[w].status = s /\ row'[w].amount = row[w].amount
         /\ row'[w].nonce = row[w].nonce
         /\ \A v \in Withdrawals \ {w} : row'[v] = row[v]
<1> DEFINE r == Restated(row[w], s)
<1>1. row' = [row EXCEPT ![w] = r]
  BY DEF Restated
<1>2. /\ r \in Drawn /\ r \in Stored /\ r.status = s /\ r.amount = row[w].amount
      /\ r.nonce = row[w].nonce
  BY StatusWritten
<1> HIDE DEF r
<1> QED BY <1>1, <1>2, RowWritten

\* Nothing was appended to the chain.
LEMMA LogStays ==
  ASSUME log' = log
  PROVE  Releases' = Releases /\ ContractNonce' = ContractNonce
         /\ \A w : ReleasedOnChain(w)' = ReleasedOnChain(w)
BY DEF Releases, ContractNonce, ReleasedOnChain

\* What an event appended to the chain leaves in place.
LEMMA LogGrows ==
  ASSUME CustodyShape, NEW e \in DepositEvents \cup ReleaseEvents, log' = Append(log, e)
  PROVE  /\ log' \in Seq(DepositEvents \cup ReleaseEvents) /\ Len(log') = Len(log) + 1
         /\ DOMAIN log' = 1 .. Len(log) + 1
         /\ \A b \in 1 .. Len(log) : log'[b] = log[b] /\ log'[Len(log) + 1] = e
         /\ log'[Len(log) + 1] = e
         /\ Releases' = Releases \cup (IF e.kind = "release" THEN {Len(log) + 1} ELSE {})
         /\ Len(log) + 1 \notin Releases
<1>1. log \in Seq(DepositEvents \cup ReleaseEvents)
  BY DEF CustodyShape
<1>2. /\ log' \in Seq(DepositEvents \cup ReleaseEvents) /\ Len(log') = Len(log) + 1
      /\ \A b \in 1 .. Len(log) : log'[b] = log[b]
      /\ log'[Len(log) + 1] = e
  BY <1>1, AppendProperties
<1>3. DOMAIN log' = 1 .. Len(log) + 1 /\ DOMAIN log = 1 .. Len(log) /\ Len(log) \in Nat
  BY <1>1, <1>2, LenProperties
<1> QED BY <1>2, <1>3 DEF Releases

LEMMA ShapeSteps ==
  ASSUME CustodyInv, CustodyNext
  PROVE  CustodyShape'
<1> USE DEF CustodyInv
<1>q. Len(log) \in Nat /\ DOMAIN at = Listeners
  BY LogFacts DEF CustodyShape
<1>1. ASSUME NEW p \in Payments, PayIn(p) PROVE CustodyShape'
  <2> DEFINE e == [kind |-> "deposit", from |-> p, tx |-> TxOf[p]]
  <2>1. e \in DepositEvents \cup ReleaseEvents /\ log' = Append(log, e)
    BY <1>1 DEF PayIn, DepositEvents
  <2> HIDE DEF e
  <2>2. Releases \subseteq Releases' /\ Len(log') = Len(log) + 1 /\ log' \in Seq(DepositEvents \cup ReleaseEvents)
    BY <2>1, LogGrows
  <2> QED BY <1>1, <1>q, <2>2 DEF PayIn, CustodyShape
<1>2. ASSUME NEW w \in Withdrawals, Release(w) PROVE CustodyShape'
  <2> DEFINE e == [kind |-> "release", of |-> w, nonce |-> row[w].nonce, amount |-> row[w].amount]
  <2>1. row[w].nonce \in Nat /\ row[w].amount \in Amounts
    BY <1>2, HandedStored, RowFacts DEF Release, Drawn
  <2>2. e \in DepositEvents \cup ReleaseEvents /\ log' = Append(log, e)
    BY <1>2, <2>1 DEF Release, ReleaseEvents
  <2> HIDE DEF e
  <2>3. Releases \subseteq Releases' /\ Len(log') = Len(log) + 1 /\ log' \in Seq(DepositEvents \cup ReleaseEvents)
    BY <2>2, LogGrows
  <2>4. UNCHANGED <<row, call, overdue, purse, locked, recorded, at, saved, done, skipped, errors>>
    BY <1>2 DEF Release
  <2> QED BY <1>q, <2>3, <2>4 DEF CustodyShape
<1>3. ASSUME NEW w \in Withdrawals, Expires(w) PROVE CustodyShape'
  <2> DEFINE r == RunOut(row[w])
  <2>1. row[w] \in Drawn /\ row[w] \in Stored
    BY <1>3, RowFacts, HandedStored DEF Expires
  <2>2. r \in Drawn /\ r.status = row[w].status
    BY <2>1, ExpiryWritten
  <2>3. row' = [row EXCEPT ![w] = r]
    BY <1>3 DEF Expires, RunOut
  <2>4. r \in Stored
    BY <2>1, <2>2 DEF Stored
  <2> HIDE DEF r
  <2>5. /\ row' \in [Withdrawals -> Drawn \cup {NoRow}]
        /\ row'[w] \in Stored /\ \A v \in Withdrawals \ {w} : row'[v] = row[v]
    BY <2>2, <2>3, <2>4, RowWritten
  <2> QED BY <1>3, <2>5, LogStays DEF Expires, CustodyShape
<1>4. ASSUME NEW w \in Withdrawals, NEW q \in Amounts, CheckAndSign(w, q) PROVE CustodyShape'
  <2> DEFINE r == [status |-> "checked", nonce |-> ContractNonce, amount |-> q, expired |-> FALSE, saw |-> purse]
  <2>1. r \in Drawn /\ row' = [row EXCEPT ![w] = r]
    BY <1>4, ReleasesFinite DEF CheckAndSign, Drawn, CustodyShape
  <2> HIDE DEF r
  <2>2. row' \in [Withdrawals -> Drawn \cup {NoRow}] /\ \A v \in Withdrawals \ {w} : row'[v] = row[v]
    BY <2>1, RowWritten
  <2>3. row[w] \notin Stored
    BY <1>4, RowFacts DEF CheckAndSign, In
  <2> QED BY <1>4, <2>2, <2>3, LogStays DEF CheckAndSign, CustodyShape
<1>5. ASSUME NEW w \in Withdrawals, FreezeAndStore(w) PROVE CustodyShape'
  <2>1. row[w] \in Drawn /\ row[w].amount \in Nat \ {0}
    BY <1>5, RowFacts DEF FreezeAndStore
  <2>2. /\ row' \in [Withdrawals -> Drawn \cup {NoRow}] /\ row'[w] \in Stored
        /\ \A v \in Withdrawals \ {w} : row'[v] = row[v]
    BY <1>5, <2>1, StatusStep DEF FreezeAndStore
  <2>3. purse' \in Int /\ locked' \in Int
    BY <1>5, <2>1 DEF FreezeAndStore, CustodyShape
  <2> QED BY <1>5, <2>2, <2>3, LogStays DEF FreezeAndStore, CustodyShape
<1>6. ASSUME NEW w \in Withdrawals, NEW what \in {"cancel", "confirm"}, UserReads(w, what) PROVE CustodyShape'
  <2>1. row[w] \in Stored
    BY <1>6, RowFacts DEF UserReads, In, PendingStates
  <2> QED BY <1>6, <2>1, LogStays DEF UserReads, CustodyShape
<1>7. ASSUME NEW w \in Withdrawals, Cancel(w) \/ Submit(w) \/ Expire(w) PROVE CustodyShape'
  <2>1. row[w] \in Stored
    BY <1>7 DEF Cancel, Submit, Expire, CustodyShape
  <2>2. row[w] \in Drawn /\ row[w].amount \in Nat \ {0}
    BY <2>1, RowFacts
  <2>3. /\ row' \in [Withdrawals -> Drawn \cup {NoRow}] /\ row'[w] \in Stored
        /\ \A v \in Withdrawals \ {w} : row'[v] = row[v]
    <3>1. \E s \in {"cancelled", "submitted", "expired"} : row' = [row EXCEPT ![w].status = s]
      BY <1>7 DEF Cancel, Submit, Expire
    <3> QED BY <3>1, <2>2, StatusStep
  <2>4. purse' \in Int /\ locked' \in Int
    <3>1. PICK a \in Nat : row[w].amount = a
      BY <2>2
    <3>2. \/ purse' = purse + a /\ locked' = locked - a
          \/ purse' = purse /\ locked' = locked
      BY <1>7, <3>1 DEF Cancel, Submit, Expire, Unlock
    <3> QED BY <3>2 DEF CustodyShape
  <2>5. call' \in [Withdrawals -> {"none", "cancel", "confirm"}] /\ overdue' \subseteq Withdrawals
    BY <1>7 DEF Cancel, Submit, Expire, CustodyShape
  <2>6. \A v \in Withdrawals : call'[v] # "none" \/ v \in overdue' => row'[v] \in Stored
    BY <1>7, <2>3 DEF Cancel, Submit, Expire, CustodyShape
  <2> QED BY <1>7, <2>3, <2>4, <2>5, <2>6, LogStays DEF Cancel, Submit, Expire, CustodyShape
<1>8. ASSUME ListOverdue PROVE CustodyShape'
  <2>1. \A w \in Overdue : row[w] \in Stored /\ w \in Withdrawals
    BY RowFacts DEF Overdue, In, PendingStates
  <2> QED BY <1>8, <2>1, LogStays DEF ListOverdue, CustodyShape
<1>9. ASSUME NEW k \in Listeners, at[k] < Len(log), Move(k)
      PROVE  /\ at' \in [Listeners -> Nat] /\ at'[k] = at[k] + 1
             /\ \A l \in Listeners : saved[l] <= at'[l] /\ at'[l] <= Len(log)
  BY <1>9, <1>q DEF Move, CustodyShape
<1>10. ASSUME ScanDeposit \/ DepositFails PROVE CustodyShape'
  <2>1. recorded' \subseteq {TxOf[p] : p \in Payments} /\ purse' \in Int
    <3>1. CASE recorded' = recorded /\ purse' = purse
      BY <3>1 DEF CustodyShape
    <3>2. CASE Next1("deposit").kind = "deposit" /\ recorded' = recorded \cup {Next1("deposit").tx} /\ purse' = purse + PaymentSize
      <4>1. at["deposit"] + 1 \in DOMAIN log
        BY <1>10, <1>q, LogFacts DEF ScanDeposit, DepositFails, CustodyShape, Listeners
      <4>2. Next1("deposit").tx \in {TxOf[p] : p \in Payments}
        BY <3>2, <4>1, LogFacts DEF Next1, DepositEvents
      <4> QED BY <3>2, <4>2, CustodyAssumption DEF CustodyShape
    <3> QED BY <1>10, <3>1, <3>2 DEF ScanDeposit, DepositFails
  <2>2. at["deposit"] < Len(log) /\ Move("deposit") /\ UNCHANGED <<log, row, call, overdue, locked, saved, done>>
    BY <1>10 DEF ScanDeposit, DepositFails
  <2> QED BY <1>9, <2>1, <2>2, LogStays DEF CustodyShape, Listeners
<1>11. ASSUME ScanRelease PROVE CustodyShape'
  <2>1. at["release"] < Len(log) /\ Move("release") /\ UNCHANGED <<log, call, overdue, purse, recorded, saved>>
    BY <1>11 DEF ScanRelease
  <2>2. CASE UNCHANGED <<row, locked, done>>
    BY <1>9, <2>1, <2>2, LogStays DEF CustodyShape, Listeners
  <2>3. CASE Next1("release").kind = "release"
    <3> DEFINE e == Next1("release")
    <3>1. at["release"] + 1 \in Releases
      BY <2>1, <2>3, LogFacts DEF Next1, Releases, CustodyShape, Listeners
    <3>2. locked' \in Int
      <4>1. PICK a \in Nat : e.amount = a
        BY <3>1, LogFacts DEF Next1
      <4>2. locked' = locked \/ locked' = locked - a
        BY <1>11, <2>3, <4>1 DEF ScanRelease
      <4> QED BY <4>2 DEF CustodyShape
    <3>3. done' \subseteq Releases
      BY <1>11, <2>3, <3>1 DEF ScanRelease, CustodyShape
    <3>4. ASSUME NEW w \in Withdrawals
          PROVE  row'[w] \in Drawn \cup {NoRow} /\ (row[w] \in Stored => row'[w] \in Stored)
      <4>1. CASE w \in Confirms(e)
        <5>1. row[w] \in Drawn
          BY <4>1, RowFacts DEF Confirms, PendingStates
        <5>2. row'[w] = [row[w] EXCEPT !.status = "confirmed"]
          BY <1>11, <2>3, <4>1 DEF ScanRelease
        <5>3. row'[w] = Restated(row[w], "confirmed")
          BY <5>2 DEF Restated
        <5> QED BY <5>1, <5>3, StatusWritten
      <4>2. CASE w \notin Confirms(e)
        BY <1>11, <2>3, <4>2 DEF ScanRelease, CustodyShape
      <4> QED BY <4>1, <4>2
    <3>5. DOMAIN row' = Withdrawals /\ row' = [w \in Withdrawals |-> row'[w]]
      BY <1>11, <2>3 DEF ScanRelease
    <3>6. row' \in [Withdrawals -> Drawn \cup {NoRow}]
      BY <3>4, <3>5
    <3> QED BY <1>9, <2>1, <3>2, <3>3, <3>4, <3>6, LogStays DEF CustodyShape, Listeners
  <2> QED BY <1>11, <2>2, <2>3 DEF ScanRelease
<1>12. ASSUME ReleaseFails PROVE CustodyShape'
  <2>1. at["release"] < Len(log) /\ Move("release")
    BY <1>12 DEF ReleaseFails
  <2> QED BY <1>9, <1>12, <2>1, LogStays DEF ReleaseFails, CustodyShape, Listeners
<1>13. ASSUME NEW k \in Listeners, Save(k) \/ Rewind(k) PROVE CustodyShape'
  <2>1. CASE Save(k)
    <3>1. saved' \in [Listeners -> Nat] /\ at' = at /\ \A l \in Listeners : saved'[l] <= at[l]
      BY <2>1, <1>q DEF Save, CustodyShape
    <3> QED BY <2>1, <3>1, LogStays DEF Save, CustodyShape
  <2>2. CASE Rewind(k)
    <3>1. at' \in [Listeners -> Nat] /\ saved' = saved
          /\ \A l \in Listeners : saved[l] <= at'[l] /\ at'[l] <= Len(log)
      BY <2>2, <1>q DEF Rewind, CustodyShape
    <3> QED BY <2>2, <3>1, LogStays DEF Rewind, CustodyShape
  <2> QED BY <1>13, <2>1, <2>2
<1> QED
  <2>1. \A k \in DOMAIN at : k \in Listeners
    BY <1>q
  <2> QED
    BY <1>1, <1>2, <1>3, <1>4, <1>5, <1>6, <1>7, <1>8, <1>10, <1>11, <1>12, <1>13, <2>1 DEF CustodyNext

----------------------------------------------------------------------------
(* The deposits *)

\* The chain never forgets; it grows by deposits as they are and by releases.
LEMMA LogSteps ==
  ASSUME CustodyInv, CustodyNext
  PROVE  \/ log' = log
         \/ \E p \in Payments : /\ log' = Append(log, [kind |-> "deposit", from |-> p, tx |-> TxOf[p]])
                                /\ [kind |-> "deposit", from |-> p, tx |-> TxOf[p]] \in DepositEvents
                                /\ UNCHANGED <<recorded, at, skipped>>
         \/ \E e \in ReleaseEvents : log' = Append(log, e) /\ UNCHANGED <<recorded, at, skipped>>
<1>1. ASSUME NEW w \in Withdrawals, Release(w)
      PROVE  \E e \in ReleaseEvents : log' = Append(log, e) /\ UNCHANGED <<recorded, at, skipped>>
  <2> DEFINE e == [kind |-> "release", of |-> w, nonce |-> row[w].nonce, amount |-> row[w].amount]
  <2>1. row[w].nonce \in Nat /\ row[w].amount \in Amounts
    BY <1>1, HandedStored, RowFacts DEF CustodyInv, Release, Drawn
  <2>2. e \in ReleaseEvents
    BY <2>1 DEF ReleaseEvents
  <2> QED BY <1>1, <2>2 DEF Release
<1>2. ASSUME NEW p \in Payments, PayIn(p)
      PROVE  /\ log' = Append(log, [kind |-> "deposit", from |-> p, tx |-> TxOf[p]])
             /\ [kind |-> "deposit", from |-> p, tx |-> TxOf[p]] \in DepositEvents
             /\ UNCHANGED <<recorded, at, skipped>>
  BY <1>2 DEF PayIn, DepositEvents
<1>3. ASSUME NEW w \in Withdrawals, \/ Expires(w) \/ FreezeAndStore(w) \/ Cancel(w) \/ Submit(w) \/ Expire(w)
                                    \/ \E q \in Amounts : CheckAndSign(w, q)
                                    \/ \E what \in {"cancel", "confirm"} : UserReads(w, what)
      PROVE  log' = log
  BY <1>3 DEF Expires, FreezeAndStore, Cancel, Submit, Expire, CheckAndSign, UserReads
<1>4. ASSUME \/ ListOverdue \/ ScanDeposit \/ DepositFails \/ ScanRelease \/ ReleaseFails
             \/ \E kind \in DOMAIN at : Save(kind) \/ Rewind(kind)
      PROVE  log' = log
  BY <1>4 DEF ListOverdue, ScanDeposit, DepositFails, ScanRelease, ReleaseFails, Save, Rewind
<1> QED BY <1>1, <1>2, <1>3, <1>4 DEF CustodyNext

\* An event keeps its place.
LEMMA EventsStay ==
  ASSUME CustodyInv, CustodyNext
  PROVE  /\ \A b \in DOMAIN log : b \in DOMAIN log' /\ log'[b] = log[b]
         /\ log' # log => UNCHANGED <<recorded, at, skipped>>
<1>1. CASE log' = log
  BY <1>1
<1>2. ASSUME NEW e \in DepositEvents \cup ReleaseEvents, log' = Append(log, e)
      PROVE  \A b \in DOMAIN log : b \in DOMAIN log' /\ log'[b] = log[b]
  BY <1>2, LogGrows, LogFacts DEF CustodyInv
<1> QED BY <1>1, <1>2, LogSteps

LEMMA EventsTrueSteps ==
  ASSUME CustodyInv, CustodyNext
  PROVE  EventsTrue'
<1>1. CASE log' = log
  BY <1>1 DEF CustodyInv, EventsTrue
<1>2. ASSUME NEW e \in DepositEvents \cup ReleaseEvents, log' = Append(log, e),
             e.kind = "deposit" => e.tx = TxOf[e.from]
      PROVE  EventsTrue'
  <2>1. /\ DOMAIN log = 1 .. Len(log) /\ Len(log) \in Nat /\ DOMAIN log' = 1 .. Len(log) + 1
        /\ \A b \in 1 .. Len(log) : log'[b] = log[b]
        /\ log'[Len(log) + 1] = e
    BY <1>2, LogGrows, LogFacts DEF CustodyInv
  <2> QED BY <1>2, <2>1 DEF CustodyInv, EventsTrue
<1>3. \A e \in ReleaseEvents : e.kind # "deposit"
  BY DEF ReleaseEvents
<1> QED BY <1>1, <1>2, <1>3, LogSteps

\* What the listener has passed, whichever way it took the event.
LEMMA OnePassed ==
  ASSUME CustodyInv, ScanDeposit \/ DepositFails
  PROVE  LET b == at["deposit"] + 1 IN
         /\ b \in DOMAIN log /\ at["deposit"] \in Nat /\ at'["deposit"] = b /\ log' = log
         /\ recorded \subseteq recorded' /\ skipped \subseteq skipped'
         /\ \A t \in recorded' \ recorded : log[b].kind = "deposit" /\ log[b].tx = t
         /\ log[b].kind = "deposit" /\ b \notin skipped' =>
               /\ log[b].tx \in recorded'
               /\ log[b].tx \notin recorded \/ ~SecondOfTx(b)
<1> DEFINE b == at["deposit"] + 1
<1>1. b \in DOMAIN log /\ at["deposit"] \in Nat /\ at'["deposit"] = b /\ log' = log
  BY LogFacts DEF CustodyInv, CustodyShape, ScanDeposit, DepositFails, Move, Listeners
<1>2. CASE ScanDeposit
  <2>1. CASE Next1("deposit").kind = "deposit" /\ IsFresh(Next1("deposit"))
    BY <1>1, <1>2, <2>1 DEF ScanDeposit, IsFresh, Next1
  <2>2. CASE ~(Next1("deposit").kind = "deposit" /\ IsFresh(Next1("deposit")))
    BY <1>1, <1>2, <2>2 DEF ScanDeposit, IsFresh, Next1, Named
  <2> QED BY <2>1, <2>2
<1>3. CASE DepositFails
  BY <1>1, <1>3 DEF DepositFails, IsFresh, Next1, Named
<1> QED BY <1>2, <1>3

LEMMA DepositsSteps ==
  ASSUME CustodyInv, CustodyNext
  PROVE  DepositsFollowed'
<1>1. \A b \in DOMAIN log : b \in DOMAIN log' /\ log'[b] = log[b]
  BY EventsStay
<1>2. 1 .. at["deposit"] \subseteq DOMAIN log /\ at["deposit"] \in Nat
  BY LogFacts DEF CustodyInv, CustodyShape, Listeners
<1>3. CASE UNCHANGED <<recorded, skipped>> /\ at'["deposit"] \in Nat /\ at'["deposit"] <= at["deposit"]
  <2>1. \A b \in 1 .. at'["deposit"] : b \in 1 .. at["deposit"] /\ (DepositSeen(b)' <=> DepositSeen(b)) /\ log'[b] = log[b]
    BY <1>1, <1>2, <1>3 DEF DepositSeen
  <2> QED BY <1>1, <1>3, <2>1 DEF CustodyInv, DepositsFollowed
<1>4. CASE ScanDeposit \/ DepositFails
  <2>0. PICK n \in Nat : n = at["deposit"] + 1
    BY <1>2
  <2>1. /\ n \in DOMAIN log /\ at["deposit"] \in Nat /\ at'["deposit"] = n /\ log' = log
        /\ recorded \subseteq recorded' /\ skipped \subseteq skipped'
        /\ \A t \in recorded' \ recorded : log[n].kind = "deposit" /\ log[n].tx = t
        /\ log[n].kind = "deposit" /\ n \notin skipped' =>
              /\ log[n].tx \in recorded'
              /\ log[n].tx \notin recorded \/ ~SecondOfTx(n)
    BY <1>4, <2>0, OnePassed
  <2>n. /\ \A b \in 1 .. n : b = n \/ b \in 1 .. at["deposit"]
        /\ \A c \in 1 .. at["deposit"] : c \in 1 .. n - 1
    BY <1>2, <2>0
  <2>2. \A b \in 1 .. n : DepositSeen(b)' /\ b # n => b \in 1 .. at["deposit"] /\ DepositSeen(b)
    BY <2>1, <2>n DEF DepositSeen
  <2>3. DepositSeen(n)' => log[n].kind = "deposit" /\ n \notin skipped'
    BY <2>1 DEF DepositSeen
  <2>4. \A b \in 1 .. n : DepositSeen(b)' => log[b].tx \in recorded'
    <3> SUFFICES ASSUME NEW b \in 1 .. n, DepositSeen(b)' PROVE log[b].tx \in recorded'
      OBVIOUS
    <3>1. CASE b = n
      BY <2>1, <2>3, <3>1
    <3>2. CASE b # n
      BY <2>1, <2>2, <3>2 DEF CustodyInv, DepositsFollowed
    <3> QED BY <3>1, <3>2
  <2>5. \A c \in 1 .. at["deposit"] : DepositSeen(n)' /\ DepositSeen(c) => log[c].tx # log[n].tx
    <3> SUFFICES ASSUME NEW c \in 1 .. at["deposit"], DepositSeen(n)', DepositSeen(c)
                 PROVE  log[c].tx # log[n].tx
      OBVIOUS
    <3>1. log[c].tx \in recorded /\ log[c].kind = "deposit"
      BY DEF CustodyInv, DepositsFollowed, DepositSeen
    <3>2. CASE log[n].tx \notin recorded
      BY <3>1, <3>2
    <3>3. CASE ~SecondOfTx(n)
      <4>1. c \in 1 .. n - 1
        BY <2>n
      <4> QED BY <2>3, <3>1, <3>3, <4>1 DEF SecondOfTx
    <3> QED BY <2>1, <2>3, <3>2, <3>3
  <2>6. \A b, c \in 1 .. n : b # c /\ DepositSeen(b)' /\ DepositSeen(c)' => log[b].tx # log[c].tx
    <3> SUFFICES ASSUME NEW b \in 1 .. n, NEW c \in 1 .. n, b # c, DepositSeen(b)', DepositSeen(c)'
                 PROVE  log[b].tx # log[c].tx
      OBVIOUS
    <3>1. CASE b # n /\ c # n
      BY <2>2, <3>1 DEF CustodyInv, DepositsFollowed
    <3>2. CASE b = n \/ c = n
      BY <2>2, <2>5, <3>2
    <3> QED BY <3>1, <3>2
  <2>7. \A t \in recorded' : \E b \in DOMAIN log : log[b].kind = "deposit" /\ log[b].tx = t
    BY <2>1 DEF CustodyInv, DepositsFollowed
  <2> QED BY <2>1, <2>4, <2>6, <2>7 DEF DepositsFollowed
<1>5. ASSUME NEW w \in Withdrawals, \/ Release(w) \/ Expires(w) \/ FreezeAndStore(w) \/ Cancel(w) \/ Submit(w) \/ Expire(w)
                                    \/ \E q \in Amounts : CheckAndSign(w, q)
                                    \/ \E what \in {"cancel", "confirm"} : UserReads(w, what)
      PROVE  UNCHANGED <<recorded, skipped, at>>
  BY <1>5 DEF Release, Expires, FreezeAndStore, Cancel, Submit, Expire, CheckAndSign, UserReads
<1>6. ASSUME NEW p \in Payments, PayIn(p) PROVE UNCHANGED <<recorded, skipped, at>>
  BY <1>6 DEF PayIn
<1>7. ASSUME ListOverdue \/ ScanRelease \/ ReleaseFails
      PROVE  UNCHANGED <<recorded, skipped>> /\ at'["deposit"] = at["deposit"]
  BY <1>7 DEF ListOverdue, ScanRelease, ReleaseFails, Move, CustodyInv, CustodyShape, Listeners
<1>8. ASSUME NEW k \in DOMAIN at, Save(k) \/ Rewind(k)
      PROVE  UNCHANGED <<recorded, skipped>> /\ at'["deposit"] \in Nat /\ at'["deposit"] <= at["deposit"]
  BY <1>8 DEF Save, Rewind, CustodyInv, CustodyShape, Listeners
<1>9. at["deposit"] \in Nat /\ at["deposit"] <= at["deposit"]
  BY <1>2
<1> QED
  BY <1>3, <1>4, <1>5, <1>6, <1>7, <1>8, <1>9 DEF CustodyNext

----------------------------------------------------------------------------
(* Rows and chain *)

LEMMA ChainStays ==
  ASSUME CustodyInv, log' = log,
         \A w \in Withdrawals : row[w] \in Stored =>
             /\ row'[w] \in Stored /\ row'[w].nonce = row[w].nonce /\ row'[w].amount = row[w].amount,
         \A w \in Withdrawals : In(w, {"checked"})' => row'[w].saw >= row'[w].amount
  PROVE  ChainFollowed'
<1>1. Releases' = Releases /\ ContractNonce' = ContractNonce
  BY LogStays
<1>2. ASSUME NEW b \in Releases PROVE ReleaseKnown(b)'
  <2>1. ReleaseKnown(b) /\ log[b].of \in Withdrawals
    BY LogFacts DEF CustodyInv, ChainFollowed
  <2> QED BY <1>1, <2>1 DEF ReleaseKnown
<1>3. \A b, c \in Releases : log[b].of = log[c].of => b = c
  BY DEF CustodyInv, ChainFollowed
<1> QED BY <1>1, <1>2, <1>3 DEF ChainFollowed

\* A row is released once: its nonce is past then.
LEMMA ReleaseChain ==
  ASSUME CustodyInv, NEW w \in Withdrawals, Release(w)
  PROVE  /\ ChainFollowed'
         /\ Releases' = Releases \cup {Len(log) + 1} /\ Len(log) + 1 \notin Releases
         /\ \A b \in Releases : log'[b] = log[b]
         /\ log'[Len(log) + 1].of = w /\ log'[Len(log) + 1].amount = row[w].amount
<1> DEFINE e == [kind |-> "release", of |-> w, nonce |-> row[w].nonce, amount |-> row[w].amount]
<1>n. PICK n : n = Len(log) + 1
  OBVIOUS
<1>1. row[w] \in Stored /\ row[w].nonce \in Nat /\ row[w].amount \in Amounts
  BY HandedStored, RowFacts DEF CustodyInv, Release, Drawn
<1>2. e \in DepositEvents \cup ReleaseEvents /\ log' = Append(log, e) /\ e.kind = "release"
  BY <1>1 DEF Release, ReleaseEvents
<1>3. /\ Releases' = Releases \cup {n} /\ n \notin Releases
      /\ \A b \in 1 .. Len(log) : log'[b] = log[b]
      /\ log'[n] = e
  <2> HIDE DEF e
  <2> QED BY <1>2, <1>n, LogGrows DEF CustodyInv
<1>4. /\ Releases \subseteq 1 .. Len(log) /\ \A b \in Releases : log[b].of \in Withdrawals
      /\ IsFiniteSet(Releases) /\ ContractNonce \in Nat /\ \A b \in Releases : log[b].nonce \in Nat
  BY LogFacts, ReleasesFinite DEF CustodyInv
<1>5. ContractNonce' = ContractNonce + 1
  BY <1>3, <1>4, FS_AddElement DEF ContractNonce
<1>6. /\ log'[n].of = w /\ log'[n].nonce = row[w].nonce /\ log'[n].amount = row[w].amount
      /\ row[w].nonce = ContractNonce /\ row' = row
  <2>1. e.of = w /\ e.nonce = row[w].nonce /\ e.amount = row[w].amount
    OBVIOUS
  <2>2. row[w].nonce = ContractNonce /\ row' = row
    BY DEF Release
  <2> HIDE DEF e
  <2> QED BY <1>3, <2>1, <2>2
<1> HIDE DEF e
<1>7. ReleaseKnown(n)'
  BY <1>1, <1>4, <1>5, <1>6 DEF ReleaseKnown
<1>8. \A b \in Releases : log'[b] = log[b]
  BY <1>3, <1>4
<1>9. ASSUME NEW b \in Releases PROVE ReleaseKnown(b)' /\ log[b].of # w
  <2>1. ReleaseKnown(b)
    BY DEF CustodyInv, ChainFollowed
  <2>2. ReleaseKnown(b)'
    BY <1>4, <1>5, <1>6, <1>8, <2>1 DEF ReleaseKnown
  <2>3. log[b].of # w
    BY <1>4, <1>6, <2>1 DEF ReleaseKnown
  <2> QED BY <2>2, <2>3
<1>10. \A b, c \in Releases' : log'[b].of = log'[c].of => b = c
  BY <1>3, <1>6, <1>8, <1>9 DEF CustodyInv, ChainFollowed
<1>11. \A v \in Withdrawals : In(v, {"checked"})' => row'[v].saw >= row'[v].amount
  BY <1>6 DEF CustodyInv, ChainFollowed, In
<1> QED BY <1>n, <1>3, <1>6, <1>7, <1>8, <1>9, <1>10, <1>11 DEF ChainFollowed

LEMMA ChainSteps ==
  ASSUME CustodyInv, CustodyNext
  PROVE  ChainFollowed'
<1>i. CustodyShape /\ ChainFollowed
  BY DEF CustodyInv
<1>t. \A w \in Withdrawals : In(w, {"checked"}) => row[w].saw >= row[w].amount
  BY <1>i DEF ChainFollowed
<1>1. ASSUME NEW p \in Payments, PayIn(p) PROVE ChainFollowed'
  <2> DEFINE e == [kind |-> "deposit", from |-> p, tx |-> TxOf[p]]
  <2>1. e \in DepositEvents \cup ReleaseEvents /\ log' = Append(log, e) /\ e.kind # "release"
    BY <1>1 DEF PayIn, DepositEvents
  <2> HIDE DEF e
  <2>2. Releases' = Releases /\ \A b \in 1 .. Len(log) : log'[b] = log[b]
    BY <1>i, <2>1, LogGrows
  <2>3. \A b \in Releases : log'[b] = log[b]
    BY <1>i, <2>2, LogFacts
  <2>4. row' = row /\ ContractNonce' = ContractNonce
    BY <1>1, <2>2 DEF PayIn, ContractNonce
  <2> QED BY <1>i, <2>2, <2>3, <2>4 DEF ChainFollowed, ReleaseKnown, In
<1>2. ASSUME NEW w \in Withdrawals, Release(w) PROVE ChainFollowed'
  BY <1>2, ReleaseChain
<1>3. ASSUME NEW w \in Withdrawals, Expires(w) PROVE ChainFollowed'
  <2>1. row[w] \in Drawn /\ row[w] \in Stored /\ w \in DOMAIN row
    BY <1>3, <1>i, HandedStored, RowFacts DEF Expires, CustodyShape
  <2>2. row'[w] = RunOut(row[w]) /\ \A v \in Withdrawals \ {w} : row'[v] = row[v]
    BY <1>3, <2>1, <1>i DEF Expires, RunOut, CustodyShape
  <2>3. row'[w] \in Stored /\ row'[w].nonce = row[w].nonce /\ row'[w].amount = row[w].amount
        /\ row'[w].status # "checked"
    BY <2>1, <2>2, ExpiryWritten DEF Stored
  <2>4. log' = log
    BY <1>3 DEF Expires
  <2> QED BY <1>t, <2>2, <2>3, <2>4, ChainStays DEF In
<1>4. ASSUME NEW w \in Withdrawals, NEW q \in Amounts, CheckAndSign(w, q) PROVE ChainFollowed'
  <2>1. row[w] \notin Stored /\ w \in DOMAIN row
    BY <1>4, <1>i, RowFacts DEF CheckAndSign, In, CustodyShape
  <2>2. /\ row'[w].saw >= row'[w].amount /\ \A v \in Withdrawals \ {w} : row'[v] = row[v]
        /\ log' = log
    BY <1>4, <1>i, <2>1, CustodyAssumption DEF CheckAndSign, CustodyShape, Withdrawable
  <2> QED BY <1>t, <2>1, <2>2, ChainStays DEF In
<1>5. ASSUME NEW w \in Withdrawals, FreezeAndStore(w) PROVE ChainFollowed'
  <2>1. row[w] \in Drawn /\ row[w] \notin Stored
    BY <1>5, <1>i, RowFacts DEF FreezeAndStore, Stored, In
  <2>2. /\ row'[w] \in Stored /\ \A v \in Withdrawals \ {w} : row'[v] = row[v]
        /\ log' = log
    BY <1>5, <1>i, <2>1, StatusStep DEF FreezeAndStore
  <2> QED BY <1>t, <2>1, <2>2, ChainStays DEF In, Stored
<1>6. ASSUME NEW w \in Withdrawals, NEW what \in {"cancel", "confirm"}, UserReads(w, what) PROVE ChainFollowed'
  <2>1. log' = log /\ row' = row
    BY <1>6 DEF UserReads
  <2> QED BY <1>t, <2>1, ChainStays DEF In
<1>7. ASSUME NEW w \in Withdrawals, Cancel(w) \/ Submit(w) \/ Expire(w) PROVE ChainFollowed'
  <2>1. row[w] \in Stored
    BY <1>7, <1>i DEF Cancel, Submit, Expire, CustodyShape
  <2>2. row[w] \in Drawn
    BY <2>1, <1>i, RowFacts
  <2>3. /\ row'[w] \in Stored /\ row'[w].nonce = row[w].nonce /\ row'[w].amount = row[w].amount
        /\ \A v \in Withdrawals \ {w} : row'[v] = row[v]
    <3>1. \E s \in {"cancelled", "submitted", "expired"} : row' = [row EXCEPT ![w].status = s]
      BY <1>7 DEF Cancel, Submit, Expire
    <3> QED BY <1>i, <3>1, <2>2, StatusStep
  <2>4. log' = log
    BY <1>7 DEF Cancel, Submit, Expire
  <2> QED BY <1>t, <2>3, <2>4, ChainStays DEF In, Stored
<1>8. ASSUME ScanRelease, Next1("release").kind = "release" PROVE ChainFollowed'
  <2> DEFINE e == Next1("release")
  <2>1. ASSUME NEW w \in Withdrawals, w \in Confirms(e)
        PROVE  /\ row'[w] \in Stored /\ row'[w].nonce = row[w].nonce /\ row'[w].amount = row[w].amount
    <3>1. row[w] \in Drawn
      BY <2>1, <1>i, RowFacts DEF Confirms, PendingStates
    <3>2. row'[w] = Restated(row[w], "confirmed")
      BY <1>8, <2>1 DEF ScanRelease, Restated
    <3> QED BY <3>1, <3>2, StatusWritten
  <2>2. ASSUME NEW w \in Withdrawals, w \notin Confirms(e)
        PROVE  row'[w] = row[w]
    BY <1>8, <2>2 DEF ScanRelease
  <2>3. log' = log
    BY <1>8 DEF ScanRelease
  <2>4. \A w \in Withdrawals : In(w, {"checked"})' => row'[w] = row[w]
    BY <2>1, <2>2 DEF In, Stored
  <2> HIDE DEF e
  <2> QED BY <1>t, <2>1, <2>2, <2>3, <2>4, ChainStays DEF In
<1>9. ASSUME UNCHANGED <<log, row>> PROVE ChainFollowed'
  BY <1>t, <1>9, ChainStays DEF In
<1>10. ASSUME \/ ListOverdue \/ ScanDeposit \/ DepositFails \/ ReleaseFails
              \/ ScanRelease /\ Next1("release").kind # "release"
              \/ \E kind \in DOMAIN at : Save(kind) \/ Rewind(kind)
       PROVE  UNCHANGED <<log, row>>
  BY <1>10 DEF ListOverdue, ScanDeposit, DepositFails, ScanRelease, ReleaseFails, Save, Rewind
<1> QED
  BY <1>1, <1>2, <1>3, <1>4, <1>5, <1>6, <1>7, <1>8, <1>9, <1>10 DEF CustodyNext

----------------------------------------------------------------------------
(* The account *)

\* Nothing was released, and nothing scanned.
LEMMA ReleasesStay ==
  ASSUME Releases' = Releases, done' = done, \A b \in Releases : log'[b] = log[b]
  PROVE  PaidOut' = PaidOut /\ Unscanned' = Unscanned
<1>1. [b \in Releases' |-> log'[b].amount] = [b \in Releases |-> log[b].amount]
  OBVIOUS
<1>2. [b \in Releases' \ done' |-> log'[b].amount] = [b \in Releases \ done |-> log[b].amount]
  OBVIOUS
<1> QED BY <1>1, <1>2 DEF PaidOut, Unscanned

\* A release was added that nobody has scanned.
LEMMA ReleaseAdds ==
  ASSUME CustodyShape, NEW n, n \notin Releases, Releases' = Releases \cup {n}, done' = done,
         \A b \in Releases : log'[b] = log[b], NEW a \in Nat, log'[n].amount = a
  PROVE  PaidOut' = PaidOut + a /\ Unscanned' = Unscanned + a
<1> DEFINE f == [b \in Releases |-> log[b].amount]
           F == [b \in Releases \cup {n} |-> log'[b].amount]
           g == [b \in Releases \ done |-> log[b].amount]
           G == [b \in (Releases \cup {n}) \ done |-> log'[b].amount]
<1>1. IsFiniteSet(Releases) /\ IsFiniteSet(Releases \ done) /\ n \notin done
      /\ (Releases \cup {n}) \ done = (Releases \ done) \cup {n}
  BY ReleasesFinite DEF CustodyShape
<1>2. \A b \in Releases : log[b].amount \in Int
  BY LogFacts
<1>3. /\ \A b \in Releases \cup {n} : F[b] \in Int
      /\ \A b \in Releases : f[b] = F[b]
      /\ F[n] = a
  BY <1>2
<1>4. /\ \A b \in (Releases \ done) \cup {n} : G[b] \in Int
      /\ \A b \in Releases \ done : g[b] = G[b]
      /\ G[n] = a
  BY <1>1, <1>2
<1>5. /\ PaidOut = SumFunctionOnSet(f, Releases)
      /\ PaidOut' = SumFunctionOnSet(F, Releases \cup {n})
      /\ Unscanned = SumFunctionOnSet(g, Releases \ done)
      /\ Unscanned' = SumFunctionOnSet(G, (Releases \cup {n}) \ done)
  BY DEF PaidOut, Unscanned, SumFunction
<1> HIDE DEF f, F, g, G
<1>6. PaidOut' = PaidOut + a
  BY <1>1, <1>3, <1>5, SumGrow
<1>7. Unscanned' = Unscanned + a
  <2>1. SumFunctionOnSet(G, (Releases \ done) \cup {n}) = SumFunctionOnSet(g, Releases \ done) + G[n]
    BY <1>1, <1>4, SumGrow
  <2> QED BY <1>1, <1>4, <1>5, <2>1
<1> QED BY <1>6, <1>7

\* A release was scanned.
LEMMA ReleaseDone ==
  ASSUME CustodyShape, NEW n \in Releases \ done, log' = log, done' = done \cup {n}
  PROVE  PaidOut' = PaidOut /\ Unscanned' = Unscanned - log[n].amount
<1> DEFINE S == Releases \ (done \cup {n})
           g == [b \in S |-> log[b].amount]
           h == [b \in Releases \ done |-> log[b].amount]
<1>1. Releases' = Releases /\ PaidOut' = PaidOut
  BY LogStays DEF PaidOut
<1>2. IsFiniteSet(S) /\ n \notin S /\ Releases \ done = S \cup {n}
  BY ReleasesFinite, FS_Subset
<1>3. /\ \A b \in S \cup {n} : h[b] \in Int
      /\ \A b \in S : g[b] = h[b] /\ g[b] \in Int
      /\ h[n] = log[n].amount
  BY <1>2, LogFacts
<1>4. /\ Unscanned = SumFunctionOnSet(h, Releases \ done)
      /\ Unscanned' = SumFunctionOnSet(g, S)
  BY <1>1 DEF Unscanned, SumFunction
<1> HIDE DEF S, g, h
<1>5. SumFunctionOnSet(h, S \cup {n}) = SumFunctionOnSet(g, S) + h[n] /\ SumFunctionOnSet(g, S) \in Int
  BY <1>2, <1>3, SumGrow, SumInt
<1>6. PICK a \in Int : h[n] = a
  BY <1>3
<1>7. Unscanned = Unscanned' + a /\ Unscanned' \in Int
  BY <1>2, <1>4, <1>5, <1>6
<1>8. Unscanned' = Unscanned - a
  <2>1. PICK u \in Int : Unscanned' = u
    BY <1>7
  <2>2. PICK v : Unscanned = v
    OBVIOUS
  <2>3. v = u + a
    BY <1>7, <2>1, <2>2
  <2>4. u = v - a
    BY <2>3
  <2> QED BY <2>1, <2>2, <2>4
<1> QED BY <1>1, <1>3, <1>6, <1>8

\* The chain stays and no scan; the account may move.
AccountEven == purse + PendingSum + PaidOut = PaymentSize * Cardinality(recorded) + Unscanned

LEMMA AccountParts ==
  ASSUME CustodyInv, astray = {}
  PROVE  /\ \A b \in Releases \ done : In(log[b].of, PendingStates)
         /\ locked = OtherLocks + PendingSum /\ purse >= 0 /\ AccountEven
         /\ purse \in Int /\ locked \in Int /\ PendingSum \in Nat /\ PaidOut \in Nat /\ Unscanned \in Nat
         /\ PaymentSize * Cardinality(recorded) \in Int /\ OtherLocks \in Nat
<1>1. CustodyShape
  BY DEF CustodyInv
<1> QED
  BY <1>1, PendingSums, ReleasesFinite, RecordedFinite, CustodyAssumption
  DEF CustodyInv, AccountKept, AccountEven, CustodyShape

LEMMA AccountSteps ==
  ASSUME CustodyInv, CustodyNext, CustodyShape'
  PROVE  AccountKept'
<1> SUFFICES ASSUME astray' = {} PROVE AccountKept'
  BY DEF AccountKept
<1>a. astray = {}
  BY DEF CustodyNext, PayIn, Release, Expires, FreezeAndStore, Cancel, Submit, Expire, CheckAndSign,
         UserReads, ListOverdue, ScanDeposit, DepositFails, ScanRelease, ReleaseFails, Save, Rewind, Slipped
<1>i. CustodyShape /\ ChainFollowed
  BY DEF CustodyInv
<1>k. /\ \A b \in Releases \ done : In(log[b].of, PendingStates)
      /\ locked = OtherLocks + PendingSum /\ purse >= 0 /\ AccountEven
      /\ purse \in Int /\ locked \in Int /\ PendingSum \in Nat /\ PaidOut \in Nat /\ Unscanned \in Nat
      /\ PaymentSize * Cardinality(recorded) \in Int /\ OtherLocks \in Nat
  BY <1>a, AccountParts
<1>r. \A w \in Withdrawals : row[w] \in Drawn \cup {NoRow}
  BY <1>i DEF CustodyShape
<1>d. ASSUME Releases' = Releases, done' = done, \A b \in Releases : log'[b] = log[b],
             \A b \in Releases \ done : In(log[b].of, PendingStates)',
             recorded' = recorded, purse' \in Int, purse' >= 0,
             locked' = OtherLocks + PendingSum', purse' + PendingSum' = purse + PendingSum,
             PendingSum' \in Nat
      PROVE  AccountKept'
  <2>1. PaidOut' = PaidOut /\ Unscanned' = Unscanned
    BY <1>d, ReleasesStay
  <2>2. purse' + PendingSum' + PaidOut' = PaymentSize * Cardinality(recorded') + Unscanned'
    BY <1>d, <1>k, <2>1 DEF AccountEven
  <2> QED BY <1>d, <2>2 DEF AccountKept
<1>1. ASSUME NEW p \in Payments, PayIn(p) PROVE AccountKept'
  <2> DEFINE e == [kind |-> "deposit", from |-> p, tx |-> TxOf[p]]
  <2>1. e \in DepositEvents \cup ReleaseEvents /\ log' = Append(log, e) /\ e.kind # "release"
    BY <1>1 DEF PayIn, DepositEvents
  <2> HIDE DEF e
  <2>2. Releases' = Releases /\ \A b \in 1 .. Len(log) : log'[b] = log[b]
    BY <1>i, <2>1, LogGrows
  <2>3. \A b \in Releases : log'[b] = log[b]
    BY <1>i, <2>2, LogFacts
  <2>4. PendingSum' = PendingSum
    BY <1>1 DEF PayIn, PendingSum, PendingRows, In
  <2> QED BY <1>1, <1>d, <1>k, <2>2, <2>3, <2>4 DEF PayIn, In
<1>2. ASSUME NEW w \in Withdrawals, Release(w) PROVE AccountKept'
  <2>0. PICK n : n = Len(log) + 1
    OBVIOUS
  <2>1. /\ Releases' = Releases \cup {n} /\ n \notin Releases
        /\ \A b \in Releases : log'[b] = log[b]
        /\ log'[n].of = w /\ log'[n].amount = row[w].amount
    BY <1>2, <2>0, ReleaseChain
  <2>2. PICK a \in Nat : row[w].amount = a
    BY <1>2, <1>i, HandedStored, RowFacts DEF Release
  <2>3. PaidOut' = PaidOut + a /\ Unscanned' = Unscanned + a
    BY <1>2, <1>i, <2>1, <2>2, ReleaseAdds DEF Release
  <2>4. PendingSum' = PendingSum
    BY <1>2 DEF Release, PendingSum, PendingRows, In
  <2>5. \A b \in Releases' \ done' : In(log[b].of, PendingStates)'
    BY <1>2, <1>k, <2>1 DEF Release, Slipped, Named, In, PendingStates
  <2>6. purse' + PendingSum' + PaidOut' = PaymentSize * Cardinality(recorded') + Unscanned'
    <3>1. recorded' = recorded /\ purse' = purse
      BY <1>2 DEF Release
    <3> QED BY <1>k, <2>3, <2>4, <3>1 DEF AccountEven
  <2> QED BY <1>2, <1>k, <2>4, <2>5, <2>6 DEF Release, AccountKept
<1>3. ASSUME NEW w \in Withdrawals, Expires(w) PROVE AccountKept'
  <2>1. row[w] \in Drawn
    BY <1>3, <1>i, HandedStored, RowFacts DEF Expires
  <2>2. row'[w] = RunOut(row[w]) /\ \A v \in Withdrawals \ {w} : row'[v] = row[v]
    BY <1>3, <1>i DEF Expires, RunOut, CustodyShape
  <2>3. row'[w].status = row[w].status /\ row'[w].amount = row[w].amount
    BY <2>1, <2>2, ExpiryWritten
  <2>4. PendingSum' = PendingSum
    BY <2>2, <2>3, PendingStays
  <2>5. \A b \in Releases \ done : In(log[b].of, PendingStates)'
    BY <1>i, <1>3, <1>k, <2>2, <2>3, LogFacts DEF In, Expires
  <2> QED BY <1>3, <1>d, <1>k, <2>4, <2>5, LogStays DEF Expires
<1>4. ASSUME NEW w \in Withdrawals, NEW q \in Amounts, CheckAndSign(w, q) PROVE AccountKept'
  <2>1. /\ row'[w].status = "checked" /\ row[w].status = "none"
        /\ \A v \in Withdrawals \ {w} : row'[v] = row[v]
    BY <1>4, <1>i DEF CheckAndSign, CustodyShape, In
  <2>2. PendingSum' = PendingSum
    BY <2>1, PendingStays DEF PendingStates
  <2>3. \A b \in Releases \ done : In(log[b].of, PendingStates)'
    BY <1>4, <1>i, <1>k, <2>1, LogFacts DEF In, PendingStates, CheckAndSign
  <2> QED BY <1>4, <1>d, <1>k, <2>2, <2>3, LogStays DEF CheckAndSign
<1>5. ASSUME NEW w \in Withdrawals, FreezeAndStore(w) PROVE AccountKept'
  <2>1. row[w] \in Drawn /\ row[w].amount \in Nat /\ row[w].saw \in Int /\ row[w].saw >= row[w].amount
    BY <1>5, <1>i, RowFacts DEF FreezeAndStore, ChainFollowed
  <2>2. /\ row'[w].status = "signed" /\ row[w].status = "checked" /\ row'[w].amount = row[w].amount
        /\ \A v \in Withdrawals \ {w} : row'[v] = row[v]
    BY <1>5, <1>i, <2>1, StatusStep DEF FreezeAndStore, In
  <2>3. PICK a \in Nat : row[w].amount = a
    BY <2>1
  <2>4. PendingSum' = PendingSum + a
    BY <1>i, <2>2, <2>3, PendingJoins DEF In, PendingStates
  <2>5. purse >= a
    <3>1. ~(purse # row[w].saw /\ purse < a)
      BY <1>5, <2>3 DEF FreezeAndStore, Slipped, Named
    <3> QED BY <3>1, <2>1, <2>3, <1>k
  <2>6. \A b \in Releases \ done : In(log[b].of, PendingStates)'
    BY <1>5, <1>i, <1>k, <2>2, LogFacts DEF In, PendingStates, FreezeAndStore
  <2>7. purse' = purse - a /\ locked' = locked + a /\ log' = log /\ done' = done /\ recorded' = recorded
    BY <1>5, <2>3 DEF FreezeAndStore
  <2> QED BY <1>d, <1>k, <2>4, <2>5, <2>6, <2>7, LogStays
<1>6. ASSUME UNCHANGED <<log, row, done, recorded, purse, locked>> PROVE AccountKept'
  <2>1. PendingSum' = PendingSum
    BY <1>6 DEF PendingSum, PendingRows, In
  <2> QED BY <1>6, <1>d, <1>k, <2>1, LogStays DEF In
\* What is unlocked was pending, and was not released.
<1>7. ASSUME NEW w \in Withdrawals, Cancel(w) \/ Expire(w) PROVE AccountKept'
  <2>1. row[w] \in Stored
    BY <1>7, <1>i DEF Cancel, Expire, CustodyShape
  <2>2. row[w] \in Drawn /\ row[w].amount \in Nat
    BY <2>1, <1>i, RowFacts
  <2>3. PICK a \in Nat : row[w].amount = a
    BY <2>2
  <2>4. /\ row'[w].status \in {"cancelled", "expired"} /\ \A v \in Withdrawals \ {w} : row'[v] = row[v]
    <3>1. \E s \in {"cancelled", "expired"} : row' = [row EXCEPT ![w].status = s]
      BY <1>7 DEF Cancel, Expire
    <3> QED BY <1>i, <3>1, <2>2, StatusStep
  <2>5. In(w, {"signed"}) /\ ~ReleasedOnChain(w)
    <3>1. CASE Cancel(w)
      BY <3>1 DEF Cancel, Slipped, Named
    <3>2. CASE Expire(w)
      BY <3>2 DEF Expire, Slipped, Named
    <3> QED BY <1>7, <3>1, <3>2
  <2>6. PendingSum' = PendingSum - a /\ a <= PendingSum
    BY <1>i, <2>3, <2>4, <2>5, PendingLeaves DEF In, PendingStates
  <2>7. \A b \in Releases \ done : In(log[b].of, PendingStates)'
    BY <1>7, <1>i, <1>k, <2>4, <2>5, LogFacts DEF In, ReleasedOnChain, Cancel, Expire
  <2>8. purse' = purse + a /\ locked' = locked - a /\ log' = log /\ done' = done /\ recorded' = recorded
    BY <1>7, <2>3 DEF Cancel, Expire, Unlock
  <2> QED BY <1>d, <1>k, <2>6, <2>7, <2>8, LogStays
<1>8. ASSUME NEW w \in Withdrawals, Submit(w) PROVE AccountKept'
  <2>1. row[w] \in Stored
    BY <1>8, <1>i DEF Submit, CustodyShape
  <2>2. row[w] \in Drawn
    BY <2>1, <1>i, RowFacts
  <2>3. /\ row'[w].status = "submitted" /\ row'[w].amount = row[w].amount
        /\ \A v \in Withdrawals \ {w} : row'[v] = row[v]
    BY <1>8, <1>i, <2>2, StatusStep DEF Submit
  <2>4. row[w].status = "signed"
    BY <1>8 DEF Submit, Slipped, Named, In
  <2>5. PendingSum' = PendingSum
    BY <2>3, <2>4, PendingStays DEF PendingStates
  <2>6. \A b \in Releases \ done : In(log[b].of, PendingStates)'
    BY <1>8, <1>i, <1>k, <2>3, LogFacts DEF In, PendingStates, Submit
  <2> QED BY <1>8, <1>d, <1>k, <2>5, <2>6, LogStays DEF Submit
<1>9. ASSUME ScanDeposit PROVE AccountKept'
  <2>0. log' = log /\ row' = row /\ done' = done /\ locked' = locked /\ PendingSum' = PendingSum
    BY <1>9 DEF ScanDeposit, PendingSum, PendingRows, In
  <2>1. CASE Next1("deposit").kind = "deposit" /\ IsFresh(Next1("deposit"))
    <3>1. PICK t : recorded' = recorded \cup {t} /\ t \notin recorded /\ purse' = purse + PaymentSize
      BY <1>9, <2>1 DEF ScanDeposit, IsFresh
    <3>2. Cardinality(recorded') = Cardinality(recorded) + 1 /\ Cardinality(recorded) \in Nat
      BY <1>i, <3>1, RecordedFinite, FS_AddElement
    <3>3. PaymentSize * Cardinality(recorded') = PaymentSize * Cardinality(recorded) + PaymentSize
      BY <3>2, TimesSum, CustodyAssumption
    <3>4. PaidOut' = PaidOut /\ Unscanned' = Unscanned /\ Releases' = Releases
      BY <2>0, ReleasesStay, LogStays
    <3>5. purse' + PendingSum' + PaidOut' = PaymentSize * Cardinality(recorded') + Unscanned' /\ purse' >= 0
      BY <1>k, <2>0, <3>1, <3>3, <3>4, CustodyAssumption DEF AccountEven
    <3> QED BY <1>k, <2>0, <3>4, <3>5 DEF AccountKept, In
  <2>2. CASE ~(Next1("deposit").kind = "deposit" /\ IsFresh(Next1("deposit")))
    BY <1>9, <1>6, <2>0, <2>2 DEF ScanDeposit
  <2> QED BY <2>1, <2>2
\* A release finds its own row pending, and no other row with its nonce.
<1>10. ASSUME ScanRelease, Next1("release").kind = "release" PROVE AccountKept'
  <2>1. PICK n : n = at["release"] + 1
    OBVIOUS
  <2>2. n \in Releases /\ Next1("release") = log[n]
    BY <1>10, <1>i, <2>1, LogFacts DEF ScanRelease, Next1, Releases, CustodyShape, Listeners
  <2>3. PICK w \in Withdrawals : log[n].of = w
    BY <1>i, <2>2, LogFacts
  <2>4. PICK a \in Nat : log[n].amount = a
    BY <1>i, <2>2, LogFacts
  <2>5. n \notin done /\ Confirms(log[n]) \subseteq {w}
    BY <1>10, <2>1, <2>2, <2>3 DEF ScanRelease, Slipped, Named
  <2>6. In(w, PendingStates) /\ row[w].nonce = log[n].nonce /\ row[w].amount = a /\ row[w] \in Drawn
    BY <1>k, <1>i, <2>2, <2>3, <2>4, <2>5, RowFacts DEF ChainFollowed, ReleaseKnown
  <2>7. Confirms(log[n]) = {w}
    BY <2>3, <2>5, <2>6 DEF Confirms, In, PendingStates
  <2>8. row'[w].status = "confirmed" /\ \A v \in Withdrawals \ {w} : row'[v] = row[v]
    <3>1. row'[w] = Restated(row[w], "confirmed") /\ \A v \in Withdrawals \ {w} : row'[v] = row[v]
      BY <1>10, <2>2, <2>7 DEF ScanRelease, Restated
    <3> QED BY <2>6, <3>1, StatusWritten
  <2>9. PendingSum' = PendingSum - a /\ a <= PendingSum
    BY <1>i, <2>6, <2>8, PendingLeaves DEF In, PendingStates
  <2>10. log' = log /\ done' = done \cup {n} /\ purse' = purse /\ recorded' = recorded
    BY <1>10, <2>1 DEF ScanRelease
  <2>11. PaidOut' = PaidOut /\ Unscanned' = Unscanned - a
    BY <1>i, <2>2, <2>4, <2>5, <2>10, ReleaseDone
  <2>12. locked' = locked - a
    <3>1. locked >= a
      BY <1>k, <2>9
    <3> QED BY <1>10, <2>2, <2>4, <3>1 DEF ScanRelease
  <2>13. \A b \in Releases' \ done' : In(log[b].of, PendingStates)'
    <3>1. \A b \in Releases \ done : b # n => log[b].of # w
      BY <1>i, <2>2, <2>3 DEF ChainFollowed
    <3> QED BY <1>i, <1>k, <2>8, <2>10, <3>1, LogStays, LogFacts DEF In
  <2>14. purse' + PendingSum' + PaidOut' = PaymentSize * Cardinality(recorded') + Unscanned'
    BY <1>k, <2>9, <2>10, <2>11 DEF AccountEven
  <2> QED BY <1>k, <2>9, <2>10, <2>12, <2>13, <2>14 DEF AccountKept
<1>11. ASSUME \/ ListOverdue \/ DepositFails \/ ReleaseFails
              \/ ScanRelease /\ Next1("release").kind # "release"
              \/ \E kind \in DOMAIN at : Save(kind) \/ Rewind(kind)
              \/ \E w \in Withdrawals : \E what \in {"cancel", "confirm"} : UserReads(w, what)
       PROVE  UNCHANGED <<log, row, done, recorded, purse, locked>>
  BY <1>11 DEF ListOverdue, DepositFails, ScanRelease, ReleaseFails, Save, Rewind, UserReads
<1> QED
  BY <1>1, <1>2, <1>3, <1>4, <1>5, <1>6, <1>7, <1>8, <1>9, <1>10, <1>11 DEF CustodyNext

----------------------------------------------------------------------------
LEMMA CustodyStarts == CustodyInit => CustodyInv
<1> SUFFICES ASSUME CustodyInit PROVE CustodyInv
  OBVIOUS
<1>1. Releases = {} /\ DOMAIN log = {} /\ Len(log) = 0 /\ log \in Seq(DepositEvents \cup ReleaseEvents)
  BY DEF CustodyInit, Releases
<1>2. PendingRows = {}
  BY DEF CustodyInit, PendingRows, In, NoRow
<1>3. CustodyShape
  BY <1>1, CustodyAssumption DEF CustodyInit, CustodyShape, Listeners
<1>4. ChainFollowed /\ EventsTrue
  BY <1>1 DEF CustodyInit, ChainFollowed, EventsTrue, In, NoRow
<1>5. DepositsFollowed
  BY DEF CustodyInit, DepositsFollowed
<1>6. PendingSum = 0 /\ PaidOut = 0 /\ Unscanned = 0
  <2>1. \A f : SumFunctionOnSet(f, {}) = 0
    BY SumEmpty
  <2> QED BY <1>1, <1>2, <2>1 DEF PendingSum, PaidOut, Unscanned, SumFunction
<1>7. Cardinality(recorded) = 0
  BY FS_EmptySet DEF CustodyInit
<1>8. AccountKept
  BY <1>1, <1>6, <1>7, CustodyAssumption DEF CustodyInit, AccountKept
<1> QED BY <1>3, <1>4, <1>5, <1>8 DEF CustodyInv

LEMMA CustodySteps == CustodyInv /\ [CustodyNext]_custodyVars => CustodyInv'
<1>1. ASSUME CustodyInv, CustodyNext PROVE CustodyInv'
  BY <1>1, ShapeSteps, ChainSteps, DepositsSteps, EventsTrueSteps, AccountSteps DEF CustodyInv
<1>2. ASSUME CustodyInv, UNCHANGED custodyVars PROVE CustodyInv'
  <2> USE DEF custodyVars, CustodyInv
  <2>1. Releases' = Releases /\ ContractNonce' = ContractNonce /\ PendingSum' = PendingSum
        /\ PaidOut' = PaidOut /\ Unscanned' = Unscanned
    BY <1>2 DEF Releases, ContractNonce, PendingSum, PendingRows, In, PaidOut, Unscanned
  <2>2. CustodyShape'
    BY <1>2, <2>1 DEF CustodyShape
  <2>3. ChainFollowed'
    BY <1>2, <2>1 DEF ChainFollowed, ReleaseKnown, In
  <2>4. DepositsFollowed' /\ EventsTrue'
    BY <1>2 DEF DepositsFollowed, DepositSeen, EventsTrue
  <2>5. AccountKept'
    BY <1>2, <2>1 DEF AccountKept, In
  <2> QED BY <2>2, <2>3, <2>4, <2>5
<1> QED BY <1>1, <1>2

\* As many deposits were paid as transactions were recorded, at least.
LEMMA PaidAtLeast ==
  ASSUME CustodyInv
  PROVE  PaymentSize * Cardinality(recorded) <= PaidIn /\ PaidIn \in Int
<1> DEFINE Paid == {p \in Payments : \E b \in DOMAIN log : log[b].kind = "deposit" /\ log[b].from = p}
           f == [t \in recorded |-> CHOOSE p \in Paid : TxOf[p] = t]
<1>1. \A t \in recorded : \E p \in Paid : TxOf[p] = t
  <2> SUFFICES ASSUME NEW t \in recorded PROVE \E p \in Paid : TxOf[p] = t
    OBVIOUS
  <2>1. PICK b \in DOMAIN log : log[b].kind = "deposit" /\ log[b].tx = t
    BY DEF CustodyInv, DepositsFollowed
  <2>2. log[b].from \in Payments /\ TxOf[log[b].from] = t
    BY <2>1, LogFacts DEF CustodyInv, EventsTrue, DepositEvents
  <2> QED BY <2>1, <2>2
<1>2. \A t \in recorded : f[t] \in Paid /\ TxOf[f[t]] = t
  BY <1>1
<1>3. f \in Injection(recorded, Paid)
  BY <1>2 DEF Injection, IsInjective
<1>4. IsFiniteSet(Paid) /\ Cardinality(Paid) \in Nat
  BY CustodyAssumption, FS_Subset, FS_CardinalityType
<1>5. Cardinality(recorded) <= Cardinality(Paid) /\ Cardinality(recorded) \in Nat
  BY <1>3, <1>4, FS_Injection, RecordedFinite DEF CustodyInv
<1>6. PaidIn = PaymentSize * Cardinality(Paid)
  BY DEF PaidIn
<1> HIDE DEF Paid
<1> QED
  <2>1. PICK m \in Nat, n \in Nat : m = Cardinality(recorded) /\ n = Cardinality(Paid)
    BY <1>4, <1>5
  <2>2. PICK k \in Nat : n = m + k
    <3>1. n - m \in Nat /\ n = m + (n - m)
      BY <1>5, <2>1
    <3> QED BY <3>1
  <2>3. PaymentSize * n = PaymentSize * m + PaymentSize * k /\ PaymentSize * k \in Nat /\ PaymentSize * m \in Int
    <3>1. PICK c \in Nat : PaymentSize = c
      BY CustodyAssumption
    <3>2. c * k \in Nat
      OBVIOUS
    <3>3. c * (m + k) = c * m + c * k /\ c * m \in Int
      BY TimesSum
    <3> QED BY <2>2, <3>1, <3>2, <3>3
  <2> QED BY <1>6, <2>1, <2>2, <2>3

\* The reserve vault's account agrees with the vault and with the rows of
\* requests: what is frozen is the pending rows, what is available is never
\* negative and backed by the vault, and every deposit behind the listener is
\* credited once - for any number of withdrawals and deposits, through cancels,
\* confirmations, expiry, listener errors and restarts, outside the named windows.
THEOREM CustodyKept == CustodySpec => []CustodyBalanced
<1>1. CustodyInv => CustodyBalanced
  <2> SUFFICES ASSUME CustodyInv PROVE CustodyBalanced
    OBVIOUS
  <2>i. CustodyShape
    BY DEF CustodyInv
  <2>1. CustodyTypeOK
    <3>1. \A w \in Withdrawals : row[w].status \in
              {"none", "checked", "signed", "submitted", "confirmed", "cancelled", "expired"}
      BY <2>i DEF CustodyShape, Drawn, NoRow
    <3> QED BY <2>i, <3>1 DEF CustodyTypeOK, CustodyShape
  <2>2. LockedIsPending
    BY DEF CustodyInv, AccountKept, LockedIsPending
  <2>3. PurseIsBacked
    <3> SUFFICES ASSUME astray = {} PROVE purse >= 0 /\ purse + PendingSum <= PaidIn - PaidOut + Unscanned
      BY DEF PurseIsBacked
    <3> QED BY AccountParts, PaidAtLeast DEF AccountEven
  <2>4. DepositsCredited
    <3>1. \A b \in 1 .. saved["deposit"] : b \in 1 .. at["deposit"]
      BY <2>i DEF CustodyShape, Listeners
    <3> QED BY <3>1 DEF CustodyInv, DepositsFollowed, DepositSeen, DepositsCredited
  <2> QED BY <2>1, <2>2, <2>3, <2>4 DEF CustodyBalanced
<1> QED BY <1>1, CustodyStarts, CustodySteps, PTL DEF CustodySpec
----------------------------------------------------------------------------
(* The spot vault *)

SlotT == [status : {"signed", "expired", "confirmed"}, amount : Nat \ {0}, old : BOOLEAN]
DepositBlocks == [kind : {"deposit"}, tx : Deposits]
ReleaseBlocks == [kind : {"release"}, nonce : Nat, amount : Nat \ {0}]
BlockT == DepositBlocks \cup ReleaseBlocks \cup {Empty}
AskedT == [pc : {"new", "done"}] \cup [pc : {"tx"}, nonce : Nat, amount : WithdrawSizes]
SlotTable(sl) == DOMAIN sl \subseteq Nat /\ IsFiniteSet(DOMAIN sl) /\ sl \in [DOMAIN sl -> SlotT]

\* Shapes; a batch reaches final blocks only.
VaultShape ==
    /\ chain \in Seq(BlockT) /\ SlotTable(slots)
    /\ signatures \subseteq [nonce : Nat, amount : Nat \ {0}, dead : BOOLEAN]
    /\ \A s \in signatures : s.nonce \in DOMAIN slots
    /\ credited \subseteq Deposits /\ missed \subseteq Nat
    /\ free \in Nat /\ held \in Int /\ asked \in [Requests -> AskedT]
    /\ inCursor \in Nat /\ outCursor \in Nat /\ inTo \in Nat /\ outTo \in Nat
    /\ inCursor <= inTo /\ (inTo = 0 \/ inTo <= Target)
    /\ outCursor <= outTo /\ (outTo = 0 \/ outTo <= Target)

\* The contract counts its releases.
NoncesCount ==
    \A b \in Blocks : IsRelease(chain[b]) =>
        chain[b].nonce = Cardinality({c \in 1 .. b - 1 : IsRelease(chain[c])})

\* A release on the chain, final or not, is a row as it was signed, pending or
\* confirmed, unless it was missed.
HasRow(e) ==
    /\ e.nonce \in DOMAIN slots
    /\ e.nonce \notin missed => /\ slots[e.nonce].status \in {"signed", "confirmed"}
                                /\ slots[e.nonce].amount = e.amount
RowsKnown == \A b \in Blocks : IsRelease(chain[b]) => HasRow(chain[b])

\* Each event up to the batch's end is booked or in the batch; what was credited
\* is final.
DepositsInHand ==
    /\ \A x \in inBatch : x.block \in inCursor + 1 .. inTo /\ x = At(x.block) /\ IsDeposit(chain[x.block])
    /\ \A b \in 1 .. inTo : IsDeposit(chain[b]) =>
          chain[b].tx \in credited \/ (b > inCursor /\ At(b) \in inBatch)
    /\ \A d \in credited : \E b \in 1 .. Target : IsDeposit(chain[b]) /\ chain[b].tx = d
ReleasesInHand ==
    /\ \A x \in outBatch : x.block \in outCursor + 1 .. outTo /\ x = At(x.block) /\ IsRelease(chain[x.block])
    /\ \A b \in 1 .. outTo : IsRelease(chain[b]) =>
          \/ chain[b].nonce \in missed \/ slots[chain[b].nonce].status = "confirmed"
          \/ (b > outCursor /\ At(b) \in outBatch)

\* To the unit: what was credited is free, held for a signed row or paid out.
CreditedSum == SumFunctionOnSet([d \in credited |-> Worth[d]], credited)
BooksKept ==
    missed = {} => /\ held = SumWithStatus({"signed"})
                   /\ free + SumWithStatus({"signed", "confirmed"}) = CreditedSum

VaultInv ==
    VaultShape /\ NoncesCount /\ RowsKnown /\ DepositsInHand /\ ReleasesInHand /\ BooksKept

----------------------------------------------------------------------------
(* Sums and maxima *)

\* A maximum, where there is one, is a member.
LEMMA MaxExists ==
  ASSUME NEW S \in SUBSET Nat, S # {}, IsFiniteSet(S)
  PROVE  Max(S) \in S /\ Max(S) \in Nat
<1> DEFINE g == [x \in S |-> x]
           U == {n \in Nat : \A x \in S : x <= n}
<1>1. SumFunctionOnSet(g, S) \in U
  <2>1. \A x \in S : g[x] \in Nat /\ g[x] = x
    OBVIOUS
  <2>2. SumFunctionOnSet(g, S) \in Nat /\ \A x \in S : g[x] <= SumFunctionOnSet(g, S)
    <3> HIDE DEF g
    <3> QED BY <2>1, SumNat
  <2> HIDE DEF g
  <2> QED BY <2>1, <2>2
<1>2. PICK m \in U : \A k \in U : m <= k
  <2>1. U \in SUBSET Nat /\ U # {}
    BY <1>1
  <2> HIDE DEF U
  <2> QED BY <2>1, LeastNat
<1>3. m \in S
  <2> SUFFICES ASSUME m \notin S PROVE FALSE
    OBVIOUS
  <2>1. \A x \in S : x <= m - 1
    BY <1>2
  <2>2. m - 1 \in Nat
    <3>1. PICK x \in S : TRUE
      OBVIOUS
    <3> QED BY <2>1, <3>1
  <2>3. m - 1 \in U
    BY <2>1, <2>2
  <2> QED BY <1>2, <2>3
<1>4. \A x \in S : m >= x
  BY <1>2
<1>5. \E x \in S : \A y \in S : x >= y
  BY <1>3, <1>4
<1> QED BY <1>5 DEF Max

\* The sum over the rows of some statuses, for any table.
RowsIn(sl, S) == {n \in DOMAIN sl : sl[n].status \in S}
SumIn(sl, S) == SumFunctionOnSet([n \in RowsIn(sl, S) |-> sl[n].amount], RowsIn(sl, S))

LEMMA SumInIs ==
  ASSUME NEW S PROVE SumWithStatus(S) = SumIn(slots, S) /\ SumWithStatus(S)' = SumIn(slots', S)
BY DEF SumWithStatus, SumIn, RowsIn, WithStatus, SumFunction

LEMMA SumInNat ==
  ASSUME NEW sl, SlotTable(sl), NEW S
  PROVE  SumIn(sl, S) \in Nat /\ IsFiniteSet(RowsIn(sl, S)) /\ \A n \in RowsIn(sl, S) : sl[n].amount \in Nat
<1> DEFINE g == [n \in RowsIn(sl, S) |-> sl[n].amount]
<1>1. IsFiniteSet(RowsIn(sl, S))
  BY FS_Subset DEF SlotTable, RowsIn
<1>2. \A n \in RowsIn(sl, S) : g[n] \in Nat /\ sl[n].amount \in Nat
  BY DEF SlotTable, RowsIn, SlotT
<1>3. SumIn(sl, S) = SumFunctionOnSet(g, RowsIn(sl, S))
  BY DEF SumIn
<1> HIDE DEF g
<1> QED BY <1>1, <1>2, <1>3, SumNat

LEMMA SumInJoins ==
  ASSUME NEW sl, NEW tl, SlotTable(sl), SlotTable(tl), NEW S, NEW n,
         n \notin RowsIn(sl, S), RowsIn(tl, S) = RowsIn(sl, S) \cup {n},
         \A m \in RowsIn(sl, S) : tl[m].amount = sl[m].amount
  PROVE  SumIn(tl, S) = SumIn(sl, S) + tl[n].amount
<1> DEFINE g == [m \in RowsIn(sl, S) |-> sl[m].amount]
           h == [m \in RowsIn(tl, S) |-> tl[m].amount]
           R == RowsIn(sl, S)
<1>1. IsFiniteSet(R) /\ \A m \in RowsIn(tl, S) : tl[m].amount \in Nat
  BY SumInNat
<1>2. (\A m \in R \cup {n} : h[m] \in Int) /\ (\A m \in R : g[m] = h[m]) /\ h[n] = tl[n].amount
  BY <1>1
<1>3. SumIn(sl, S) = SumFunctionOnSet(g, R) /\ SumIn(tl, S) = SumFunctionOnSet(h, R \cup {n})
  BY DEF SumIn
<1>4. n \notin R
  OBVIOUS
<1> HIDE DEF g, h, R
<1> QED BY <1>1, <1>2, <1>3, <1>4, SumGrow

LEMMA SumInStays ==
  ASSUME NEW sl, NEW tl, NEW S, RowsIn(tl, S) = RowsIn(sl, S),
         \A m \in RowsIn(sl, S) : tl[m].amount = sl[m].amount
  PROVE  SumIn(tl, S) = SumIn(sl, S)
<1>1. [m \in RowsIn(tl, S) |-> tl[m].amount] = [m \in RowsIn(sl, S) |-> sl[m].amount]
  OBVIOUS
<1> QED BY <1>1 DEF SumIn

----------------------------------------------------------------------------
(* The chain *)

LEMMA BlockFacts ==
  ASSUME NEW e \in BlockT
  PROVE  /\ IsDeposit(e) => e.tx \in Deposits /\ ~IsRelease(e)
         /\ IsRelease(e) => e.nonce \in Nat /\ e.amount \in Nat \ {0}
         /\ ~IsDeposit(Empty) /\ ~IsRelease(Empty)
BY DEF BlockT, DepositBlocks, ReleaseBlocks, Empty, IsDeposit, IsRelease

LEMMA ChainFacts ==
  ASSUME VaultShape
  PROVE  /\ Len(chain) \in Nat /\ DOMAIN chain = Blocks /\ Blocks = 1 .. Len(chain)
         /\ \A b \in Blocks : chain[b] \in BlockT
         /\ Target \in Int /\ Target <= Len(chain) /\ 1 .. Target \subseteq Blocks
         /\ 1 .. inTo \subseteq 1 .. Target /\ 1 .. outTo \subseteq 1 .. Target
         /\ 1 .. inCursor \subseteq 1 .. inTo /\ 1 .. outCursor \subseteq 1 .. outTo
<1>1. Len(chain) \in Nat /\ DOMAIN chain = 1 .. Len(chain)
  BY LenProperties DEF VaultShape
<1>2. \A b \in 1 .. Len(chain) : chain[b] \in BlockT
  BY ElementOfSeq DEF VaultShape
<1> QED BY <1>1, <1>2, VaultAssumption DEF VaultShape, Blocks, Target

\* An operator for the two ways in which the chain changes.
Grows(e) == chain' = Append(chain, e)
Shrinks(b) == chain' = [c \in Blocks |-> IF c < b THEN chain[c] ELSE Empty]

LEMMA GrownChain ==
  ASSUME VaultShape, NEW e \in BlockT, Grows(e)
  PROVE  /\ chain' \in Seq(BlockT) /\ Len(chain') = Len(chain) + 1 /\ Blocks' = Blocks \cup {Len(chain) + 1}
         /\ Len(chain) + 1 \notin Blocks
         /\ \A b \in Blocks : chain'[b] = chain[b]
         /\ chain'[Len(chain) + 1] = e
<1>1. chain \in Seq(BlockT)
  BY DEF VaultShape
<1>2. /\ chain' \in Seq(BlockT) /\ Len(chain') = Len(chain) + 1
      /\ \A b \in 1 .. Len(chain) : chain'[b] = chain[b]
      /\ chain'[Len(chain) + 1] = e
  BY <1>1, AppendProperties DEF Grows
<1> QED BY <1>2, ChainFacts DEF Blocks

LEMMA ShrunkChain ==
  ASSUME VaultShape, NEW b \in Blocks, b > Target, Shrinks(b)
  PROVE  /\ chain' \in Seq(BlockT) /\ Len(chain') = Len(chain) /\ Blocks' = Blocks
         /\ \A c \in Blocks : chain'[c] = IF c < b THEN chain[c] ELSE Empty
         /\ \A c \in 1 .. Target : c < b
<1>1. /\ Len(chain) \in Nat /\ Blocks = 1 .. Len(chain) /\ \A c \in Blocks : chain[c] \in BlockT
      /\ Target \in Int
  BY ChainFacts
<1>2. chain' \in [1 .. Len(chain) -> BlockT]
  BY <1>1 DEF Shrinks, BlockT
<1>3. chain' \in Seq(BlockT) /\ Len(chain') = Len(chain)
  <2>1. PICK n \in Nat : n = Len(chain)
    BY <1>1
  <2>2. chain' \in [1 .. n -> BlockT]
    BY <1>2, <2>1
  <2>3. chain' \in Seq(BlockT)
    BY <2>2, SeqDef
  <2>4. DOMAIN chain' = 1 .. n
    BY <2>2
  <2> QED BY <2>1, <2>3, <2>4, LenProperties
<1> QED BY <1>1, <1>3 DEF Blocks, Shrinks

\* A step of the vault is a step of the chain by one signature or block, or leaves it.
LEMMA ChainMoves ==
  ASSUME VaultInv, VaultNext
  PROVE  \/ chain' = chain
         \/ \E e \in BlockT : Grows(e) /\ ~IsRelease(e) /\ UNCHANGED <<slots, missed>>
         \/ \E s \in signatures : Redeem(s)
         \/ \E b \in Blocks : b > Target /\ Shrinks(b) /\ UNCHANGED <<slots, missed>>
<1>1. ASSUME NEW d \in Deposits, MineDeposit(d)
      PROVE  \E e \in BlockT : Grows(e) /\ ~IsRelease(e) /\ UNCHANGED <<slots, missed>>
  <2> DEFINE e == [kind |-> "deposit", tx |-> d]
  <2>1. e \in BlockT /\ ~IsRelease(e)
    BY DEF BlockT, DepositBlocks, IsRelease
  <2>2. Grows(e) /\ UNCHANGED <<slots, missed>>
    BY <1>1 DEF MineDeposit, Mine, Grows
  <2> QED BY <2>1, <2>2
<1>2. ASSUME MineEmpty PROVE \E e \in BlockT : Grows(e) /\ ~IsRelease(e) /\ UNCHANGED <<slots, missed>>
  <2>1. Empty \in BlockT /\ ~IsRelease(Empty)
    BY DEF BlockT, Empty, IsRelease
  <2>2. Grows(Empty) /\ UNCHANGED <<slots, missed>>
    BY <1>2 DEF MineEmpty, Mine, Grows
  <2> QED BY <2>1, <2>2
<1>3. ASSUME NEW b \in Blocks, Reorg(b)
      PROVE  b > Target /\ Shrinks(b) /\ UNCHANGED <<slots, missed>>
  BY <1>3 DEF Reorg, Shrinks, Target
<1>4. ASSUME \/ \E s \in signatures : DeadlinePasses(s)
             \/ \E n \in DOMAIN slots : GrowOld(n) \/ Reap(n)
             \/ \E r \in Requests : SignAndFreeze(r) \/ Refuse(r) \/ \E q \in WithdrawSizes : ReadNonce(r, q)
             \/ PollDeposits \/ Credit \/ SaveDeposits
             \/ PollWithdrawals \/ Confirm \/ SaveWithdrawals
             \/ VaultCrash
      PROVE  chain' = chain
  BY <1>4 DEF DeadlinePasses, GrowOld, Reap, SignAndFreeze, Refuse, ReadNonce, PollDeposits, Credit,
              SaveDeposits, PollWithdrawals, Confirm, SaveWithdrawals, VaultCrash
<1> QED BY <1>1, <1>2, <1>3, <1>4 DEF VaultNext

LEMMA Redeems ==
  ASSUME VaultShape, NEW s \in signatures, Redeem(s)
  PROVE  \E e \in ReleaseBlocks :
            /\ Grows(e) /\ IsRelease(e) /\ e.nonce = s.nonce /\ e.amount = s.amount /\ e \in BlockT
            /\ e.nonce = OnChainNonce /\ e.nonce \in DOMAIN slots
            /\ missed' = missed \cup (IF slots[e.nonce].status = "signed" /\ slots[e.nonce].amount = e.amount
                                      THEN {} ELSE {e.nonce})
            /\ slots' = slots
<1> DEFINE e == [kind |-> "release", nonce |-> s.nonce, amount |-> s.amount]
<1>1. e \in ReleaseBlocks /\ e \in BlockT /\ IsRelease(e) /\ s.nonce \in DOMAIN slots
  BY DEF VaultShape, BlockT, ReleaseBlocks, IsRelease
<1>2. /\ Grows(e) /\ s.nonce = OnChainNonce /\ slots' = slots
      /\ missed' = missed \cup (IF slots[s.nonce].status = "signed" /\ slots[s.nonce].amount = s.amount
                                THEN {} ELSE {s.nonce})
  BY DEF Redeem, Mine, Grows
<1>3. e.nonce = s.nonce /\ e.amount = s.amount
  OBVIOUS
<1> HIDE DEF e
<1> QED BY <1>1, <1>2, <1>3

\* Final blocks stay, and stay final.
LEMMA FinalBlocksStay ==
  ASSUME VaultInv, VaultNext
  PROVE  /\ chain' \in Seq(BlockT) /\ Len(chain') >= Len(chain) /\ Len(chain') \in Nat
         /\ Target' >= Target /\ Target' \in Int
         /\ \A b \in 1 .. Target : b \in 1 .. Target' /\ b \in Blocks' /\ chain'[b] = chain[b] /\ At(b)' = At(b)
<1>i. VaultShape
  BY DEF VaultInv
<1>f. Len(chain) \in Nat /\ 1 .. Target \subseteq Blocks /\ Target \in Int /\ Blocks = 1 .. Len(chain)
  BY <1>i, ChainFacts
<1>1. /\ chain' \in Seq(BlockT) /\ Len(chain') >= Len(chain) /\ Len(chain') \in Nat
      /\ \A b \in 1 .. Target : chain'[b] = chain[b]
  <2>1. CASE chain' = chain
    BY <1>f, <1>i, <2>1 DEF VaultShape
  <2>2. ASSUME NEW e \in BlockT, Grows(e)
        PROVE  /\ chain' \in Seq(BlockT) /\ Len(chain') >= Len(chain) /\ Len(chain') \in Nat
               /\ \A b \in 1 .. Target : chain'[b] = chain[b]
    BY <1>f, <1>i, <2>2, GrownChain
  <2>3. ASSUME NEW b \in Blocks, b > Target, Shrinks(b)
        PROVE  /\ chain' \in Seq(BlockT) /\ Len(chain') >= Len(chain) /\ Len(chain') \in Nat
               /\ \A c \in 1 .. Target : chain'[c] = chain[c]
    BY <1>f, <1>i, <2>3, ShrunkChain
  <2>4. ASSUME NEW s \in signatures, Redeem(s) PROVE \E e \in BlockT : Grows(e)
    BY <1>i, <2>4, Redeems
  <2> QED BY <2>1, <2>2, <2>3, <2>4, ChainMoves
<1> QED BY <1>f, <1>1, VaultAssumption DEF Target, Blocks, At

LEMMA NoncesSteps ==
  ASSUME VaultInv, VaultNext
  PROVE  NoncesCount'
<1>i. VaultShape /\ NoncesCount
  BY DEF VaultInv
<1>f. Len(chain) \in Nat /\ Blocks = 1 .. Len(chain)
  BY <1>i, ChainFacts
<1>1. CASE chain' = chain
  BY <1>i, <1>1 DEF NoncesCount, Blocks
<1>2. ASSUME NEW e \in BlockT, Grows(e), IsRelease(e) => e.nonce = OnChainNonce
      PROVE  NoncesCount'
  <2>n. PICK n \in Nat : n = Len(chain) + 1
    BY <1>f
  <2>1. /\ Blocks' = Blocks \cup {n} /\ n \notin Blocks /\ (\A b \in Blocks : chain'[b] = chain[b])
        /\ chain'[n] = e
    BY <1>i, <1>2, <2>n, GrownChain
  <2>2. \A b \in Blocks : 1 .. b - 1 \subseteq Blocks
    BY <1>f
  <2>3. Blocks = 1 .. n - 1
    BY <1>f, <2>n
  <2>4. ASSUME NEW b \in Blocks
        PROVE  {c \in 1 .. b - 1 : IsRelease(chain'[c])} = {c \in 1 .. b - 1 : IsRelease(chain[c])}
    BY <2>1, <2>2
  <2>5. {c \in 1 .. n - 1 : IsRelease(chain'[c])} = {c \in Blocks : IsRelease(chain[c])}
    BY <2>1, <2>3
  <2>6. IsRelease(chain'[n]) => chain'[n].nonce = Cardinality({c \in 1 .. n - 1 : IsRelease(chain'[c])})
    BY <1>2, <2>1, <2>5 DEF OnChainNonce
  <2>7. \A b \in Blocks : IsRelease(chain'[b]) =>
           chain'[b].nonce = Cardinality({c \in 1 .. b - 1 : IsRelease(chain'[c])})
    BY <1>i, <2>1, <2>4 DEF NoncesCount
  <2> QED BY <2>1, <2>6, <2>7 DEF NoncesCount
<1>3. ASSUME NEW b \in Blocks, b > Target, Shrinks(b)
      PROVE  NoncesCount'
  <2>1. Blocks' = Blocks /\ \A c \in Blocks : chain'[c] = IF c < b THEN chain[c] ELSE Empty
    BY <1>i, <1>3, ShrunkChain
  <2>2. \A c \in Blocks : IsRelease(chain'[c]) => c < b /\ chain'[c] = chain[c]
    BY <2>1 DEF Empty, IsRelease
  <2>3. ASSUME NEW c \in Blocks, c < b
        PROVE  {a \in 1 .. c - 1 : IsRelease(chain'[a])} = {a \in 1 .. c - 1 : IsRelease(chain[a])}
    <3>1. \A a \in 1 .. c - 1 : a \in Blocks /\ a < b
      BY <1>f, <2>3
    <3> QED BY <2>1, <3>1
  <2> QED BY <1>i, <2>1, <2>2, <2>3 DEF NoncesCount
<1>4. ASSUME NEW s \in signatures, Redeem(s)
      PROVE  \E e \in BlockT : Grows(e) /\ (IsRelease(e) => e.nonce = OnChainNonce)
  BY <1>i, <1>4, Redeems
<1> QED BY <1>1, <1>2, <1>3, <1>4, ChainMoves

----------------------------------------------------------------------------
(* What each step does to the rows *)

\* The ways in which the table of the withdrawals changes.
Signs(n, amount) ==
    /\ n \in Nat /\ amount \in WithdrawSizes /\ Reusable(n)
    /\ slots' = [k \in DOMAIN slots \cup {n} |->
                   IF k = n THEN [status |-> "signed", amount |-> amount, old |-> FALSE] ELSE slots[k]]
    /\ signatures' = signatures \cup {[nonce |-> n, amount |-> amount, dead |-> FALSE]}
    /\ amount <= free /\ free' = free - amount /\ held' = held + amount
    /\ UNCHANGED <<chain, credited, pollers, missed>>
Becomes(n, status) == slots' = [slots EXCEPT ![n].status = status]

LEMMA NonceIsNat ==
  ASSUME VaultShape, NEW k \in Nat
  PROVE  NextNonce(k) \in Nat
<1> DEFINE R == WithStatus({"confirmed"})
           S == {k} \cup {n + 1 : n \in R}
<1>1. R \subseteq Nat /\ IsFiniteSet(R)
  BY FS_Subset DEF VaultShape, SlotTable, WithStatus
<1>2. IsFiniteSet({n + 1 : n \in R})
  <2> DEFINE f == [n \in R |-> n + 1]
             T == {n + 1 : n \in R}
  <2>1. f \in Surjection(R, T)
    BY DEF Surjection
  <2> HIDE DEF f, R
  <2> QED BY <1>1, <2>1, FS_Surjection
<1>3. IsFiniteSet(S)
  <2> HIDE DEF R
  <2> QED BY <1>2, FS_Singleton, FS_Union
<1>4. S \in SUBSET Nat /\ S # {}
  BY <1>1
<1>5. NextNonce(k) = Max(S)
  BY DEF NextNonce
<1> HIDE DEF S
<1> QED BY <1>3, <1>4, <1>5, MaxExists

LEMMA SigningSigns ==
  ASSUME VaultShape, NEW r \in Requests, SignAndFreeze(r)
  PROVE  \E n \in Nat, amount \in WithdrawSizes : Signs(n, amount)
<1>1. asked[r] \in AskedT /\ asked[r].pc = "tx"
  BY DEF VaultShape, SignAndFreeze
<1>2. asked[r].nonce \in Nat /\ asked[r].amount \in WithdrawSizes
  BY <1>1 DEF AskedT
<1> DEFINE n == NextNonce(asked[r].nonce)
           amount == asked[r].amount
<1>3. n \in Nat
  BY <1>2, NonceIsNat
<1>4. Affordable(amount) /\ Reusable(n)
  BY DEF SignAndFreeze
<1>5. amount <= free
  BY <1>2, <1>4, VaultAssumption DEF Affordable, VaultShape
<1>6. Signs(n, amount)
  BY <1>2, <1>3, <1>4, <1>5 DEF SignAndFreeze, Signs
<1>7. amount \in WithdrawSizes
  BY <1>2
<1> HIDE DEF n, amount
<1> QED BY <1>3, <1>6, <1>7

LEMMA SignedTable ==
  ASSUME VaultShape, NEW n \in Nat, NEW amount \in WithdrawSizes, Signs(n, amount)
  PROVE  /\ SlotTable(slots') /\ DOMAIN slots' = DOMAIN slots \cup {n}
         /\ slots'[n].status = "signed" /\ slots'[n].amount = amount
         /\ \A k \in DOMAIN slots \ {n} : slots'[k] = slots[k]
         /\ n \in DOMAIN slots => slots[n].status = "expired"
<1>1. amount \in Nat \ {0}
  BY VaultAssumption
<1>2. SlotTable(slots)
  BY DEF VaultShape
<1>3. /\ DOMAIN slots' = DOMAIN slots \cup {n}
      /\ slots'[n] = [status |-> "signed", amount |-> amount, old |-> FALSE]
      /\ \A k \in DOMAIN slots \ {n} : slots'[k] = slots[k]
  BY DEF Signs
<1>4. slots' \in [DOMAIN slots' -> SlotT]
  <2>1. slots' = [k \in DOMAIN slots' |-> slots'[k]]
    BY DEF Signs
  <2>2. \A k \in DOMAIN slots' : slots'[k] \in SlotT
    <3>1. slots'[n] \in SlotT
      BY <1>1, <1>3 DEF SlotT
    <3>2. \A k \in DOMAIN slots : slots[k] \in SlotT
      BY <1>2 DEF SlotTable
    <3> QED BY <1>3, <3>1, <3>2
  <2> QED BY <2>1, <2>2
<1>5. IsFiniteSet(DOMAIN slots')
  BY <1>2, <1>3, FS_AddElement DEF SlotTable
<1> QED BY <1>2, <1>3, <1>4, <1>5 DEF SlotTable, Signs, Reusable

LEMMA MarkedTable ==
  ASSUME VaultShape, NEW n \in DOMAIN slots, NEW status \in {"expired", "confirmed"}, Becomes(n, status)
  PROVE  /\ SlotTable(slots') /\ DOMAIN slots' = DOMAIN slots
         /\ slots'[n].status = status /\ slots'[n].amount = slots[n].amount
         /\ \A k \in DOMAIN slots \ {n} : slots'[k] = slots[k]
<1>1. SlotTable(slots)
  BY DEF VaultShape
<1>2. slots[n] \in SlotT /\ n \in Nat
  BY <1>1 DEF SlotTable
<1>3. slots' = [slots EXCEPT ![n] = [slots[n] EXCEPT !.status = status]]
  BY DEF Becomes
<1>4. PICK entry \in SlotT : entry = [slots[n] EXCEPT !.status = status]
  BY <1>2 DEF SlotT
<1>5. entry.status = status /\ entry.amount = slots[n].amount
  BY <1>2, <1>4 DEF SlotT
<1>6. slots' = [slots EXCEPT ![n] = entry]
  BY <1>3, <1>4
<1>7. DOMAIN slots' = DOMAIN slots /\ slots'[n] = entry /\ \A k \in DOMAIN slots \ {n} : slots'[k] = slots[k]
  BY <1>1, <1>6 DEF SlotTable
<1>8. slots' \in [DOMAIN slots' -> SlotT]
  BY <1>1, <1>6, <1>7 DEF SlotTable
<1> QED BY <1>1, <1>5, <1>7, <1>8 DEF SlotTable

LEMMA AgedTable ==
  ASSUME VaultShape, NEW n \in DOMAIN slots, GrowOld(n)
  PROVE  /\ SlotTable(slots') /\ DOMAIN slots' = DOMAIN slots
         /\ \A k \in DOMAIN slots : slots'[k].status = slots[k].status /\ slots'[k].amount = slots[k].amount
<1>1. SlotTable(slots)
  BY DEF VaultShape
<1>2. slots[n] \in SlotT /\ n \in Nat
  BY <1>1 DEF SlotTable
<1>3. slots' = [slots EXCEPT ![n] = [slots[n] EXCEPT !.old = TRUE]]
  BY DEF GrowOld
<1>4. PICK entry \in SlotT : entry = [slots[n] EXCEPT !.old = TRUE]
  BY <1>2 DEF SlotT
<1>5. entry.status = slots[n].status /\ entry.amount = slots[n].amount
  BY <1>2, <1>4 DEF SlotT
<1>6. slots' = [slots EXCEPT ![n] = entry]
  BY <1>3, <1>4
<1>7. DOMAIN slots' = DOMAIN slots /\ slots'[n] = entry /\ \A k \in DOMAIN slots \ {n} : slots'[k] = slots[k]
  BY <1>1, <1>6 DEF SlotTable
<1>8. slots' \in [DOMAIN slots' -> SlotT]
  BY <1>1, <1>6, <1>7 DEF SlotTable
<1> QED BY <1>1, <1>5, <1>7, <1>8 DEF SlotTable

\* What a step does to the rows: nothing, or one of the four.
LEMMA RowMoves ==
  ASSUME VaultInv, VaultNext
  PROVE  \/ slots' = slots
         \/ \E n \in DOMAIN slots : GrowOld(n)
         \/ \E n \in DOMAIN slots : Reap(n)
         \/ \E n \in Nat, amount \in WithdrawSizes : Signs(n, amount)
         \/ Confirm
<1>1. ASSUME \/ MineEmpty \/ \E d \in Deposits : MineDeposit(d)
             \/ \E s \in signatures : Redeem(s) \/ DeadlinePasses(s)
             \/ \E b \in Blocks : Reorg(b)
             \/ \E r \in Requests : Refuse(r) \/ \E q \in WithdrawSizes : ReadNonce(r, q)
             \/ PollDeposits \/ Credit \/ SaveDeposits
             \/ PollWithdrawals \/ SaveWithdrawals \/ VaultCrash
      PROVE  slots' = slots
  BY <1>1 DEF MineEmpty, MineDeposit, Redeem, DeadlinePasses, Reorg, Refuse, ReadNonce, PollDeposits, Credit,
              SaveDeposits, PollWithdrawals, SaveWithdrawals, VaultCrash
<1>2. ASSUME NEW r \in Requests, SignAndFreeze(r)
      PROVE  \E n \in Nat, amount \in WithdrawSizes : Signs(n, amount)
  BY <1>2, SigningSigns DEF VaultInv
<1> QED BY <1>1, <1>2 DEF VaultNext

\* What the listener confirms is the row of the event.
Acknowledges(x) ==
    /\ outBatch' = outBatch \ {x}
    /\ UNCHANGED <<chain, signatures, credited, free, asked, inCursor, outCursor, inBatch, inTo, outTo, missed>>
Settles(x) ==
    \/ x.event.nonce \in DOMAIN slots /\ slots[x.event.nonce].status = "signed"
       /\ Becomes(x.event.nonce, "confirmed") /\ held' = held - x.event.amount
    \/ ~(x.event.nonce \in DOMAIN slots /\ slots[x.event.nonce].status = "signed")
       /\ slots' = slots /\ held' = held

LEMMA Confirming ==
  ASSUME VaultInv, Confirm
  PROVE  \E x \in outBatch : /\ Acknowledges(x) /\ Settles(x) /\ x.block \in Blocks /\ x.event = chain[x.block]
                             /\ IsRelease(x.event) /\ HasRow(x.event)
                             /\ x.event.nonce \in Nat /\ x.event.amount \in Nat \ {0}
<1>1. PICK x \in outBatch :
         /\ outBatch' = outBatch \ {x}
         /\ slots' = IF Confirmable(x.event.nonce) THEN [slots EXCEPT ![x.event.nonce].status = "confirmed"]
                     ELSE slots
         /\ held' = IF Confirmable(x.event.nonce) THEN held - x.event.amount ELSE held
  BY DEF Confirm
<1>2. Acknowledges(x)
  BY <1>1 DEF Confirm, Acknowledges
<1>3. Confirmable(x.event.nonce) <=>
        (x.event.nonce \in DOMAIN slots /\ slots[x.event.nonce].status = "signed")
  BY DEF Confirmable, WithStatus
<1>4. Settles(x)
  BY <1>1, <1>3 DEF Settles, Becomes
<1>5. x.block \in outCursor + 1 .. outTo /\ x = At(x.block) /\ IsRelease(chain[x.block])
  BY DEF VaultInv, ReleasesInHand
<1>6. outCursor \in Nat /\ outTo \in Nat /\ VaultShape
  BY DEF VaultInv, VaultShape
<1>7. x.block \in 1 .. outTo
  BY <1>5, <1>6
<1>8. x.block \in Blocks
  BY <1>6, <1>7, ChainFacts
<1>9. x.event = chain[x.block]
  BY <1>5 DEF At
<1>10. IsRelease(x.event) /\ HasRow(x.event)
  BY <1>5, <1>8, <1>9 DEF VaultInv, RowsKnown
<1>11. x.event \in BlockT
  BY <1>6, <1>8, <1>9, ChainFacts
<1>12. x.event.nonce \in Nat /\ x.event.amount \in Nat \ {0}
  BY <1>10, <1>11, BlockFacts
<1> QED BY <1>2, <1>4, <1>8, <1>9, <1>10, <1>12

----------------------------------------------------------------------------
(* The shapes *)

LEMMA TableSteps ==
  ASSUME VaultInv, VaultNext
  PROVE  SlotTable(slots') /\ DOMAIN slots \subseteq DOMAIN slots'
<1>i. VaultShape
  BY DEF VaultInv
<1>1. CASE slots' = slots
  BY <1>i, <1>1 DEF VaultShape
<1>2. ASSUME NEW n \in DOMAIN slots, GrowOld(n) PROVE SlotTable(slots') /\ DOMAIN slots \subseteq DOMAIN slots'
  BY <1>i, <1>2, AgedTable
<1>3. ASSUME NEW n \in DOMAIN slots, Reap(n) PROVE SlotTable(slots') /\ DOMAIN slots \subseteq DOMAIN slots'
  <2>1. Becomes(n, "expired")
    BY <1>3 DEF Reap, Becomes
  <2> QED BY <1>i, <2>1, MarkedTable
<1>4. ASSUME NEW n \in Nat, NEW amount \in WithdrawSizes, Signs(n, amount)
      PROVE  SlotTable(slots') /\ DOMAIN slots \subseteq DOMAIN slots'
  BY <1>i, <1>4, SignedTable
<1>5. ASSUME Confirm PROVE SlotTable(slots') /\ DOMAIN slots \subseteq DOMAIN slots'
  <2>1. PICK x \in outBatch : Settles(x)
    BY <1>5, Confirming
  <2>2. CASE slots' = slots
    BY <1>1, <2>2
  <2>3. CASE x.event.nonce \in DOMAIN slots /\ Becomes(x.event.nonce, "confirmed")
    BY <1>i, <2>3, MarkedTable
  <2> QED BY <2>1, <2>2, <2>3 DEF Settles
<1> QED BY <1>1, <1>2, <1>3, <1>4, <1>5, RowMoves

SignatureT == [nonce : Nat, amount : Nat \ {0}, dead : BOOLEAN]
SignatureSet == signatures \subseteq SignatureT /\ \A s \in signatures : s.nonce \in DOMAIN slots

LEMMA SignatureSteps ==
  ASSUME VaultInv, VaultNext
  PROVE  SignatureSet'
<1>i. VaultShape
  BY DEF VaultInv
<1>s. SignatureSet
  BY <1>i DEF VaultShape, SignatureSet, SignatureT
<1>t. DOMAIN slots \subseteq DOMAIN slots'
  BY TableSteps
<1>1. CASE signatures' = signatures
  BY <1>1, <1>s, <1>t DEF SignatureSet
<1>2. ASSUME NEW r \in Requests, SignAndFreeze(r) PROVE SignatureSet'
  <2>1. PICK n \in Nat, amount \in WithdrawSizes : Signs(n, amount)
    BY <1>i, <1>2, SigningSigns
  <2>2. n \in DOMAIN slots'
    BY <1>i, <2>1, SignedTable
  <2>s. PICK s : s = [nonce |-> n, amount |-> amount, dead |-> FALSE]
    OBVIOUS
  <2>3. signatures' = signatures \cup {s}
    BY <2>1, <2>s DEF Signs
  <2>4. s \in SignatureT /\ s.nonce = n
    BY <2>s, VaultAssumption DEF SignatureT
  <2> QED BY <1>s, <1>t, <2>2, <2>3, <2>4 DEF SignatureSet
<1>3. ASSUME NEW s \in signatures, DeadlinePasses(s) PROVE SignatureSet'
  <2>1. PICK t : t = [s EXCEPT !.dead = TRUE]
    OBVIOUS
  <2>2. t \in SignatureT /\ t.nonce = s.nonce
    BY <1>s, <2>1 DEF SignatureSet, SignatureT
  <2>3. signatures' = (signatures \ {s}) \cup {t}
    BY <1>3, <2>1 DEF DeadlinePasses
  <2> QED BY <1>s, <1>t, <2>2, <2>3 DEF SignatureSet
<1>4. ASSUME \/ MineEmpty \/ \E d \in Deposits : MineDeposit(d)
             \/ \E s \in signatures : Redeem(s)
             \/ \E b \in Blocks : Reorg(b)
             \/ \E n \in DOMAIN slots : GrowOld(n) \/ Reap(n)
             \/ \E r \in Requests : Refuse(r) \/ \E q \in WithdrawSizes : ReadNonce(r, q)
             \/ PollDeposits \/ Credit \/ SaveDeposits
             \/ PollWithdrawals \/ Confirm \/ SaveWithdrawals \/ VaultCrash
      PROVE  signatures' = signatures
  BY <1>4 DEF MineEmpty, MineDeposit, Redeem, Reorg, GrowOld, Reap, Refuse, ReadNonce, PollDeposits, Credit,
              SaveDeposits, PollWithdrawals, Confirm, SaveWithdrawals, VaultCrash
<1> QED BY <1>1, <1>2, <1>3, <1>4 DEF VaultNext

MoneyShape == credited \subseteq Deposits /\ missed \subseteq Nat /\ free \in Nat /\ held \in Int

LEMMA Crediting ==
  ASSUME VaultInv, Credit
  PROVE  \E x \in inBatch :
            /\ IsFirst(x, inBatch) /\ inBatch' = inBatch \ {x} /\ x.event.tx \in Deposits
            /\ credited' = credited \cup {x.event.tx}
            /\ free' = IF x.event.tx \notin credited THEN free + Worth[x.event.tx] ELSE free
            /\ x.block \in 1 .. inTo /\ chain[x.block] = x.event /\ IsDeposit(x.event)
<1>1. PICK x \in inBatch :
         /\ IsFirst(x, inBatch) /\ inBatch' = inBatch \ {x}
         /\ credited' = credited \cup {x.event.tx}
         /\ free' = IF x.event.tx \notin credited THEN free + Worth[x.event.tx] ELSE free
  BY DEF Credit, IsNew
<1>2. x.block \in inCursor + 1 .. inTo /\ x = At(x.block) /\ IsDeposit(chain[x.block])
  BY DEF VaultInv, DepositsInHand
<1>3. inCursor \in Nat /\ inTo \in Nat /\ VaultShape
  BY DEF VaultInv, VaultShape
<1>4. x.block \in 1 .. inTo
  BY <1>2, <1>3
<1>5. x.event = chain[x.block] /\ x.block \in Blocks
  BY <1>2, <1>3, <1>4, ChainFacts DEF At
<1>6. x.event \in BlockT
  BY <1>3, <1>5, ChainFacts
<1> QED BY <1>1, <1>2, <1>4, <1>5, <1>6, BlockFacts

LEMMA MoneySteps ==
  ASSUME VaultInv, VaultNext
  PROVE  MoneyShape'
<1>i. VaultShape /\ MoneyShape
  BY DEF VaultInv, VaultShape, MoneyShape
<1>1. ASSUME NEW s \in signatures, Redeem(s) PROVE MoneyShape'
  <2>1. s.nonce \in Nat
    BY <1>i DEF VaultShape
  <2> QED BY <1>i, <1>1, <2>1 DEF Redeem, MoneyShape
<1>2. ASSUME NEW r \in Requests, SignAndFreeze(r) PROVE MoneyShape'
  <2>1. PICK n \in Nat, amount \in WithdrawSizes : Signs(n, amount)
    BY <1>i, <1>2, SigningSigns
  <2> QED BY <1>i, <2>1, VaultAssumption DEF Signs, MoneyShape
<1>3. ASSUME NEW n \in DOMAIN slots, Reap(n) PROVE MoneyShape'
  <2>1. n \in Nat /\ slots[n].amount \in Nat
    BY <1>i DEF VaultShape, SlotTable, SlotT
  <2>2. PICK a \in Nat : a = slots[n].amount
    BY <2>1
  <2> QED BY <1>i, <1>3, <2>1, <2>2 DEF Reap, MoneyShape
<1>4. ASSUME Credit PROVE MoneyShape'
  <2>1. PICK x \in inBatch : 
            /\ x.event.tx \in Deposits /\ credited' = credited \cup {x.event.tx}
            /\ free' = IF x.event.tx \notin credited THEN free + Worth[x.event.tx] ELSE free
    BY <1>4, Crediting
  <2>2. Worth[x.event.tx] \in Nat
    BY <2>1, VaultAssumption
  <2> QED BY <1>i, <1>4, <2>1, <2>2 DEF Credit, MoneyShape
<1>5. ASSUME Confirm PROVE MoneyShape'
  <2>1. PICK x \in outBatch : Acknowledges(x) /\ Settles(x) /\ x.event.amount \in Nat
    BY <1>5, Confirming
  <2>2. PICK a \in Nat : a = x.event.amount
    BY <2>1
  <2> QED BY <1>i, <2>1, <2>2 DEF Acknowledges, Settles, MoneyShape
<1>6. ASSUME \/ MineEmpty \/ \E d \in Deposits : MineDeposit(d)
             \/ \E s \in signatures : DeadlinePasses(s)
             \/ \E b \in Blocks : Reorg(b)
             \/ \E n \in DOMAIN slots : GrowOld(n)
             \/ \E r \in Requests : Refuse(r) \/ \E q \in WithdrawSizes : ReadNonce(r, q)
             \/ PollDeposits \/ SaveDeposits
             \/ PollWithdrawals \/ SaveWithdrawals \/ VaultCrash
      PROVE  MoneyShape'
  <2>1. UNCHANGED <<credited, missed, free, held>>
    BY <1>6 DEF MineEmpty, MineDeposit, DeadlinePasses, Reorg, GrowOld, Refuse, ReadNonce, PollDeposits,
              SaveDeposits, PollWithdrawals, SaveWithdrawals, VaultCrash
  <2> QED BY <1>i, <2>1 DEF MoneyShape
<1> QED BY <1>1, <1>2, <1>3, <1>4, <1>5, <1>6 DEF VaultNext

LEMMA AskedSteps ==
  ASSUME VaultInv, VaultNext
  PROVE  asked' \in [Requests -> AskedT]
<1>i. VaultShape
  BY DEF VaultInv
<1>a. asked \in [Requests -> AskedT]
  BY <1>i DEF VaultShape
<1>d. [pc |-> "done"] \in AskedT
  BY DEF AskedT
<1>1. ASSUME NEW r \in Requests, NEW q \in WithdrawSizes, ReadNonce(r, q) PROVE asked' \in [Requests -> AskedT]
  <2>1. OnChainNonce \in Nat
    <3>1. IsFiniteSet(Blocks)
      BY <1>i, ChainFacts, FS_Interval
    <3>2. IsFiniteSet({b \in Blocks : IsRelease(chain[b])})
      BY <3>1, FS_Subset
    <3> QED BY <3>2, FS_CardinalityType DEF OnChainNonce
  <2>2. [pc |-> "tx", nonce |-> OnChainNonce, amount |-> q] \in AskedT
    BY <2>1 DEF AskedT
  <2> QED BY <1>a, <1>1, <2>2 DEF ReadNonce
<1>2. ASSUME NEW r \in Requests, SignAndFreeze(r) \/ Refuse(r) PROVE asked' \in [Requests -> AskedT]
  BY <1>a, <1>d, <1>2 DEF SignAndFreeze, Refuse
<1>3. ASSUME VaultCrash PROVE asked' \in [Requests -> AskedT]
  BY <1>a, <1>d, <1>3 DEF VaultCrash
<1>4. ASSUME \/ MineEmpty \/ \E d \in Deposits : MineDeposit(d)
             \/ \E s \in signatures : Redeem(s) \/ DeadlinePasses(s)
             \/ \E b \in Blocks : Reorg(b)
             \/ \E n \in DOMAIN slots : GrowOld(n) \/ Reap(n)
             \/ PollDeposits \/ Credit \/ SaveDeposits
             \/ PollWithdrawals \/ Confirm \/ SaveWithdrawals
      PROVE  asked' = asked
  BY <1>4 DEF MineEmpty, MineDeposit, Redeem, DeadlinePasses, Reorg, GrowOld, Reap, PollDeposits, Credit,
              SaveDeposits, PollWithdrawals, Confirm, SaveWithdrawals
<1> QED BY <1>a, <1>1, <1>2, <1>3, <1>4 DEF VaultNext

CursorShape ==
    /\ inCursor \in Nat /\ outCursor \in Nat /\ inTo \in Nat /\ outTo \in Nat
    /\ inCursor <= inTo /\ (inTo = 0 \/ inTo <= Target)
    /\ outCursor <= outTo /\ (outTo = 0 \/ outTo <= Target)

LEMMA CursorSteps ==
  ASSUME VaultInv, VaultNext
  PROVE  CursorShape'
<1>i. VaultShape /\ CursorShape
  BY DEF VaultInv, VaultShape, CursorShape
<1>t. Target \in Int /\ Target' \in Int /\ Target <= Target'
  BY <1>i, ChainFacts, FinalBlocksStay
<1>1. CASE PollDeposits
  <2>1. inTo' = Target /\ Target > inCursor /\ UNCHANGED <<inCursor, outCursor, outTo>>
    BY <1>1 DEF PollDeposits
  <2> QED BY <1>i, <1>t, <2>1 DEF CursorShape
<1>2. CASE PollWithdrawals
  <2>1. outTo' = Target /\ Target > outCursor /\ UNCHANGED <<inCursor, outCursor, inTo>>
    BY <1>2 DEF PollWithdrawals
  <2> QED BY <1>i, <1>t, <2>1 DEF CursorShape
<1>3. CASE SaveDeposits
  <2>1. inCursor' = inTo /\ UNCHANGED <<inTo, outCursor, outTo>>
    BY <1>3 DEF SaveDeposits
  <2> QED BY <1>i, <1>t, <2>1 DEF CursorShape
<1>4. CASE SaveWithdrawals
  <2>1. outCursor' = outTo /\ UNCHANGED <<inTo, inCursor, outTo>>
    BY <1>4 DEF SaveWithdrawals
  <2> QED BY <1>i, <1>t, <2>1 DEF CursorShape
<1>5. CASE VaultCrash
  <2>1. inTo' = inCursor /\ outTo' = outCursor /\ UNCHANGED <<inCursor, outCursor>>
    BY <1>5 DEF VaultCrash
  <2> QED BY <1>i, <1>t, <2>1 DEF CursorShape
<1>6. ASSUME \/ MineEmpty \/ \E d \in Deposits : MineDeposit(d)
             \/ \E s \in signatures : Redeem(s) \/ DeadlinePasses(s)
             \/ \E b \in Blocks : Reorg(b)
             \/ \E n \in DOMAIN slots : GrowOld(n) \/ Reap(n)
             \/ \E r \in Requests : SignAndFreeze(r) \/ Refuse(r) \/ \E q \in WithdrawSizes : ReadNonce(r, q)
             \/ Credit \/ Confirm
      PROVE  CursorShape'
  <2>1. UNCHANGED <<inCursor, outCursor, inTo, outTo>>
    BY <1>6 DEF MineEmpty, MineDeposit, Redeem, DeadlinePasses, Reorg, GrowOld, Reap, SignAndFreeze, Refuse,
                ReadNonce, Credit, Confirm, pollers
  <2> QED BY <1>i, <1>t, <2>1 DEF CursorShape
<1> QED BY <1>1, <1>2, <1>3, <1>4, <1>5, <1>6 DEF VaultNext

LEMMA VaultShapeSteps ==
  ASSUME VaultInv, VaultNext
  PROVE  VaultShape'
<1>1. chain' \in Seq(BlockT)
  BY FinalBlocksStay
<1>2. SlotTable(slots')
  BY TableSteps
<1> QED BY <1>1, <1>2, SignatureSteps, MoneySteps, AskedSteps, CursorSteps
        DEF VaultShape, SlotTable, SignatureSet, SignatureT, MoneyShape, CursorShape

----------------------------------------------------------------------------
(* The rows of the releases *)

\* HasRow with the rows and the history given.
RowFor(e, sl, m) ==
    /\ e.nonce \in DOMAIN sl
    /\ e.nonce \notin m => /\ sl[e.nonce].status \in {"signed", "confirmed"}
                           /\ sl[e.nonce].amount = e.amount

\* A release that has its row keeps it, unless it is redeemed when the reaper expires it.
LEMMA RowStays ==
  ASSUME VaultInv, VaultNext, NEW b \in Blocks, IsRelease(chain[b])
  PROVE  RowFor(chain[b], slots', missed') /\ missed \subseteq missed'
<1> DEFINE e == chain[b]
<1>i. VaultShape
  BY DEF VaultInv
<1>h. HasRow(e) /\ e.nonce \in Nat
  BY <1>i, ChainFacts, BlockFacts DEF VaultInv, RowsKnown
<1>p. PICK k, a : k = e.nonce /\ a = e.amount
  OBVIOUS
<1> DEFINE Row(sl, m) == /\ k \in DOMAIN sl
                         /\ k \notin m => sl[k].status \in {"signed", "confirmed"} /\ sl[k].amount = a
<1>r. Row(slots, missed)
  BY <1>h, <1>p DEF HasRow
<1>1. missed \subseteq missed'
  <2>1. ASSUME NEW s \in signatures, Redeem(s) PROVE missed \subseteq missed'
    BY <2>1 DEF Redeem
  <2>2. ASSUME NEW n \in DOMAIN slots, Reap(n) PROVE missed \subseteq missed'
    BY <2>2 DEF Reap
  <2>3. ASSUME \/ MineEmpty \/ \E d \in Deposits : MineDeposit(d)
               \/ \E s \in signatures : DeadlinePasses(s)
               \/ \E c \in Blocks : Reorg(c)
               \/ \E n \in DOMAIN slots : GrowOld(n)
               \/ \E r \in Requests : SignAndFreeze(r) \/ Refuse(r) \/ \E q \in WithdrawSizes : ReadNonce(r, q)
               \/ PollDeposits \/ Credit \/ SaveDeposits
               \/ PollWithdrawals \/ Confirm \/ SaveWithdrawals \/ VaultCrash
        PROVE  missed' = missed
    BY <2>3 DEF MineEmpty, MineDeposit, DeadlinePasses, Reorg, GrowOld, SignAndFreeze, Refuse, ReadNonce,
                PollDeposits, Credit, SaveDeposits, PollWithdrawals, Confirm, SaveWithdrawals, VaultCrash
  <2> QED BY <2>1, <2>2, <2>3 DEF VaultNext
<1>2. Row(slots', missed')
  <2>1. CASE slots' = slots
    BY <1>1, <1>r, <2>1
  <2>2. ASSUME NEW n \in DOMAIN slots, GrowOld(n) PROVE Row(slots', missed')
    BY <1>1, <1>i, <1>r, <2>2, AgedTable
  <2>3. ASSUME NEW n \in DOMAIN slots, Reap(n) PROVE Row(slots', missed')
    <3>1. Becomes(n, "expired")
      BY <2>3 DEF Reap, Becomes
    <3>2. n = k => Redeemed(n)
      BY <1>p DEF Redeemed
    <3>3. n = k => k \in missed'
      BY <2>3, <3>2 DEF Reap
    <3> QED BY <1>1, <1>i, <1>r, <3>1, <3>3, MarkedTable
  <2>4. ASSUME NEW n \in Nat, NEW amount \in WithdrawSizes, Signs(n, amount) PROVE Row(slots', missed')
    <3>1. /\ DOMAIN slots' = DOMAIN slots \cup {n}
          /\ \A j \in DOMAIN slots \ {n} : slots'[j] = slots[j]
          /\ n \in DOMAIN slots => slots[n].status = "expired"
      BY <1>i, <2>4, SignedTable
    <3> QED BY <1>1, <1>r, <3>1
  <2>5. ASSUME Confirm PROVE Row(slots', missed')
    <3>1. PICK x \in outBatch : Settles(x)
      BY <2>5, Confirming
    <3>2. CASE x.event.nonce \in DOMAIN slots /\ Becomes(x.event.nonce, "confirmed")
      BY <1>1, <1>i, <1>r, <3>2, MarkedTable
    <3> QED BY <2>1, <3>1, <3>2 DEF Settles
  <2> QED BY <2>1, <2>2, <2>3, <2>4, <2>5, RowMoves
<1> QED BY <1>1, <1>2, <1>p DEF RowFor

LEMMA RowsSteps ==
  ASSUME VaultInv, VaultNext
  PROVE  RowsKnown'
<1>i. VaultShape
  BY DEF VaultInv
<1>r. \A b \in Blocks : IsRelease(chain[b]) => RowFor(chain[b], slots', missed')
  BY RowStays
<1>1. CASE chain' = chain
  BY <1>r, <1>1 DEF RowsKnown, HasRow, RowFor, Blocks
<1>2. ASSUME NEW e \in BlockT, Grows(e), IsRelease(e) => RowFor(e, slots', missed') PROVE RowsKnown'
  <2>1. /\ Blocks' = Blocks \cup {Len(chain) + 1} /\ chain'[Len(chain) + 1] = e
        /\ \A b \in Blocks : chain'[b] = chain[b]
    BY <1>i, <1>2, GrownChain
  <2>2. \A b \in Blocks' : IsRelease(chain'[b]) => RowFor(chain'[b], slots', missed')
    BY <1>r, <1>2, <2>1
  <2> QED BY <2>2 DEF RowsKnown, HasRow, RowFor
<1>3. ASSUME NEW b \in Blocks, b > Target, Shrinks(b) PROVE RowsKnown'
  <2>1. Blocks' = Blocks /\ \A c \in Blocks : chain'[c] = IF c < b THEN chain[c] ELSE Empty
    BY <1>i, <1>3, ShrunkChain
  <2>2. \A c \in Blocks' : IsRelease(chain'[c]) => RowFor(chain'[c], slots', missed')
    BY <1>r, <2>1 DEF Empty, IsRelease
  <2> QED BY <2>2 DEF RowsKnown, HasRow, RowFor
<1>4. ASSUME NEW s \in signatures, Redeem(s) PROVE RowsKnown'
  <2>1. PICK e \in ReleaseBlocks :
            /\ Grows(e) /\ IsRelease(e) /\ e \in BlockT /\ e.nonce \in DOMAIN slots
            /\ missed' = missed \cup (IF slots[e.nonce].status = "signed" /\ slots[e.nonce].amount = e.amount
                                      THEN {} ELSE {e.nonce})
            /\ slots' = slots
    BY <1>i, <1>4, Redeems
  <2>2. RowFor(e, slots', missed')
    BY <2>1 DEF RowFor
  <2> QED BY <1>2, <2>1, <2>2
<1> QED BY <1>1, <1>2, <1>3, <1>4, ChainMoves

----------------------------------------------------------------------------
(* The pollers *)

LEMMA CreditsSteps ==
  ASSUME VaultInv, VaultNext
  PROVE  DepositsInHand'
<1>i. VaultShape /\ DepositsInHand
  BY DEF VaultInv
<1>c. /\ inCursor \in Nat /\ inTo \in Nat /\ inCursor <= inTo /\ Target \in Int
      /\ 1 .. inTo \subseteq 1 .. Target /\ 1 .. inCursor \subseteq 1 .. inTo
  BY <1>i, ChainFacts DEF VaultShape
<1>f. \A b \in 1 .. Target : b \in 1 .. Target' /\ chain'[b] = chain[b] /\ At(b)' = At(b)
  BY FinalBlocksStay
<1>b. \A x \in inBatch : /\ x.block \in inCursor + 1 .. inTo /\ x = At(x.block) /\ IsDeposit(chain[x.block])
                         /\ x.block \in 1 .. Target
  BY <1>c, <1>i DEF DepositsInHand
<1>d. \A b \in 1 .. inTo : IsDeposit(chain[b]) =>
          chain[b].tx \in credited \/ (b > inCursor /\ At(b) \in inBatch)
  BY <1>i DEF DepositsInHand
<1>1. ASSUME credited' = credited PROVE \A d \in credited' : \E b \in 1 .. Target' : IsDeposit(chain'[b]) /\ chain'[b].tx = d
  BY <1>f, <1>i, <1>1 DEF DepositsInHand
<1>2. CASE PollDeposits
  <2>1. /\ inTo = inCursor /\ Target > inCursor /\ inTo' = Target /\ UNCHANGED <<inCursor, credited, chain>>
        /\ inBatch' = {At(b) : b \in {b \in inCursor + 1 .. Target : IsDeposit(chain[b])}}
    BY <1>2 DEF PollDeposits, Window
  <2>2. \A b : At(b)' = At(b) /\ At(b).block = b
    BY <2>1 DEF At
  <2>3. \A x \in inBatch' : x.block \in inCursor' + 1 .. inTo' /\ x = At(x.block)' /\ IsDeposit(chain'[x.block])
    BY <2>1, <2>2
  <2>4. ASSUME NEW b \in 1 .. inTo', IsDeposit(chain'[b])
        PROVE  chain'[b].tx \in credited' \/ (b > inCursor' /\ At(b)' \in inBatch')
    <3>1. CASE b <= inCursor
      BY <1>c, <1>d, <2>1, <2>4, <3>1
    <3>2. CASE b > inCursor
      <4>1. b \in inCursor + 1 .. Target
        BY <1>c, <2>1, <2>4, <3>2
      <4> QED BY <2>1, <2>2, <2>4, <3>2, <4>1
    <3> QED BY <1>c, <2>1, <2>4, <3>1, <3>2
  <2> QED BY <1>1, <2>1, <2>3, <2>4 DEF DepositsInHand
<1>3. CASE Credit
  <2>1. PICK x \in inBatch :
            /\ inBatch' = inBatch \ {x} /\ x.event.tx \in Deposits
            /\ credited' = credited \cup {x.event.tx}
            /\ x.block \in 1 .. inTo /\ chain[x.block] = x.event /\ IsDeposit(x.event)
    BY <1>3, Crediting
  <2>2. UNCHANGED <<chain, inCursor, inTo>> /\ Target' = Target
    BY <1>3 DEF Credit, Target
  <2>3. \A y \in inBatch' : y.block \in inCursor' + 1 .. inTo' /\ y = At(y.block)' /\ IsDeposit(chain'[y.block])
    BY <1>b, <1>f, <2>1, <2>2
  <2>4. ASSUME NEW b \in 1 .. inTo', IsDeposit(chain'[b])
        PROVE  chain'[b].tx \in credited' \/ (b > inCursor' /\ At(b)' \in inBatch')
    <3>1. b \in 1 .. inTo /\ chain'[b] = chain[b] /\ At(b)' = At(b)
      BY <1>c, <1>f, <2>2, <2>4
    <3>2. At(b) = x => chain[b] = x.event
      BY DEF At
    <3> QED BY <1>d, <2>1, <2>2, <2>4, <3>1, <3>2
  <2>5. ASSUME NEW d \in credited' PROVE \E b \in 1 .. Target' : IsDeposit(chain'[b]) /\ chain'[b].tx = d
    <3>1. CASE d \in credited
      BY <1>f, <1>i, <3>1 DEF DepositsInHand
    <3>2. CASE d = x.event.tx
      BY <1>c, <1>f, <2>1, <2>2, <3>2
    <3> QED BY <2>1, <2>5, <3>1, <3>2
  <2> QED BY <2>3, <2>4, <2>5 DEF DepositsInHand
<1>4. CASE SaveDeposits
  <2>1. inBatch = {} /\ inBatch' = {} /\ inCursor' = inTo /\ inTo' = inTo /\ UNCHANGED <<chain, credited>>
    BY <1>4 DEF SaveDeposits
  <2>2. \A b \in 1 .. inTo' : IsDeposit(chain'[b]) => chain'[b].tx \in credited'
    BY <1>d, <2>1
  <2> QED BY <1>1, <2>1, <2>2 DEF DepositsInHand
<1>5. CASE VaultCrash
  <2>1. inBatch' = {} /\ inTo' = inCursor /\ inCursor' = inCursor /\ UNCHANGED <<chain, credited>>
    BY <1>5 DEF VaultCrash
  <2>2. ASSUME NEW b \in 1 .. inTo', IsDeposit(chain'[b]) PROVE chain'[b].tx \in credited'
    <3>1. b \in 1 .. inTo /\ ~(b > inCursor)
      BY <1>c, <2>1, <2>2
    <3> QED BY <1>d, <2>1, <2>2, <3>1
  <2> QED BY <1>1, <2>1, <2>2 DEF DepositsInHand
<1>6. ASSUME \/ MineEmpty \/ \E d \in Deposits : MineDeposit(d)
             \/ \E s \in signatures : Redeem(s) \/ DeadlinePasses(s)
             \/ \E b \in Blocks : Reorg(b)
             \/ \E n \in DOMAIN slots : GrowOld(n) \/ Reap(n)
             \/ \E r \in Requests : SignAndFreeze(r) \/ Refuse(r) \/ \E q \in WithdrawSizes : ReadNonce(r, q)
             \/ PollWithdrawals \/ Confirm \/ SaveWithdrawals
      PROVE  DepositsInHand'
  <2>1. UNCHANGED <<inCursor, inTo, inBatch, credited>>
    BY <1>6 DEF MineEmpty, MineDeposit, Redeem, DeadlinePasses, Reorg, GrowOld, Reap, SignAndFreeze, Refuse,
                ReadNonce, PollWithdrawals, Confirm, SaveWithdrawals, pollers
  <2>2. \A x \in inBatch' : x.block \in inCursor' + 1 .. inTo' /\ x = At(x.block)' /\ IsDeposit(chain'[x.block])
    BY <1>b, <1>f, <2>1
  <2>3. ASSUME NEW b \in 1 .. inTo', IsDeposit(chain'[b])
        PROVE  chain'[b].tx \in credited' \/ (b > inCursor' /\ At(b)' \in inBatch')
    BY <1>c, <1>d, <1>f, <2>1, <2>3
  <2> QED BY <1>1, <2>1, <2>2, <2>3 DEF DepositsInHand
<1> QED BY <1>2, <1>3, <1>4, <1>5, <1>6 DEF VaultNext

\* A confirmed row stays confirmed.
LEMMA ConfirmedStays ==
  ASSUME VaultInv, VaultNext, NEW k \in DOMAIN slots, slots[k].status = "confirmed"
  PROVE  slots'[k].status = "confirmed"
<1>i. VaultShape
  BY DEF VaultInv
<1>1. ASSUME NEW n \in DOMAIN slots, GrowOld(n) PROVE slots'[k].status = "confirmed"
  BY <1>i, <1>1, AgedTable
<1>2. ASSUME NEW n \in DOMAIN slots, Reap(n) PROVE slots'[k].status = "confirmed"
  <2>1. Becomes(n, "expired") /\ slots[n].status = "signed"
    BY <1>2 DEF Reap, Becomes, Reapable, WithStatus
  <2> QED BY <1>i, <2>1, MarkedTable
<1>3. ASSUME NEW n \in Nat, NEW amount \in WithdrawSizes, Signs(n, amount) PROVE slots'[k].status = "confirmed"
  BY <1>i, <1>3, SignedTable
<1>4. ASSUME Confirm PROVE slots'[k].status = "confirmed"
  <2>1. PICK x \in outBatch : Settles(x)
    BY <1>4, Confirming
  <2>2. CASE x.event.nonce \in DOMAIN slots /\ Becomes(x.event.nonce, "confirmed")
    BY <1>i, <2>2, MarkedTable
  <2> QED BY <2>1, <2>2 DEF Settles
<1> QED BY <1>1, <1>2, <1>3, <1>4, RowMoves

LEMMA ReleasesSteps ==
  ASSUME VaultInv, VaultNext
  PROVE  ReleasesInHand'
<1>i. VaultShape /\ ReleasesInHand /\ RowsKnown
  BY DEF VaultInv
<1>c. /\ outCursor \in Nat /\ outTo \in Nat /\ outCursor <= outTo /\ Target \in Int
      /\ 1 .. outTo \subseteq 1 .. Target /\ 1 .. outCursor \subseteq 1 .. outTo
      /\ 1 .. Target \subseteq Blocks
  BY <1>i, ChainFacts DEF VaultShape
<1>f. \A b \in 1 .. Target : b \in 1 .. Target' /\ chain'[b] = chain[b] /\ At(b)' = At(b)
  BY FinalBlocksStay
<1>b. \A x \in outBatch : /\ x.block \in outCursor + 1 .. outTo /\ x = At(x.block) /\ IsRelease(chain[x.block])
                          /\ x.block \in 1 .. Target
  BY <1>c, <1>i DEF ReleasesInHand
<1> DEFINE Booked(b) == chain[b].nonce \in missed \/ slots[chain[b].nonce].status = "confirmed"
           BookedNext(b) == chain'[b].nonce \in missed' \/ slots'[chain'[b].nonce].status = "confirmed"
<1>d. \A b \in 1 .. outTo : IsRelease(chain[b]) => Booked(b) \/ (b > outCursor /\ At(b) \in outBatch)
  BY <1>i DEF ReleasesInHand
<1>k. ASSUME NEW b \in 1 .. Target, IsRelease(chain[b]), Booked(b)
      PROVE  BookedNext(b)
  <2>1. chain'[b] = chain[b] /\ b \in Blocks
    BY <1>c, <1>f
  <2>2. missed \subseteq missed' /\ HasRow(chain[b])
    BY <1>i, <1>k, <2>1, RowStays DEF RowsKnown
  <2>3. chain[b].nonce \in DOMAIN slots
    BY <2>2 DEF HasRow
  <2>4. slots[chain[b].nonce].status = "confirmed" => slots'[chain[b].nonce].status = "confirmed"
    BY <2>3, ConfirmedStays
  <2> QED BY <1>k, <2>1, <2>2, <2>4
<1>q. ASSUME \A x \in outBatch' : x.block \in outCursor' + 1 .. outTo' /\ x = At(x.block)' /\ IsRelease(chain'[x.block]),
             \A b \in 1 .. outTo' : IsRelease(chain'[b]) => BookedNext(b) \/ (b > outCursor' /\ At(b)' \in outBatch')
      PROVE  ReleasesInHand'
  BY <1>q DEF ReleasesInHand
<1> HIDE DEF Booked, BookedNext
<1>2. CASE PollWithdrawals
  <2>1. /\ outTo = outCursor /\ Target > outCursor /\ outTo' = Target /\ UNCHANGED <<outCursor, chain>>
        /\ outBatch' = {At(b) : b \in {b \in outCursor + 1 .. Target : IsRelease(chain[b])}}
    BY <1>2 DEF PollWithdrawals, Window
  <2>2. \A b : At(b)' = At(b) /\ At(b).block = b
    BY <2>1 DEF At
  <2>3. \A x \in outBatch' : x.block \in outCursor' + 1 .. outTo' /\ x = At(x.block)' /\ IsRelease(chain'[x.block])
    BY <2>1, <2>2
  <2>4. ASSUME NEW b \in 1 .. outTo', IsRelease(chain'[b])
        PROVE  BookedNext(b) \/ (b > outCursor' /\ At(b)' \in outBatch')
    <3>1. CASE b <= outCursor
      <4>1. b \in 1 .. outTo /\ b \in 1 .. Target /\ ~(b > outCursor) /\ chain'[b] = chain[b]
        BY <1>c, <2>1, <2>4, <3>1
      <4> QED BY <1>d, <1>k, <2>4, <4>1
    <3>2. CASE b > outCursor
      <4>1. b \in outCursor + 1 .. Target
        BY <1>c, <2>1, <2>4, <3>2
      <4> QED BY <2>1, <2>2, <2>4, <3>2, <4>1
    <3> QED BY <1>c, <2>1, <2>4, <3>1, <3>2
  <2> QED BY <1>q, <2>3, <2>4
<1>3. CASE Confirm
  <2>1. PICK x \in outBatch : /\ Acknowledges(x) /\ Settles(x) /\ x.block \in Blocks /\ x.event = chain[x.block]
                              /\ HasRow(x.event)
    BY <1>3, Confirming
  <2>2. outBatch' = outBatch \ {x} /\ UNCHANGED <<chain, outCursor, outTo, missed>> /\ Target' = Target
    BY <1>3, <2>1 DEF Acknowledges, Confirm, Target
  <2>3. \A y \in outBatch' : y.block \in outCursor' + 1 .. outTo' /\ y = At(y.block)' /\ IsRelease(chain'[y.block])
    BY <1>b, <1>f, <2>2
  <2>p. PICK k : k = x.event.nonce
    OBVIOUS
  <2>r. k \in DOMAIN slots /\ (k \notin missed => slots[k].status \in {"signed", "confirmed"})
    BY <2>1, <2>p DEF HasRow
  <2>4. k \in missed' \/ slots'[k].status = "confirmed"
    <3>1. CASE slots[k].status = "signed"
      <4>1. Becomes(k, "confirmed")
        BY <2>1, <2>p, <2>r, <3>1 DEF Settles
      <4> QED BY <1>i, <2>r, <4>1, MarkedTable
    <3>2. CASE slots[k].status # "signed"
      <4>1. slots' = slots
        BY <2>1, <2>p, <3>2 DEF Settles
      <4> QED BY <2>2, <2>r, <3>2, <4>1
    <3> QED BY <3>1, <3>2
  <2>5. ASSUME NEW b \in 1 .. outTo', IsRelease(chain'[b])
        PROVE  BookedNext(b) \/ (b > outCursor' /\ At(b)' \in outBatch')
    <3>1. b \in 1 .. outTo /\ b \in 1 .. Target /\ chain'[b] = chain[b] /\ At(b)' = At(b)
      BY <1>c, <1>f, <2>2, <2>5
    <3>2. CASE At(b) = x
      <4>1. chain'[b].nonce = k
        BY <2>p, <3>1, <3>2 DEF At
      <4> QED BY <2>4, <4>1 DEF BookedNext
    <3>3. CASE At(b) # x
      BY <1>d, <1>k, <2>2, <2>5, <3>1, <3>3
    <3> QED BY <3>2, <3>3
  <2> QED BY <1>q, <2>3, <2>5
<1>4. CASE SaveWithdrawals
  <2>1. outBatch = {} /\ outBatch' = {} /\ outCursor' = outTo /\ outTo' = outTo /\ UNCHANGED chain
    BY <1>4 DEF SaveWithdrawals
  <2>2. ASSUME NEW b \in 1 .. outTo', IsRelease(chain'[b]) PROVE BookedNext(b)
    <3>1. b \in 1 .. outTo /\ b \in 1 .. Target /\ IsRelease(chain[b])
      BY <1>c, <2>1, <2>2
    <3>2. Booked(b)
      BY <1>d, <2>1, <3>1
    <3> QED BY <1>k, <3>1, <3>2
  <2> QED BY <1>q, <2>1, <2>2
<1>5. CASE VaultCrash
  <2>1. outBatch' = {} /\ outTo' = outCursor /\ outCursor' = outCursor /\ UNCHANGED chain
    BY <1>5 DEF VaultCrash
  <2>2. ASSUME NEW b \in 1 .. outTo', IsRelease(chain'[b]) PROVE BookedNext(b)
    <3>1. b \in 1 .. outTo /\ b \in 1 .. Target /\ ~(b > outCursor) /\ IsRelease(chain[b])
      BY <1>c, <2>1, <2>2
    <3>2. Booked(b)
      BY <1>d, <3>1
    <3> QED BY <1>k, <3>1, <3>2
  <2> QED BY <1>q, <2>1, <2>2
<1>6. ASSUME \/ MineEmpty \/ \E d \in Deposits : MineDeposit(d)
             \/ \E s \in signatures : Redeem(s) \/ DeadlinePasses(s)
             \/ \E b \in Blocks : Reorg(b)
             \/ \E n \in DOMAIN slots : GrowOld(n) \/ Reap(n)
             \/ \E r \in Requests : SignAndFreeze(r) \/ Refuse(r) \/ \E q \in WithdrawSizes : ReadNonce(r, q)
             \/ PollDeposits \/ Credit \/ SaveDeposits
      PROVE  ReleasesInHand'
  <2>1. UNCHANGED <<outCursor, outTo, outBatch>>
    BY <1>6 DEF MineEmpty, MineDeposit, Redeem, DeadlinePasses, Reorg, GrowOld, Reap, SignAndFreeze, Refuse,
                ReadNonce, PollDeposits, Credit, SaveDeposits, pollers
  <2>2. \A x \in outBatch' : x.block \in outCursor' + 1 .. outTo' /\ x = At(x.block)' /\ IsRelease(chain'[x.block])
    BY <1>b, <1>f, <2>1
  <2>3. ASSUME NEW b \in 1 .. outTo', IsRelease(chain'[b])
        PROVE  BookedNext(b) \/ (b > outCursor' /\ At(b)' \in outBatch')
    BY <1>c, <1>d, <1>f, <1>k, <2>1, <2>3
  <2> QED BY <1>q, <2>2, <2>3
<1> QED BY <1>2, <1>3, <1>4, <1>5, <1>6 DEF VaultNext

----------------------------------------------------------------------------
(* The books *)

\* With the rows and the history given.
Kept(sl, h, f, c) ==
    /\ h = SumIn(sl, {"signed"})
    /\ f + SumIn(sl, {"signed", "confirmed"}) = SumFunctionOnSet([d \in c |-> Worth[d]], c)

LEMMA BooksAre ==
  /\ BooksKept <=> (missed = {} => Kept(slots, held, free, credited))
  /\ BooksKept' <=> (missed' = {} => Kept(slots', held', free', credited'))
BY SumInIs DEF BooksKept, Kept, CreditedSum

LEMMA CreditAdds ==
  ASSUME credited \subseteq Deposits, NEW d \in Deposits, d \notin credited, NEW c, c = credited \cup {d}
  PROVE  /\ SumFunctionOnSet([t \in c |-> Worth[t]], c)
              = SumFunctionOnSet([t \in credited |-> Worth[t]], credited) + Worth[d]
         /\ Worth[d] \in Nat
<1> DEFINE g == [t \in credited |-> Worth[t]]
           h == [t \in c |-> Worth[t]]
<1>1. IsFiniteSet(credited) /\ Worth \in [Deposits -> Nat \ {0}]
  BY VaultAssumption, FS_Subset
<1>2. (\A t \in credited \cup {d} : h[t] \in Int) /\ (\A t \in credited : g[t] = h[t]) /\ h[d] = Worth[d]
  BY <1>1
<1> HIDE DEF g, h
<1>3. SumFunctionOnSet(h, credited \cup {d}) = SumFunctionOnSet(g, credited) + h[d]
  BY <1>1, <1>2, SumGrow
<1> QED BY <1>1, <1>2, <1>3 DEF g, h

LEMMA BooksSteps ==
  ASSUME VaultInv, VaultNext
  PROVE  BooksKept'
<1> DEFINE A == {"signed"}
           B == {"signed", "confirmed"}
<1>i. VaultShape
  BY DEF VaultInv
<1>m. missed' = {} => missed = {}
  <2>1. ASSUME NEW s \in signatures, Redeem(s) PROVE missed \subseteq missed'
    BY <2>1 DEF Redeem
  <2>2. ASSUME NEW n \in DOMAIN slots, Reap(n) PROVE missed \subseteq missed'
    BY <2>2 DEF Reap
  <2>3. ASSUME \/ MineEmpty \/ \E d \in Deposits : MineDeposit(d)
               \/ \E s \in signatures : DeadlinePasses(s)
               \/ \E c \in Blocks : Reorg(c)
               \/ \E n \in DOMAIN slots : GrowOld(n)
               \/ \E r \in Requests : SignAndFreeze(r) \/ Refuse(r) \/ \E q \in WithdrawSizes : ReadNonce(r, q)
               \/ PollDeposits \/ Credit \/ SaveDeposits
               \/ PollWithdrawals \/ Confirm \/ SaveWithdrawals \/ VaultCrash
        PROVE  missed' = missed
    BY <2>3 DEF MineEmpty, MineDeposit, DeadlinePasses, Reorg, GrowOld, SignAndFreeze, Refuse, ReadNonce,
                PollDeposits, Credit, SaveDeposits, PollWithdrawals, Confirm, SaveWithdrawals, VaultCrash
  <2> QED BY <2>1, <2>2, <2>3 DEF VaultNext
<1> SUFFICES ASSUME missed' = {} PROVE Kept(slots', held', free', credited')
  BY BooksAre
<1>z. missed = {} /\ Kept(slots, held, free, credited)
  BY <1>m, BooksAre DEF VaultInv
<1>s. /\ SlotTable(slots) /\ SlotTable(slots') /\ DOMAIN slots \subseteq DOMAIN slots'
      /\ free \in Nat /\ held \in Int
      /\ SumIn(slots, A) \in Nat /\ SumIn(slots, B) \in Nat /\ SumIn(slots', A) \in Nat /\ SumIn(slots', B) \in Nat
  BY <1>i, TableSteps, SumInNat DEF VaultShape
<1>1. ASSUME NEW n \in DOMAIN slots, GrowOld(n) PROVE Kept(slots', held', free', credited')
  <2>1. UNCHANGED <<held, free, credited>>
    BY <1>1 DEF GrowOld
  <2>2. /\ DOMAIN slots' = DOMAIN slots
        /\ \A k \in DOMAIN slots : slots'[k].status = slots[k].status /\ slots'[k].amount = slots[k].amount
    BY <1>i, <1>1, AgedTable
  <2>3. \A S : RowsIn(slots', S) = RowsIn(slots, S) /\ \A m \in RowsIn(slots, S) : slots'[m].amount = slots[m].amount
    BY <2>2 DEF RowsIn
  <2>4. SumIn(slots', A) = SumIn(slots, A) /\ SumIn(slots', B) = SumIn(slots, B)
    BY <2>3, SumInStays
  <2> QED BY <1>z, <2>1, <2>4 DEF Kept
<1>2. ASSUME NEW n \in DOMAIN slots, Reap(n) PROVE Kept(slots', held', free', credited')
  <2>1. /\ Becomes(n, "expired") /\ slots[n].status = "signed"
        /\ held' = held - slots[n].amount /\ free' = free + slots[n].amount /\ credited' = credited
    BY <1>2 DEF Reap, Becomes, Reapable, WithStatus
  <2>2. /\ DOMAIN slots' = DOMAIN slots /\ slots'[n].status = "expired"
        /\ \A k \in DOMAIN slots \ {n} : slots'[k] = slots[k]
    BY <1>i, <2>1, MarkedTable
  <2>3. ASSUME NEW S, S = A \/ S = B PROVE SumIn(slots, S) = SumIn(slots', S) + slots[n].amount
    <3>1. n \notin RowsIn(slots', S) /\ RowsIn(slots, S) = RowsIn(slots', S) \cup {n}
      BY <2>1, <2>2, <2>3 DEF RowsIn
    <3>2. \A m \in RowsIn(slots', S) : slots[m].amount = slots'[m].amount
      BY <2>2, <3>1 DEF RowsIn
    <3> QED BY <1>s, <3>1, <3>2, SumInJoins
  <2>4. PICK a \in Nat : a = slots[n].amount
    BY <1>s DEF SlotTable, SlotT
  <2>5. SumIn(slots, A) = SumIn(slots', A) + a /\ SumIn(slots, B) = SumIn(slots', B) + a
    BY <2>3, <2>4
  <2> HIDE DEF A, B
  <2>6. PICK p \in Nat, q \in Nat, u \in Nat, v \in Nat :
           p = SumIn(slots, A) /\ q = SumIn(slots', A) /\ u = SumIn(slots, B) /\ v = SumIn(slots', B)
    BY <1>s
  <2>7. held = p /\ held' = q /\ free + u = free' + v
    <3>1. held = p
      BY <1>z, <2>6 DEF Kept, A
    <3> QED BY <1>s, <2>1, <2>4, <2>5, <2>6, <3>1
  <2> QED BY <1>z, <2>1, <2>6, <2>7 DEF Kept, A, B
<1>3. ASSUME NEW n \in Nat, NEW amount \in WithdrawSizes, Signs(n, amount) PROVE Kept(slots', held', free', credited')
  <2>1. /\ DOMAIN slots' = DOMAIN slots \cup {n} /\ slots'[n].status = "signed" /\ slots'[n].amount = amount
        /\ \A k \in DOMAIN slots \ {n} : slots'[k] = slots[k]
        /\ n \in DOMAIN slots => slots[n].status = "expired"
    BY <1>i, <1>3, SignedTable
  <2>2. ASSUME NEW S, S = A \/ S = B PROVE SumIn(slots', S) = SumIn(slots, S) + amount
    <3>1. n \notin RowsIn(slots, S) /\ RowsIn(slots', S) = RowsIn(slots, S) \cup {n}
      BY <2>1, <2>2 DEF RowsIn
    <3>2. \A m \in RowsIn(slots, S) : slots'[m].amount = slots[m].amount
      BY <2>1, <3>1 DEF RowsIn
    <3> QED BY <1>s, <2>1, <3>1, <3>2, SumInJoins
  <2>3. SumIn(slots', A) = SumIn(slots, A) + amount /\ SumIn(slots', B) = SumIn(slots, B) + amount
    BY <2>2
  <2>4. amount \in Nat /\ free' = free - amount /\ held' = held + amount /\ credited' = credited
    BY <1>3, VaultAssumption DEF Signs
  <2> HIDE DEF A, B
  <2>6. PICK p \in Nat, q \in Nat, u \in Nat, v \in Nat :
           p = SumIn(slots, A) /\ q = SumIn(slots', A) /\ u = SumIn(slots, B) /\ v = SumIn(slots', B)
    BY <1>s
  <2>7. held = p /\ held' = q /\ free + u = free' + v
    <3>1. held = p
      BY <1>z, <2>6 DEF Kept, A
    <3> QED BY <1>s, <2>3, <2>4, <2>6, <3>1
  <2> QED BY <1>z, <2>4, <2>6, <2>7 DEF Kept, A, B
<1>4. ASSUME Confirm PROVE Kept(slots', held', free', credited')
  <2>1. PICK x \in outBatch : /\ Acknowledges(x) /\ Settles(x) /\ HasRow(x.event)
                              /\ x.event.nonce \in Nat /\ x.event.amount \in Nat
    BY <1>4, Confirming
  <2>2. UNCHANGED <<free, credited>>
    BY <2>1 DEF Acknowledges
  <2>3. CASE slots' = slots /\ held' = held
    BY <1>z, <2>2, <2>3
  <2>4. CASE /\ x.event.nonce \in DOMAIN slots /\ slots[x.event.nonce].status = "signed"
             /\ Becomes(x.event.nonce, "confirmed") /\ held' = held - x.event.amount
    <3>n. PICK n : n = x.event.nonce
      OBVIOUS
    <3>a. PICK a \in Nat : a = x.event.amount
      BY <2>1
    <3>1. /\ n \in DOMAIN slots /\ slots[n].status = "signed" /\ slots[n].amount = a /\ held' = held - a
      BY <1>z, <2>1, <2>4, <3>n, <3>a DEF HasRow
    <3>2. /\ DOMAIN slots' = DOMAIN slots /\ slots'[n].status = "confirmed" /\ slots'[n].amount = slots[n].amount
          /\ \A k \in DOMAIN slots \ {n} : slots'[k] = slots[k]
      BY <1>i, <2>4, <3>n, MarkedTable
    <3>3. SumIn(slots, A) = SumIn(slots', A) + a
      <4>1. n \notin RowsIn(slots', A) /\ RowsIn(slots, A) = RowsIn(slots', A) \cup {n}
        BY <3>1, <3>2 DEF RowsIn
      <4>2. \A m \in RowsIn(slots', A) : slots[m].amount = slots'[m].amount
        BY <3>2, <4>1 DEF RowsIn
      <4> QED BY <1>s, <3>1, <4>1, <4>2, SumInJoins
    <3>4. SumIn(slots', B) = SumIn(slots, B)
      <4>1. RowsIn(slots', B) = RowsIn(slots, B) /\ \A m \in RowsIn(slots, B) : slots'[m].amount = slots[m].amount
        BY <3>1, <3>2 DEF RowsIn
      <4> QED BY <4>1, SumInStays
    <3> QED BY <1>s, <1>z, <2>2, <3>1, <3>3, <3>4 DEF Kept
  <2> QED BY <2>1, <2>3, <2>4 DEF Settles
<1>5. ASSUME Credit PROVE Kept(slots', held', free', credited')
  <2>1. PICK x \in inBatch :
            /\ x.event.tx \in Deposits /\ credited' = credited \cup {x.event.tx}
            /\ free' = IF x.event.tx \notin credited THEN free + Worth[x.event.tx] ELSE free
    BY <1>5, Crediting
  <2>2. UNCHANGED <<slots, held>>
    BY <1>5 DEF Credit
  <2>3. CASE x.event.tx \in credited
    <3>1. credited' = credited /\ free' = free
      BY <2>1, <2>3
    <3> QED BY <1>z, <2>2, <3>1
  <2>4. CASE x.event.tx \notin credited
    <3>1. PICK d \in Deposits : d = x.event.tx
      BY <2>1
    <3>2. PICK c : c = credited'
      OBVIOUS
    <3>3. /\ SumFunctionOnSet([t \in c |-> Worth[t]], c)
                = SumFunctionOnSet([t \in credited |-> Worth[t]], credited) + Worth[d]
          /\ Worth[d] \in Nat
      BY <1>i, <2>1, <2>4, <3>1, <3>2, CreditAdds DEF VaultShape
    <3>4. free' = free + Worth[d]
      BY <2>1, <2>4, <3>1
    <3> HIDE DEF A, B
    <3>5. PICK u \in Nat : u = SumIn(slots, B)
      BY <1>s
    <3>6. free' + u = SumFunctionOnSet([t \in c |-> Worth[t]], c)
      <4>1. free + u = SumFunctionOnSet([t \in credited |-> Worth[t]], credited)
        BY <1>z, <3>5 DEF Kept, B
      <4>2. free' + u = free + u + Worth[d]
        BY <1>s, <3>3, <3>4, <3>5
      <4> QED BY <3>3, <4>1, <4>2
    <3> QED BY <1>z, <2>2, <3>2, <3>5, <3>6 DEF Kept, B
  <2> QED BY <2>3, <2>4
<1>6. ASSUME \/ MineEmpty \/ \E d \in Deposits : MineDeposit(d)
             \/ \E s \in signatures : Redeem(s) \/ DeadlinePasses(s)
             \/ \E b \in Blocks : Reorg(b)
             \/ \E r \in Requests : Refuse(r) \/ \E q \in WithdrawSizes : ReadNonce(r, q)
             \/ PollDeposits \/ SaveDeposits
             \/ PollWithdrawals \/ SaveWithdrawals \/ VaultCrash
      PROVE  Kept(slots', held', free', credited')
  <2>1. UNCHANGED <<slots, credited, free, held>>
    BY <1>6 DEF MineEmpty, MineDeposit, Redeem, DeadlinePasses, Reorg, Refuse, ReadNonce, PollDeposits,
              SaveDeposits, PollWithdrawals, SaveWithdrawals, VaultCrash
  <2> QED BY <1>z, <2>1
<1>7. ASSUME NEW r \in Requests, SignAndFreeze(r) PROVE Kept(slots', held', free', credited')
  BY <1>i, <1>3, <1>7, SigningSigns
<1> QED BY <1>1, <1>2, <1>4, <1>5, <1>6, <1>7 DEF VaultNext

LEMMA VaultStarts ==
  ASSUME VaultInit
  PROVE  VaultInv
<1>1. chain = <<>> /\ Len(chain) = 0 /\ Blocks = {} /\ slots = <<>> /\ DOMAIN slots = {}
  BY DEF VaultInit, Blocks
<1>2. SlotTable(slots)
  <2>1. slots \in [DOMAIN slots -> SlotT]
    <3>1. slots \in Seq(SlotT) /\ Len(slots) = 0
      BY <1>1
    <3>2. slots \in [1 .. Len(slots) -> SlotT]
      BY <3>1, LenProperties
    <3> QED BY <1>1, <3>1, <3>2
  <2> QED BY <1>1, <2>1, FS_EmptySet DEF SlotTable
<1>3. chain \in Seq(BlockT)
  BY <1>1
<1>4. asked \in [Requests -> AskedT]
  BY DEF VaultInit, AskedT
<1>5. VaultShape
  BY <1>1, <1>2, <1>3, <1>4 DEF VaultShape, VaultInit
<1>6. NoncesCount /\ RowsKnown
  BY <1>1 DEF NoncesCount, RowsKnown
<1>7. DepositsInHand /\ ReleasesInHand
  BY DEF VaultInit, DepositsInHand, ReleasesInHand
<1>8. BooksKept
  <2>1. \A S : SumIn(slots, S) = 0
    <3>1. \A S : RowsIn(slots, S) = {}
      BY <1>1 DEF RowsIn
    <3> QED BY <3>1, SumEmpty DEF SumIn
  <2>2. SumFunctionOnSet([d \in {} |-> Worth[d]], {}) = 0
    BY SumEmpty
  <2>3. Kept(slots, 0, 0, {})
    BY <2>1, <2>2 DEF Kept
  <2> QED BY <2>3, BooksAre DEF VaultInit
<1> QED BY <1>5, <1>6, <1>7, <1>8 DEF VaultInv

\* No two releases on the chain have a nonce in common.
LEMMA NoncesDiffer ==
  ASSUME VaultShape, NoncesCount, NEW a \in Blocks, NEW b \in Blocks,
         IsRelease(chain[a]), IsRelease(chain[b]), chain[a].nonce = chain[b].nonce
  PROVE  a = b
<1>f. Len(chain) \in Nat /\ Blocks = 1 .. Len(chain)
  BY ChainFacts
<1> DEFINE Before(c) == {d \in 1 .. c - 1 : IsRelease(chain[d])}
<1>1. \A c \in Blocks : IsFiniteSet(Before(c)) /\ Cardinality(Before(c)) \in Nat
  <2> SUFFICES ASSUME NEW c \in Blocks PROVE IsFiniteSet(Before(c)) /\ Cardinality(Before(c)) \in Nat
    OBVIOUS
  <2>1. IsFiniteSet(1 .. c - 1)
    BY <1>f, FS_Interval
  <2>2. IsFiniteSet(Before(c))
    BY <2>1, FS_Subset
  <2> QED BY <2>2, FS_CardinalityType
<1>2. ASSUME NEW c \in Blocks, NEW d \in Blocks, c < d, IsRelease(chain[c])
      PROVE  Cardinality(Before(c)) < Cardinality(Before(d))
  <2>1. c \in Before(d) /\ c \notin Before(c) /\ Before(c) \subseteq Before(d)
    BY <1>f, <1>2
  <2> HIDE DEF Before
  <2>2. Before(c) # Before(d)
    BY <2>1
  <2>3. Cardinality(Before(c)) <= Cardinality(Before(d)) /\ (Cardinality(Before(c)) = Cardinality(Before(d)) => FALSE)
    BY <1>1, <2>1, <2>2, FS_Subset
  <2> QED BY <1>1, <2>3
<1>3. Cardinality(Before(a)) = Cardinality(Before(b))
  BY DEF NoncesCount
<1> HIDE DEF Before
<1> QED BY <1>f, <1>1, <1>2, <1>3

\* What left the vault was paid by rows still counted.
LEMMA ReleasedCounted ==
  ASSUME VaultInv, missed = {}
  PROVE  Released \in Nat /\ Released <= SumIn(slots, {"signed", "confirmed"})
<1> DEFINE S == {b \in Blocks : IsRelease(chain[b])}
           h == [b \in S |-> chain[b].amount]
           f == [b \in S |-> chain[b].nonce]
           T == {chain[b].nonce : b \in S}
           R == RowsIn(slots, {"signed", "confirmed"})
           g == [n \in R |-> slots[n].amount]
<1>i. VaultShape /\ NoncesCount /\ RowsKnown
  BY DEF VaultInv
<1>1. IsFiniteSet(S)
  <2>1. IsFiniteSet(Blocks)
    BY <1>i, ChainFacts, FS_Interval
  <2> QED BY <2>1, FS_Subset
<1>2. ASSUME NEW b \in S
      PROVE  chain[b].nonce \in R /\ slots[chain[b].nonce].amount = chain[b].amount /\ chain[b].amount \in Nat
  <2>1. HasRow(chain[b]) /\ chain[b] \in BlockT /\ IsRelease(chain[b])
    BY <1>i, ChainFacts DEF RowsKnown
  <2> QED BY <2>1, BlockFacts DEF HasRow, RowsIn
<1>3. \A x, y \in S : f[x] = f[y] => x = y
  BY <1>i, NoncesDiffer
<1>4. \A x \in S : f[x] \in T /\ f[x] \in R /\ g[f[x]] \in Int /\ h[x] = g[f[x]] /\ h[x] \in Nat
  BY <1>2
<1>5. \A y \in T : \E x \in S : y = f[x]
  OBVIOUS
<1>6. T \subseteq R /\ IsFiniteSet(R) /\ \A n \in R : g[n] \in Nat
  <2>1. SlotTable(slots)
    BY <1>i DEF VaultShape
  <2>2. IsFiniteSet(R) /\ \A n \in R : slots[n].amount \in Nat
    BY <2>1, SumInNat
  <2> QED BY <1>2, <2>2
<1>7. Released = SumFunctionOnSet(h, S)
  BY DEF Released, SumFunction
<1>8. SumIn(slots, {"signed", "confirmed"}) = SumFunctionOnSet(g, R)
  BY DEF SumIn
<1> HIDE DEF S, h, f, T, R, g
<1>9. SumFunctionOnSet(g, T) = SumFunctionOnSet(h, S)
  BY <1>1, <1>3, <1>4, <1>5, SumImage
<1>10. SumFunctionOnSet(g, T) <= SumFunctionOnSet(g, R)
  BY <1>6, SumSubset
<1>11. SumFunctionOnSet(h, S) \in Nat
  BY <1>1, <1>4, SumNat
<1> QED BY <1>7, <1>8, <1>9, <1>10, <1>11

\* Only deposits on the chain are credited.
LEMMA CreditedDeposited ==
  ASSUME VaultInv
  PROVE  CreditedSum \in Nat /\ Deposited \in Nat /\ CreditedSum <= Deposited
<1> DEFINE D == {d \in Deposits : OnChain(d)}
           g == [d \in D |-> Worth[d]]
           h == [d \in credited |-> Worth[d]]
<1>i. VaultShape /\ DepositsInHand
  BY DEF VaultInv
<1>1. credited \subseteq D
  BY <1>i, ChainFacts DEF DepositsInHand, VaultShape, OnChain
<1>2. IsFiniteSet(D) /\ IsFiniteSet(credited) /\ Worth \in [Deposits -> Nat \ {0}]
  BY <1>i, VaultAssumption, FS_Subset DEF VaultShape
<1>3. (\A d \in D : g[d] \in Nat /\ g[d] \in Int) /\ \A d \in credited : g[d] \in Int /\ h[d] = g[d]
  BY <1>1, <1>2
<1>4. Deposited = SumFunctionOnSet(g, D) /\ CreditedSum = SumFunctionOnSet(h, credited)
  BY DEF Deposited, CreditedSum, SumFunction
<1>5. \A d \in credited : g[d] \in Nat
  BY <1>1, <1>3
<1> HIDE DEF D, g, h
<1>6. SumFunctionOnSet(h, credited) = SumFunctionOnSet(g, credited)
  BY <1>2, <1>3, SumSame
<1>7. SumFunctionOnSet(g, credited) <= SumFunctionOnSet(g, D)
  BY <1>1, <1>2, <1>3, SumSubset
<1>8. SumFunctionOnSet(g, credited) \in Nat /\ SumFunctionOnSet(g, D) \in Nat
  BY <1>2, <1>3, <1>5, SumNat
<1> QED BY <1>4, <1>6, <1>7, <1>8

LEMMA VaultFollows ==
  ASSUME VaultInv
  PROVE  AccountIsVault
<1>i. VaultShape /\ DepositsInHand /\ ReleasesInHand /\ BooksKept
  BY DEF VaultInv
<1>1. VaultTypeOK
  BY <1>i DEF VaultShape, VaultTypeOK, SlotTable, SlotT
<1>2. FrozenIsSigned
  BY <1>i DEF BooksKept, FrozenIsSigned
<1>3. AvailableIsInVault
  <2> SUFFICES ASSUME missed = {} PROVE free <= Deposited - Released
    BY DEF AvailableIsInVault
  <2>1. free + SumIn(slots, {"signed", "confirmed"}) = CreditedSum
    BY <1>i, SumInIs DEF BooksKept
  <2>2. SumIn(slots, {"signed", "confirmed"}) \in Nat /\ free \in Nat
    BY <1>i, SumInNat DEF VaultShape
  <2> QED BY <2>1, <2>2, ReleasedCounted, CreditedDeposited
<1>4. NothingSkipped
  <2>1. inCursor \in Nat /\ inTo \in Nat /\ inCursor <= inTo /\ outCursor \in Nat /\ outTo \in Nat /\ outCursor <= outTo
    BY <1>i DEF VaultShape
  <2>2. \A b \in 1 .. inCursor : b \in 1 .. inTo /\ ~(b > inCursor)
    BY <2>1
  <2>3. \A b \in 1 .. outCursor : b \in 1 .. outTo /\ ~(b > outCursor)
    BY <2>1
  <2> QED BY <1>i, <2>2, <2>3 DEF DepositsInHand, ReleasesInHand, NothingSkipped
<1> QED BY <1>1, <1>2, <1>3, <1>4 DEF AccountIsVault

LEMMA VaultStutters ==
  ASSUME VaultInv, UNCHANGED vaultVars
  PROVE  VaultInv'
<1>1. /\ chain' = chain /\ signatures' = signatures /\ credited' = credited /\ slots' = slots /\ free' = free
      /\ held' = held /\ asked' = asked /\ missed' = missed /\ inCursor' = inCursor /\ outCursor' = outCursor
      /\ inBatch' = inBatch /\ outBatch' = outBatch /\ inTo' = inTo /\ outTo' = outTo
  BY DEF vaultVars, pollers
<1>2. Blocks' = Blocks /\ Target' = Target /\ \A b : At(b)' = At(b)
  BY <1>1 DEF Blocks, Target, At
<1>3. VaultShape' /\ NoncesCount' /\ RowsKnown'
  BY <1>1, <1>2 DEF VaultInv, VaultShape, NoncesCount, RowsKnown, HasRow
<1>4. DepositsInHand' /\ ReleasesInHand'
  BY <1>1, <1>2 DEF VaultInv, DepositsInHand, ReleasesInHand
<1>5. BooksKept'
  BY <1>1, BooksAre DEF VaultInv
<1> QED BY <1>3, <1>4, <1>5 DEF VaultInv

\* The account of the spot vault and the chain agree as far as the cursors of the
\* pollers reach: what is free lies in the vault, what is frozen is signed, and
\* no event behind a cursor is left undone, whatever crashes, late reapers and
\* reorganisations of unconfirmed blocks come between.
THEOREM VaultKept == VaultSpec => []AccountIsVault
<1>1. VaultInit => VaultInv
  BY VaultStarts
<1>2. VaultInv /\ [VaultNext]_vaultVars => VaultInv'
  BY VaultShapeSteps, NoncesSteps, RowsSteps, CreditsSteps, ReleasesSteps, BooksSteps, VaultStutters DEF VaultInv
<1>3. VaultInv => AccountIsVault
  BY VaultFollows
<1> QED BY <1>1, <1>2, <1>3, PTL DEF VaultSpec
=============================================================================
