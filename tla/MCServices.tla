----------------------------- MODULE MCServices -----------------------------
(* Parts that keep no state in common, for TLC: the spot market, the spot      *)
(* vault, the reserve vault's account, the trigger orders, an earn plan and    *)
(* the orders of an API key.  Each behaviour runs one of them, the others stay *)
(* as they were initialised.                                                   *)
EXTENDS SpotEngine, SpotVault, Custody, TriggerOrders, Earn, DeveloperTrade

CONSTANTS ann, bob, d1, e1, e2, t1, r1, r2, w1, w2, c1, c2, o1, o2

VARIABLE part

vars == <<spotVars, vaultVars, custodyVars, triggerVars, earnVars, apiVars, part>>

Purses == [u \in Traders |-> IF u = ann THEN [base |-> 2, quote |-> 0] ELSE [base |-> 0, quote |-> 3]]
AllRows == Traders \X {"base", "quote"}
Rosters == {AllRows, AllRows \ {<<ann, "quote">>}}
Worths == [d \in Deposits |-> 2]
OneTransaction == [p \in Payments |-> t1]

Init ==
    /\ part \in {"spot", "vault", "custody", "trigger", "earn", "api"}
    /\ SpotInit /\ VaultInit /\ CustodyInit /\ TriggerInit /\ EarnInit /\ ApiInit
    /\ part # "spot" => wallets = AllRows

\* Bound: no faults where a balance row is missing, and nothing after one of the
\* windows that Custody names.
Complete == wallets = AllRows \/ faults' = 0
Clear == astray = {}

\* Bounds: a full chain, a second withdrawal or an error; a second trade, trouble or
\* one trigger that is asked for alone, of four sorts; three orders of which one is
\* big; only a good-till-cancelled order meets an empty book.
Short == Len(log') = MaxChain \/ row'[w2] # NoRow => errors' = 0
Alone == {t \in DOMAIN trig : trig[t].by = "request"}
Calm ==
    /\ trades' = MaxTrades => troubles' = 0
    /\ Alone' # {} => trades' < MaxTrades /\ troubles' = 0 /\ Cardinality(Alone') = 1
    /\ \A t \in Alone' : /\ (trig'[t].kind = "tp") = (trig'[t].usd # 0)
                         /\ (trig'[t].mode = "part") = (trig'[t].of = 0)
Big(o) == o.tif # "market" /\ o.qty > 1
Modest ==
    job'.pc = "insert" =>
        /\ job'.order.tif = "gtc" \/ DOMAIN resting # {}
        /\ Len(spotOrders) = MaxSpotOrders - 1 =>
              Cardinality({i \in Ids : Big(spotOrders[i])}) + (IF Big(job'.order) THEN 1 ELSE 0) <= 1

\* Bounds: an error, lost answer or restart, a second request of the administrator
\* or a second join: one of the three.
Brief ==
    /\ requests' = MaxRequests => hitches' = 0
    /\ requests' = MaxRequests \/ hitches' > 0 =>
          \A u \in Savers : Cardinality(Joins(u)') < MaxJoins

\* Requests, withdrawals and payments are interchangeable: the first goes first.
\* The second request is a small one, where nothing crashed or was reorganised.
FirstAsked ==
    /\ asked[r1].pc = "new" => asked'[r2].pc = "new"
    /\ asked'[r2].pc # "new" => mishaps' = 0
    /\ asked'[r2].pc = "tx" => asked'[r2].amount = 1
FirstDrawn ==
    /\ row[w1] = NoRow => row'[w2] = NoRow
    /\ (\A b \in DOMAIN log : log[b].kind = "deposit" => log[b].from # e1)
          => \A b \in DOMAIN log' : log'[b].kind = "deposit" => log'[b].from # e2

\* Bounds: a second order (one lot, the lowest price) only where nothing is odd; two
\* requests besides the creates only for a limit order without faults, and faults at
\* the lowest price.  Handlers and orders are interchangeable: the first goes first.
Used(o) == orders[o].status # "none" \/ AtWork(o)
IsCreate(c, o) == handler[c].pc = "idle" /\ handler'[c].pc \in {"freeze", "insert"} /\ handler'[c].order = o
OneByOne ==
    /\ odd' # {} \/ calls' > 1 \/ apiFaults' > 0 => ~Used(o2)'
    /\ Used(o2)' => Used(o1)'
    /\ \A c \in Calls : IsCreate(c, o2) => handler'[c].frozen = Frozen(1, 1)
                                         /\ handler'[c].kind = "limit" /\ handler'[c].effect = "open"
    /\ handler'[c2].pc # "idle" /\ handler[c2].pc = "idle" => handler[c1].pc # "idle"
Overlapping ==
    /\ calls' > 1 => /\ apiFaults' = 0 /\ orders[o1].kind = "limit" /\ orders[o1].effect = "open"
                     /\ odd' \cap {"kept", "moved", "unfrozen"} = {}
    /\ apiFaults' > 0 => \A o \in ApiOrders : orders'[o].price < 2

Next ==
    \/ part = "spot" /\ SpotNext /\ Complete /\ Modest
          /\ UNCHANGED <<vaultVars, custodyVars, triggerVars, earnVars, apiVars, part>>
    \/ part = "vault" /\ VaultNext /\ FirstAsked
          /\ UNCHANGED <<spotVars, custodyVars, triggerVars, earnVars, apiVars, part>>
    \/ part = "custody" /\ Clear /\ CustodyNext /\ Short /\ FirstDrawn
          /\ UNCHANGED <<spotVars, vaultVars, triggerVars, earnVars, apiVars, part>>
    \/ part = "trigger" /\ TriggerNext /\ Calm
          /\ UNCHANGED <<spotVars, vaultVars, custodyVars, earnVars, apiVars, part>>
    \/ part = "earn" /\ EarnNext /\ Brief
          /\ UNCHANGED <<spotVars, vaultVars, custodyVars, triggerVars, apiVars, part>>
    \/ part = "api" /\ ApiNext /\ OneByOne /\ Overlapping
          /\ UNCHANGED <<spotVars, vaultVars, custodyVars, triggerVars, earnVars, part>>

Spec == Init /\ [][Next]_vars
=============================================================================
