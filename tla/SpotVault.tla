------------------------------ MODULE SpotVault ------------------------------
(* One user's account of the spot vault: deposits and redeemed withdrawals on  *)
(* the chain, the two pollers that follow it, withdrawal requests, the reaper  *)
(* and the rows of spot_balances, spot_deposits and spot_withdrawals.  Blocks  *)
(* hold one event each and the last Depth of them may be reorganised.          *)
EXTENDS Integers, Sequences, FiniteSets, Functions, FiniteSetsExt

CONSTANTS
    Deposits,         \* deposit transactions
    Worth,            \* [Deposits -> Nat]: their amounts
    Requests,         \* withdrawal requests
    WithdrawSizes,
    Depth,            \* bsc_confirmation_depth
    MaxBlocks,        \* bound on the length of the chain
    MaxVaultEvents    \* bound on crashes and reorganisations together

ASSUME VaultAssumption ==
    /\ Worth \in [Deposits -> Nat \ {0}] /\ Depth \in Nat
    /\ WithdrawSizes \subseteq Nat \ {0} /\ IsFiniteSet(Deposits)

VARIABLES
    chain,            \* the blocks: a deposit, a release [nonce, amount] or empty
    signatures,       \* release signatures given out: [nonce, amount, dead]
    credited,         \* spot_deposits: the transactions recorded
    slots,            \* spot_withdrawals by nonce: [status, amount, old]
    free, held,       \* spot_balances: available and frozen
    asked,            \* each request's progress
    inCursor, outCursor,   \* spot_block_sync_state
    inTo, outTo,           \* the block each poller's batch reaches: the cursor, if none
    inBatch, outBatch,     \* the events each poller has still to apply, with their blocks
    mishaps,          \* crashes and reorganisations so far
    missed            \* history: nonces redeemed on chain and expired by the reaper

pollers == <<inCursor, outCursor, inBatch, outBatch, inTo, outTo>>
vaultVars == <<chain, signatures, credited, slots, free, held, asked, pollers, mishaps, missed>>

Blocks == 1 .. Len(chain)
Empty == [kind |-> "empty"]
IsDeposit(e) == e.kind = "deposit"
IsRelease(e) == e.kind = "release"
OnChain(d) == \E b \in Blocks : IsDeposit(chain[b]) /\ chain[b].tx = d
Redeemed(n) == \E b \in Blocks : IsRelease(chain[b]) /\ chain[b].nonce = n

\* release_nonce: the contract counts the releases of the user.
OnChainNonce == Cardinality({b \in Blocks : IsRelease(chain[b])})

VaultInit ==
    /\ chain = <<>> /\ signatures = {} /\ credited = {} /\ slots = <<>>
    /\ free = 0 /\ held = 0
    /\ asked = [r \in Requests |-> [pc |-> "new"]]
    /\ inCursor = 0 /\ outCursor = 0 /\ inBatch = {} /\ outBatch = {}
    /\ inTo = 0 /\ outTo = 0
    /\ mishaps = 0 /\ missed = {}

----------------------------------------------------------------------------
(* The chain, and time *)

Mine(block) ==
    /\ Len(chain) < MaxBlocks
    /\ chain' = Append(chain, block)

MineDeposit(d) ==
    /\ ~OnChain(d) /\ Mine([kind |-> "deposit", tx |-> d])
    /\ UNCHANGED <<signatures, credited, slots, free, held, asked, pollers, mishaps, missed>>

MineEmpty ==
    /\ Mine(Empty)
    /\ UNCHANGED <<signatures, credited, slots, free, held, asked, pollers, mishaps, missed>>

\* The contract takes a signature for its next nonce until the deadline.
Redeem(s) ==
    /\ s \in signatures /\ ~s.dead /\ s.nonce = OnChainNonce
    /\ Mine([kind |-> "release", nonce |-> s.nonce, amount |-> s.amount])
    /\ missed' = missed \cup (IF slots[s.nonce].status = "signed" /\ slots[s.nonce].amount = s.amount
                              THEN {} ELSE {s.nonce})
    /\ UNCHANGED <<signatures, credited, slots, free, held, asked, pollers, mishaps>>

\* The deadline is counted from the signing, the reaper's age from the start of
\* the transaction that signs: a row may be old a little before.
GrowOld(n) ==
    /\ n \in DOMAIN slots /\ slots[n].status = "signed" /\ ~slots[n].old
    /\ slots' = [slots EXCEPT ![n].old = TRUE]
    /\ UNCHANGED <<chain, signatures, credited, free, held, asked, pollers, mishaps, missed>>
DeadlinePasses(s) ==
    /\ s \in signatures /\ ~s.dead /\ slots[s.nonce].old
    /\ signatures' = (signatures \ {s}) \cup {[s EXCEPT !.dead = TRUE]}
    /\ UNCHANGED <<chain, credited, slots, free, held, asked, pollers, mishaps, missed>>

\* A block of the last Depth and all after it lose their transactions, which may
\* be mined again.
Reorg(b) ==
    /\ mishaps < MaxVaultEvents /\ mishaps' = mishaps + 1
    /\ b \in Blocks /\ b > Len(chain) - Depth
    /\ chain' = [c \in Blocks |-> IF c < b THEN chain[c] ELSE Empty]
    /\ UNCHANGED <<signatures, credited, slots, free, held, asked, pollers, missed>>

----------------------------------------------------------------------------
(* request_withdraw: the nonce is read from the chain before the transaction *)

ReadNonce(r, amount) ==
    /\ asked[r].pc = "new"
    /\ asked' = [asked EXCEPT ![r] = [pc |-> "tx", nonce |-> OnChainNonce, amount |-> amount]]
    /\ UNCHANGED <<chain, signatures, credited, slots, free, held, pollers, mishaps, missed>>

WithStatus(S) == {n \in DOMAIN slots : slots[n].status \in S}
PendingFrom(nonce) == {n \in WithStatus({"signed"}) : n >= nonce}

\* Mutated: frozen money can be withdrawn again.
AffordableTwice(amount) == free + held >= amount
Affordable(amount) == free >= amount

\* Past the contract's count and past every confirmed row.
NextNonce(nonce) == Max({nonce} \cup {n + 1 : n \in WithStatus({"confirmed"})})

Reusable(n) == n \in DOMAIN slots => slots[n].status = "expired"

SignAndFreeze(r) ==
    LET n == NextNonce(asked[r].nonce)  amount == asked[r].amount IN
    /\ asked[r].pc = "tx" /\ asked' = [asked EXCEPT ![r] = [pc |-> "done"]]
    /\ Affordable(amount) /\ PendingFrom(asked[r].nonce) = {} /\ Reusable(n)
    /\ slots' = [k \in DOMAIN slots \cup {n} |->
                   IF k = n THEN [status |-> "signed", amount |-> amount, old |-> FALSE]
                   ELSE slots[k]]
    /\ signatures' = signatures \cup {[nonce |-> n, amount |-> amount, dead |-> FALSE]}
    /\ free' = free - amount /\ held' = held + amount
    /\ UNCHANGED <<chain, credited, pollers, mishaps, missed>>

Refuse(r) ==
    /\ asked[r].pc = "tx" /\ asked' = [asked EXCEPT ![r] = [pc |-> "done"]]
    /\ \/ ~Affordable(asked[r].amount)
       \/ PendingFrom(asked[r].nonce) # {}
       \/ ~Reusable(NextNonce(asked[r].nonce))
    /\ UNCHANGED <<chain, signatures, credited, slots, free, held, pollers, mishaps, missed>>

----------------------------------------------------------------------------
(* reap_once: the status is tested again in the update *)

Reapable(n) == n \in WithStatus({"signed"}) /\ slots[n].old

Reap(n) ==
    /\ Reapable(n)
    /\ slots' = [slots EXCEPT ![n].status = "expired"]
    /\ held' = held - slots[n].amount /\ free' = free + slots[n].amount
    /\ missed' = missed \cup (IF Redeemed(n) THEN {n} ELSE {})
    /\ UNCHANGED <<chain, signatures, credited, asked, pollers, mishaps>>

----------------------------------------------------------------------------
(* The pollers: a batch of the blocks deep enough, one transaction for each    *)
(* event, the cursor after the last.                                           *)

\* Mutated: unconfirmed blocks count; the first block of a window is left out.
Tip == Len(chain)
Target == Len(chain) - Depth
WindowAfterNext(cursor) == cursor + 2 .. Target
Window(cursor) == cursor + 1 .. Target
At(b) == [block |-> b, event |-> chain[b]]
IsFirst(x, batch) == \A y \in batch : x.block <= y.block

PollDeposits ==
    /\ inTo = inCursor /\ Target > inCursor /\ inTo' = Target
    /\ inBatch' = {At(b) : b \in {b \in Window(inCursor) : IsDeposit(chain[b])}}
    /\ UNCHANGED <<chain, signatures, credited, slots, free, held, asked,
                   inCursor, outCursor, outBatch, outTo, mishaps, missed>>

\* ON CONFLICT DO NOTHING: only a new row credits.
IsNew(d) == d \notin credited
Credit ==
    /\ \E x \in inBatch :
          LET d == x.event.tx IN
          /\ IsFirst(x, inBatch) /\ inBatch' = inBatch \ {x}
          /\ credited' = credited \cup {d}
          /\ free' = IF IsNew(d) THEN free + Worth[d] ELSE free
    /\ UNCHANGED <<chain, signatures, slots, held, asked,
                   inCursor, outCursor, outBatch, inTo, outTo, mishaps, missed>>

SaveDeposits ==
    /\ inBatch = {} /\ inCursor < inTo /\ inCursor' = inTo
    /\ UNCHANGED <<chain, signatures, credited, slots, free, held, asked,
                   outCursor, inBatch, outBatch, inTo, outTo, mishaps, missed>>

PollWithdrawals ==
    /\ outTo = outCursor /\ Target > outCursor /\ outTo' = Target
    /\ outBatch' = {At(b) : b \in {b \in Window(outCursor) : IsRelease(chain[b])}}
    /\ UNCHANGED <<chain, signatures, credited, slots, free, held, asked,
                   inCursor, outCursor, inBatch, inTo, mishaps, missed>>

\* Mutated: the lock is dropped for any row.
AnyKnown(n) == n \in DOMAIN slots

\* Only a signed row is confirmed, and only then the lock is dropped, by the
\* amount of the event.
Confirmable(n) == n \in WithStatus({"signed"})
Confirm ==
    /\ \E x \in outBatch :
          LET e == x.event IN
          /\ IsFirst(x, outBatch) /\ outBatch' = outBatch \ {x}
          /\ slots' = IF Confirmable(e.nonce) THEN [slots EXCEPT ![e.nonce].status = "confirmed"]
                      ELSE slots
          /\ held' = IF Confirmable(e.nonce) THEN held - e.amount ELSE held
    /\ UNCHANGED <<chain, signatures, credited, free, asked,
                   inCursor, outCursor, inBatch, inTo, outTo, mishaps, missed>>

SaveWithdrawals ==
    /\ outBatch = {} /\ outCursor < outTo /\ outCursor' = outTo
    /\ UNCHANGED <<chain, signatures, credited, slots, free, held, asked,
                   inCursor, inBatch, outBatch, inTo, outTo, mishaps, missed>>

\* The process dies; a poller's error ends its pass in the same way.
VaultCrash ==
    /\ mishaps < MaxVaultEvents /\ mishaps' = mishaps + 1
    /\ inBatch' = {} /\ outBatch' = {} /\ inTo' = inCursor /\ outTo' = outCursor
    /\ asked' = [r \in Requests |-> IF asked[r].pc = "tx" THEN [pc |-> "done"] ELSE asked[r]]
    /\ UNCHANGED <<chain, signatures, credited, slots, free, held, inCursor, outCursor, missed>>

VaultNext ==
    \/ MineEmpty \/ \E d \in Deposits : MineDeposit(d)
    \/ \E s \in signatures : Redeem(s) \/ DeadlinePasses(s)
    \/ \E n \in DOMAIN slots : GrowOld(n) \/ Reap(n)
    \/ \E b \in Blocks : Reorg(b)
    \/ \E r \in Requests : SignAndFreeze(r) \/ Refuse(r) \/ \E q \in WithdrawSizes : ReadNonce(r, q)
    \/ PollDeposits \/ Credit \/ SaveDeposits
    \/ PollWithdrawals \/ Confirm \/ SaveWithdrawals
    \/ VaultCrash

VaultSpec == VaultInit /\ [][VaultNext]_vaultVars

----------------------------------------------------------------------------
(* Properties *)

VaultTypeOK ==
    /\ credited \subseteq Deposits /\ missed \subseteq Nat
    /\ free \in Nat /\ held \in Int /\ inCursor \in Nat /\ outCursor \in Nat
    /\ \A n \in DOMAIN slots :
          n \in Nat /\ slots[n].status \in {"signed", "expired", "confirmed"}
    /\ \A s \in signatures : s.nonce \in DOMAIN slots

Deposited == SumFunction([d \in {d \in Deposits : OnChain(d)} |-> Worth[d]])
Released == SumFunction([b \in {b \in Blocks : IsRelease(chain[b])} |-> chain[b].amount])
SumWithStatus(S) == SumFunction([n \in WithStatus(S) |-> slots[n].amount])

\* What the user may trade or withdraw lies in the vault: no deposit counts
\* twice or before it is final, and no money that left the vault is spendable,
\* whatever order the pollers, the reaper, crashes and reorganisations take,
\* unless the reaper expired a withdrawal that is, or then is, redeemed.
AvailableIsInVault == missed = {} => free <= Deposited - Released

\* The frozen balance is the sum of the signed withdrawals (the reconciler's
\* third invariant, for an account without spot orders).
FrozenIsSigned ==
    missed = {} => held = SumWithStatus({"signed"})

\* Nothing behind a cursor is left undone: every deposit was credited, every
\* redeemed withdrawal confirmed, also when a crash fell between events.
NothingSkipped ==
    /\ \A b \in 1 .. inCursor : IsDeposit(chain[b]) => chain[b].tx \in credited
    /\ \A b \in 1 .. outCursor :
          IsRelease(chain[b]) /\ chain[b].nonce \notin missed
              => slots[chain[b].nonce].status = "confirmed"

\* The account and the chain agree as far as the cursors reach, in both directions
\* and for what is frozen.
AccountIsVault == VaultTypeOK /\ AvailableIsInVault /\ FrozenIsSigned /\ NothingSkipped
=============================================================================
