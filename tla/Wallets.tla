-------------------------------- MODULE Wallets --------------------------------
(***************************************************************************)
(* The wallets of clients and shops and the transactions that move their   *)
(* money: deposits, transfers between clients, withdrawals an admin        *)
(* approves, the admin's own corrections, credits of a shop and what the   *)
(* shop pays from its wallet.                                              *)
(*                                                                         *)
(* A handler that locks one wallet for its whole transaction is one        *)
(* action.  A transfer locks two, the sender's first.  The first wallet of *)
(* a shop is created under a race.  The admin's corrections take no lock.  *)
(***************************************************************************)
EXTENDS Integers, FiniteSets, FiniteSetsExt

CONSTANTS
    Clients, Shops,
    System,         \* user 0, who has no wallet
    Refs,           \* bound: transaction references, used in their order
    Amounts,        \* what one transaction may move
    Opening,        \* the balances of the wallets that exist at the start
    Calls,          \* handlers of a shop's wallet in flight
    Admins,         \* corrections by the admin in flight
    Nobody,         \* no lock holder
    MaxFaults       \* bound: restarts and failed inserts

Owners == Clients \union Shops

ASSUME WalletsAssumption ==
    /\ Clients \intersect Shops = {}
    /\ System \notin Owners
    /\ Nobody \notin Refs \union Calls \union Owners
    /\ Refs \subseteq Nat /\ Refs # {}
    /\ Refs \intersect Calls = {}
    /\ Amounts \subseteq Nat \ {0}
    /\ DOMAIN Opening \subseteq Owners
    /\ \A o \in DOMAIN Opening : Opening[o] \in Nat
    /\ MaxFaults \in Nat

\* What the balances are summed over.
ASSUME FinitelyMany == IsFiniteSet(Refs) /\ IsFiniteSet(Admins)

Motifs == {"WALLET_DEPOSIT", "SUBSCRIPTION", "ORDER_PAYMENT", "PROVIDER_PAYOUT", "REFUND",
           "WITHDRAWAL", "MI_SERVICE"}
Status == {"PENDING", "SUCCESS", "FAILED"}
Txn == [motif : Motifs, from : Owners \union {System}, to : Owners \union {System},
        amount : Nat, status : Status]
NoTxn == [motif |-> "NONE", from |-> System, to |-> System, amount |-> 0, status |-> "NONE"]

\* A correction: the wallet it read, the balance it saw and the one it will save.
Correction == [phase : {"read", "saved"}, owner : Clients, seen : Nat, new : Nat]
NoCorrection == [phase |-> "idle", owner |-> System, seen |-> 0, new |-> 0]

VARIABLES
    wallets,    \* owners whose wallet exists
    balance,    \* client_wallet.balance, pro_wallet.balance
    txn,        \* the transactions table
    lock,       \* who holds the lock on a wallet's row: a transfer or a call
    absent,     \* the shop whose wallet a call has found missing
    fresh,      \* shops whose wallet is inserted and not yet committed
    admin,      \* the corrections in flight
    asDeposit,  \* history: transfers that were confirmed as if they were deposits
    storing,    \* deposits whose request may yet save them again
    undone,     \* history: deposits that a save made PENDING after they had succeeded
    torn,       \* history: owners whose ledger a correction has broken
    faults

locks == <<lock, absent, fresh>>
vars == <<wallets, balance, txn, locks, admin, asDeposit, storing, undone, torn, faults>>

TypeOK ==
    /\ wallets \subseteq Owners
    /\ balance \in [Owners -> Nat]
    /\ txn \in [Refs -> Txn \union {NoTxn}]
    /\ lock \in [Owners -> Refs \union Calls \union {Nobody}]
    /\ absent \in [Calls -> Shops \union {Nobody}]
    /\ fresh \subseteq Shops
    /\ admin \in [Admins -> Correction \union {NoCorrection}]
    /\ asDeposit \subseteq Refs
    /\ storing \subseteq Refs
    /\ undone \subseteq Refs
    /\ torn \subseteq Owners
    /\ faults \in Nat

Init ==
    /\ wallets = DOMAIN Opening
    /\ balance = [o \in Owners |-> IF o \in DOMAIN Opening THEN Opening[o] ELSE 0]
    /\ txn = [r \in Refs |-> NoTxn]
    /\ lock = [o \in Owners |-> Nobody]
    /\ absent = [k \in Calls |-> Nobody]
    /\ fresh = {}
    /\ admin = [m \in Admins |-> NoCorrection]
    /\ asDeposit = {}
    /\ storing = {}
    /\ undone = {}
    /\ torn = {}
    /\ faults = 0

-------------------------------------------------------------------------------
(* Rows and locks.                                                         *)

Unused(r) == txn[r] = NoTxn
Free(o) == lock[o] = Nobody
Available(o) == o \in wallets /\ Free(o)

\* A transfer is being confirmed from its lock on the sender's wallet on; the
\* transaction's row is locked as long.
Paying(r) == \E o \in Owners : lock[o] = r

\* The row of an existing transaction, locked by nobody.
Row(r) == ~Unused(r) /\ ~Paying(r)

Transaction(motif, from, to, amount, status) ==
    [motif |-> motif, from |-> from, to |-> to, amount |-> amount, status |-> status]

Record(r, motif, from, to, amount, status) ==
    /\ Unused(r)
    /\ \A q \in Refs : q < r => ~Unused(q)
    /\ txn' = [txn EXCEPT ![r] = Transaction(motif, from, to, amount, status)]

Settle(r, status) == txn' = [txn EXCEPT ![r].status = status]
Credit(o, amount) == balance' = [balance EXCEPT ![o] = @ + amount]
Debit(o, amount) == balance' = [balance EXCEPT ![o] = @ - amount]

-------------------------------------------------------------------------------
(* Clients.                                                                *)

\* The loser of a race between two of these fails on the UNIQUE column.
getOrCreateWallet(c) ==
    /\ c \notin wallets
    /\ wallets' = wallets \union {c}
    /\ UNCHANGED <<balance, txn, locks, admin, asDeposit, storing, undone, torn, faults>>

\* The row is committed before the provider is called.
initiateDeposit(r, c, amount) ==
    /\ wallets' = wallets \union {c}
    /\ Record(r, "WALLET_DEPOSIT", c, c, amount, "PENDING")
    /\ storing' = storing \union {r}
    /\ UNCHANGED <<balance, locks, admin, asDeposit, undone, torn, faults>>

\* The provider's answer: its id is saved with the transaction the request holds,
\* which is PENDING whatever has become of the row.  No answer, an error or the
\* widget: this step is not taken.  An event between the save's SELECT and its
\* UPDATE leaves what one before or after both would.
storeExternalPaymentId(r) ==
    /\ r \in storing
    /\ Row(r)
    /\ storing' = storing \ {r}
    /\ undone' = IF txn[r].status = "SUCCESS" THEN undone \union {r} ELSE undone
    /\ Settle(r, "PENDING")
    /\ UNCHANGED <<wallets, balance, locks, admin, asDeposit, torn, faults>>

\* The provider's outcome, as a webhook, a poll or the reconciliation job has it.
applyDepositEvent(r, outcome) ==
    /\ Row(r)
    /\ txn[r].motif = "WALLET_DEPOSIT"
    /\ txn[r].status # "SUCCESS"
    /\ \/ /\ outcome = "succeeded"
          /\ Available(txn[r].to)
          /\ Credit(txn[r].to, txn[r].amount)
          /\ Settle(r, "SUCCESS")
       \/ /\ outcome = "failed"
          /\ Settle(r, "FAILED")
          /\ UNCHANGED balance
    /\ UNCHANGED <<wallets, locks, admin, asDeposit, storing, undone, torn, faults>>

\* Mutated form: a deposit that was confirmed before is confirmed again.
confirmDepositAgain(r) ==
    /\ Row(r)
    /\ Available(txn[r].to)
    /\ Credit(txn[r].to, txn[r].amount)
    /\ Settle(r, "SUCCESS")
    /\ asDeposit' = IF txn[r].motif = "ORDER_PAYMENT" THEN asDeposit \union {r} ELSE asDeposit
    /\ UNCHANGED <<wallets, locks, admin, storing, undone, torn, faults>>

\* The receiver of any transaction but a booking's payment is credited, also of
\* a transfer.
confirmDeposit(r) ==
    /\ Row(r)
    /\ txn[r].status # "SUCCESS"
    /\ Available(txn[r].to)
    /\ Credit(txn[r].to, txn[r].amount)
    /\ Settle(r, "SUCCESS")
    /\ asDeposit' = IF txn[r].motif = "ORDER_PAYMENT" THEN asDeposit \union {r} ELSE asDeposit
    /\ UNCHANGED <<wallets, locks, admin, storing, undone, torn, faults>>

initiateUserPayment(r, c, d, amount) ==
    /\ c # d
    /\ c \in wallets
    /\ balance[c] >= amount
    /\ Record(r, "ORDER_PAYMENT", c, d, amount, "PENDING")
    /\ UNCHANGED <<wallets, balance, locks, admin, asDeposit, storing, undone, torn, faults>>

\* confirmUserPayment locks the transaction, the sender's wallet, then the
\* receiver's.
lockSender(r) ==
    /\ Row(r)
    /\ txn[r].status # "SUCCESS"
    /\ txn[r].from \in Clients
    /\ Available(txn[r].from)
    /\ lock' = [lock EXCEPT ![txn[r].from] = r]
    /\ UNCHANGED <<wallets, balance, txn, absent, fresh, admin, asDeposit, storing, undone,
                   torn, faults>>

Release(h) == [o \in Owners |-> IF lock[o] = h THEN Nobody ELSE lock[o]]

\* Mutated form: the balance that initiateUserPayment saw is relied on.
affordsUnchecked(r) == TRUE

\* The second look at the balance, now locked.
affords(r) == balance[txn[r].from] >= txn[r].amount

ReceiverLocked(r) == txn[r].to \in wallets /\ lock[txn[r].to] \in {Nobody, r}
ReceiverWaited(r) == txn[r].to \in wallets /\ lock[txn[r].to] \notin {Nobody, r}

\* Both wallets locked: the debit, the credit and the status in one commit.  For
\* a deposit, sent by its receiver to himself, the credit is saved last and stays.
transfer(r) ==
    LET t == txn[r] IN
    /\ Paying(r)
    /\ ReceiverLocked(r)
    /\ affords(r)
    /\ balance' = IF t.from = t.to THEN [balance EXCEPT ![t.to] = @ + t.amount]
                  ELSE [balance EXCEPT ![t.from] = @ - t.amount, ![t.to] = @ + t.amount]
    /\ Settle(r, "SUCCESS")
    /\ lock' = Release(r)
    /\ UNCHANGED <<wallets, absent, fresh, admin, asDeposit, storing, undone, torn, faults>>

\* No wallet of the receiver, or not enough money: rolled back.
refuseTransfer(r) ==
    /\ Paying(r)
    /\ txn[r].to \notin wallets \/ (ReceiverLocked(r) /\ ~affords(r))
    /\ lock' = Release(r)
    /\ UNCHANGED <<wallets, balance, txn, absent, fresh, admin, asDeposit, storing, undone,
                   torn, faults>>

\* The database gives up on a transaction that waits for a lock, in a deadlock at
\* once, and rolls it back.
lockWaitFails(r) ==
    /\ Paying(r)
    /\ ReceiverWaited(r)
    /\ lock' = Release(r)
    /\ UNCHANGED <<wallets, balance, txn, absent, fresh, admin, asDeposit, storing, undone,
                   torn, faults>>

confirmUserPayment(r) == transfer(r) \/ refuseTransfer(r) \/ lockWaitFails(r)

requestWithdrawal(r, c, amount) ==
    /\ Available(c)
    /\ balance[c] >= amount
    /\ Debit(c, amount)
    /\ Record(r, "WITHDRAWAL", c, System, amount, "PENDING")
    /\ UNCHANGED <<wallets, locks, admin, asDeposit, storing, undone, torn, faults>>

PendingWithdrawal(r) == Row(r) /\ txn[r].motif = "WITHDRAWAL" /\ txn[r].status = "PENDING"

confirmWithdrawal(r) ==
    /\ PendingWithdrawal(r)
    /\ Settle(r, "SUCCESS")
    /\ UNCHANGED <<wallets, balance, locks, admin, asDeposit, storing, undone, torn, faults>>

\* Mutated form: a withdrawal that was paid out is refunded.
rejectAnyWithdrawal(r) ==
    /\ Row(r)
    /\ txn[r].motif = "WITHDRAWAL"
    /\ Available(txn[r].from)
    /\ Credit(txn[r].from, txn[r].amount)
    /\ Settle(r, "FAILED")
    /\ UNCHANGED <<wallets, locks, admin, asDeposit, storing, undone, torn, faults>>

\* The refund goes to the client's wallet, or to the shop's.
rejectWithdrawal(r) ==
    /\ PendingWithdrawal(r)
    /\ Available(txn[r].from)
    /\ Credit(txn[r].from, txn[r].amount)
    /\ Settle(r, "FAILED")
    /\ UNCHANGED <<wallets, locks, admin, asDeposit, storing, undone, torn, faults>>

-------------------------------------------------------------------------------
(* The admin's corrections of a client's wallet: read, save, record.       *)

readWallet(m, c, new) ==
    /\ admin[m].phase = "idle"
    /\ c \in wallets
    /\ admin' = [admin EXCEPT ![m] =
                   [phase |-> "read", owner |-> c, seen |-> balance[c], new |-> new]]
    /\ UNCHANGED <<wallets, balance, txn, locks, asDeposit, storing, undone, torn, faults>>

manualTopUp(m, c, amount) == readWallet(m, c, balance[c] + amount)
resetToZero(m, c) == balance[c] # 0 /\ readWallet(m, c, 0)

\* The balance that was computed is written over whatever the row holds by now.
saveWallet(m) ==
    LET a == admin[m] IN
    /\ a.phase = "read"
    /\ Free(a.owner)
    /\ balance' = [balance EXCEPT ![a.owner] = a.new]
    /\ torn' = IF balance[a.owner] # a.seen THEN torn \union {a.owner} ELSE torn
    /\ admin' = [admin EXCEPT ![m].phase = "saved"]
    /\ UNCHANGED <<wallets, txn, locks, asDeposit, storing, undone, faults>>

recordCorrection(m, r) ==
    LET a == admin[m] IN
    /\ a.phase = "saved"
    /\ IF a.new > a.seen
       THEN Record(r, "WALLET_DEPOSIT", System, a.owner, a.new - a.seen, "SUCCESS")
       ELSE Record(r, "REFUND", a.owner, System, a.seen - a.new, "SUCCESS")
    /\ admin' = [admin EXCEPT ![m] = NoCorrection]
    /\ UNCHANGED <<wallets, balance, locks, asDeposit, storing, undone, torn, faults>>

\* The insert fails, for instance because the reference, built from the current
\* millisecond, was used: the wallet stays as saved.
recordFails(m) ==
    /\ faults < MaxFaults
    /\ admin[m].phase = "saved"
    /\ faults' = faults + 1
    /\ torn' = torn \union {admin[m].owner}
    /\ admin' = [admin EXCEPT ![m] = NoCorrection]
    /\ UNCHANGED <<wallets, balance, txn, locks, asDeposit, storing, undone>>

-------------------------------------------------------------------------------
(* Shops.  A call selects the shop's wallet for update; if there is none   *)
(* it inserts one, which another call may do first.                        *)

getOrCreateShopWallet(s) ==
    /\ s \notin wallets
    /\ Free(s)
    /\ wallets' = wallets \union {s}
    /\ UNCHANGED <<balance, txn, locks, admin, asDeposit, storing, undone, torn, faults>>

Holds(k, s) == lock[s] = k
IdleCall(k) == absent[k] = Nobody /\ \A s \in Shops : ~Holds(k, s)

selectForUpdate(k, s) ==
    /\ IdleCall(k)
    /\ Free(s)
    /\ IF s \in wallets
       THEN lock' = [lock EXCEPT ![s] = k] /\ UNCHANGED absent
       ELSE absent' = [absent EXCEPT ![k] = s] /\ UNCHANGED lock
    /\ UNCHANGED <<wallets, balance, txn, fresh, admin, asDeposit, storing, undone, torn, faults>>

insertWallet(k, s) ==
    /\ absent[k] = s
    /\ s \notin wallets
    /\ Free(s)
    /\ wallets' = wallets \union {s}
    /\ fresh' = fresh \union {s}
    /\ lock' = [lock EXCEPT ![s] = k]
    /\ absent' = [absent EXCEPT ![k] = Nobody]
    /\ UNCHANGED <<balance, txn, admin, asDeposit, storing, undone, torn, faults>>

\* Mutated form: the loser writes the empty wallet it meant to insert.
insertLost(k, s) ==
    /\ absent[k] = s
    /\ s \in wallets
    /\ Free(s)
    /\ balance' = [balance EXCEPT ![s] = 0]
    /\ lock' = [lock EXCEPT ![s] = k]
    /\ absent' = [absent EXCEPT ![k] = Nobody]
    /\ UNCHANGED <<wallets, txn, fresh, admin, asDeposit, storing, undone, torn, faults>>

\* A duplicate key, once the winner has committed: the row is selected again,
\* now locked.
selectWinner(k, s) ==
    /\ absent[k] = s
    /\ s \in wallets
    /\ Free(s)
    /\ lock' = [lock EXCEPT ![s] = k]
    /\ absent' = [absent EXCEPT ![k] = Nobody]
    /\ UNCHANGED <<wallets, balance, txn, fresh, admin, asDeposit, storing, undone, torn, faults>>

\* The gap locks of two calls that found no row exclude each other's insert: the
\* database rolls one of them back.
insertDeadlocks(k, s) ==
    /\ absent[k] = s
    /\ \E j \in Calls \ {k} : absent[j] = s \/ Holds(j, s)
    /\ absent' = [absent EXCEPT ![k] = Nobody]
    /\ UNCHANGED <<wallets, balance, txn, lock, fresh, admin, asDeposit, storing, undone,
                   torn, faults>>

getOrCreateLockedWallet(k, s) ==
    \/ selectForUpdate(k, s)
    \/ insertWallet(k, s)
    \/ selectWinner(k, s)
    \/ insertDeadlocks(k, s)

\* What a call does with the wallet it has locked, in one commit.
Commit(k, s) ==
    /\ Holds(k, s)
    /\ lock' = [lock EXCEPT ![s] = Nobody]
    /\ fresh' = fresh \ {s}
    /\ UNCHANGED <<wallets, absent, admin, asDeposit, storing, undone, torn, faults>>

Spend(k, s, r, motif, amount, status) ==
    /\ balance[s] >= amount
    /\ Debit(s, amount)
    /\ Record(r, motif, s, System, amount, status)
    /\ Commit(k, s)

shopRequestWithdrawal(k, s, r, amount) == Spend(k, s, r, "WITHDRAWAL", amount, "PENDING")
paySubscriptionFromWallet(k, s, r, amount) == Spend(k, s, r, "SUBSCRIPTION", amount, "SUCCESS")

\* creditManual's body: nothing if the reference is known.
applyWalletCredit(k, s, r, amount) ==
    /\ Commit(k, s)
    /\ IF Unused(r)
       THEN Credit(s, amount) /\ Record(r, "PROVIDER_PAYOUT", System, s, amount, "SUCCESS")
       ELSE UNCHANGED <<balance, txn>>

\* Not enough money, or any other error: the transaction is rolled back, with the
\* wallet it inserted.
rollback(k, s) ==
    /\ Holds(k, s)
    /\ lock' = [lock EXCEPT ![s] = Nobody]
    /\ wallets' = IF s \in fresh THEN wallets \ {s} ELSE wallets
    /\ fresh' = fresh \ {s}
    /\ UNCHANGED <<balance, txn, absent, admin, asDeposit, storing, undone, torn, faults>>

\* Mi services paid from the wallet, one or a cart; without a wallet, refused.
initiatePurchase(s, r, amount) ==
    /\ Available(s)
    /\ balance[s] >= amount
    /\ Debit(s, amount)
    /\ Record(r, "MI_SERVICE", s, System, amount, "SUCCESS")
    /\ UNCHANGED <<wallets, locks, admin, asDeposit, storing, undone, torn, faults>>

-------------------------------------------------------------------------------
\* The server restarts: open transactions are rolled back, corrections that were
\* saved are never recorded.
crash ==
    /\ faults < MaxFaults
    /\ faults' = faults + 1
    /\ lock' = [o \in Owners |-> Nobody]
    /\ absent' = [k \in Calls |-> Nobody]
    /\ wallets' = wallets \ fresh
    /\ fresh' = {}
    /\ torn' = torn \union {admin[m].owner : m \in {n \in Admins : admin[n].phase = "saved"}}
    /\ admin' = [m \in Admins |-> NoCorrection]
    /\ storing' = {}
    /\ UNCHANGED <<balance, txn, asDeposit, undone>>

ClientStep ==
    \E c \in Clients :
        \/ getOrCreateWallet(c)
        \/ \E m \in Admins :
              \/ \E amount \in Amounts : manualTopUp(m, c, amount)
              \/ resetToZero(m, c)
        \/ \E r \in Refs, amount \in Amounts :
              \/ initiateDeposit(r, c, amount)
              \/ requestWithdrawal(r, c, amount)
              \/ \E d \in Clients : initiateUserPayment(r, c, d, amount)

SettlementStep ==
    \E r \in Refs :
        \/ \E outcome \in {"succeeded", "failed"} : applyDepositEvent(r, outcome)
        \/ storeExternalPaymentId(r)
        \/ confirmDeposit(r)
        \/ lockSender(r)
        \/ confirmUserPayment(r)
        \/ confirmWithdrawal(r)
        \/ rejectWithdrawal(r)

CorrectionStep ==
    \E m \in Admins :
        \/ saveWallet(m)
        \/ \E r \in Refs : recordCorrection(m, r)
        \/ recordFails(m)

ShopStep ==
    \E s \in Shops :
        \/ getOrCreateShopWallet(s)
        \/ \E r \in Refs, amount \in Amounts : initiatePurchase(s, r, amount)
        \/ \E k \in Calls :
              \/ getOrCreateLockedWallet(k, s)
              \/ rollback(k, s)
              \/ \E r \in Refs, amount \in Amounts :
                    \/ shopRequestWithdrawal(k, s, r, amount)
                    \/ paySubscriptionFromWallet(k, s, r, amount)
                    \/ applyWalletCredit(k, s, r, amount)

Next == ClientStep \/ SettlementStep \/ CorrectionStep \/ ShopStep \/ crash

Spec == Init /\ [][Next]_vars

-------------------------------------------------------------------------------
(* Properties.                                                             *)

\* What the status of a transaction means for a balance: money is received on
\* success; a withdrawal reserves it until it is rejected.
Spent(r) ==
    IF txn[r].motif = "WITHDRAWAL" THEN txn[r].status # "FAILED"
    ELSE txn[r].motif # "WALLET_DEPOSIT" /\ txn[r].status = "SUCCESS" /\ r \notin asDeposit

\* A deposit whose success was overwritten has its money all the same, and will
\* have it twice if it succeeds again.
Effect(r, o) ==
    (IF txn[r].to = o /\ txn[r].status = "SUCCESS" THEN txn[r].amount ELSE 0)
      + (IF txn[r].to = o /\ r \in undone THEN txn[r].amount ELSE 0)
      - (IF txn[r].from = o /\ Spent(r) THEN txn[r].amount ELSE 0)

Unrecorded(m, o) ==
    IF admin[m].owner = o /\ admin[m].phase = "saved" THEN admin[m].new - admin[m].seen ELSE 0

OpeningOf(o) == IF o \in DOMAIN Opening THEN Opening[o] ELSE 0

\* Every balance is what its transactions say, whatever is confirmed twice, raced
\* by an opposite transfer, refused, rolled back or credited under a known
\* reference; a deposit saved back to PENDING after it succeeded has been received
\* once, and twice when it succeeds again.  Only a correction that overwrote another
\* writer's change, or was not recorded, may break it, and only for that wallet.
LedgerExplainsBalance ==
    \A o \in Owners \ torn :
        balance[o] = OpeningOf(o)
                     + MapThenSumSet(LAMBDA r : Effect(r, o), Refs)
                     + MapThenSumSet(LAMBDA m : Unrecorded(m, o), Admins)

Correcting(o) == \E m \in Admins : admin[m].owner = o /\ admin'[m] # admin[m]

MoneyMovesWith(r) ==
    /\ \A q \in Refs \ {r} :
          /\ txn'[q] = txn[q]
          /\ q \in asDeposit' <=> q \in asDeposit
          /\ q \in undone' <=> q \in undone
    /\ \A o \in Owners :
          Correcting(o) \/ balance'[o] - balance[o] = Effect(r, o)' - Effect(r, o)

\* Step by step: money moves with the status of one transaction and by its amount,
\* unless an admin's correction of that wallet is being saved or recorded, or the
\* status is taken back by the save of a provider's id.
MoneyFollowsStatus == [][\E r \in Refs : MoneyMovesWith(r)]_vars

Decided(r) == txn[r].motif = "WITHDRAWAL" /\ txn[r].status # "PENDING"

\* A withdrawal the admin has decided stays decided: it is neither refunded after
\* it was paid, nor confirmed through the endpoints of deposits and transfers.
WithdrawalFinal == [][\A r \in Refs : Decided(r) => txn'[r] = txn[r]]_vars
===============================================================================
