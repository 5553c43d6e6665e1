--------------------------- MODULE BookingLifecycle ---------------------------
(***************************************************************************)
(* The life of a booking: checkout, payment events, the QR scans that      *)
(* start and end the service, rescheduling, cancelling, the NO_SHOW and    *)
(* stale-pending sweeps, and the credit of the shop's wallet.              *)
(*                                                                         *)
(* Handlers that hold a row lock for their whole transaction are one       *)
(* action.  Handlers that read a row, change it in memory and call         *)
(* repository.save are three: the read, the save's own re-read (which      *)
(* decides the columns that differ) and the UPDATE of those columns.       *)
(* Time is counted in units of fifteen minutes.                            *)
(***************************************************************************)
EXTENDS Integers, FiniteSets, FiniteSetsExt

CONSTANTS
    Bookings, Shops, ShopOf, Amount,    \* as in BookingEscrow
    Carts,              \* the checkouts: disjoint sets of bookings paid together
    ClientOf, Clients,  \* the client of a cart
    Total,              \* the price of a cart
    Funds,              \* the clients' wallet balances at the start
    Paygate,            \* the carts whose external provider is PayGate
    Workers, WorkerOf, NoWorker,    \* the worker a booking is assigned, if any
    Slots,              \* the moments a booking may be scheduled at
    DURATION,           \* booking_end_time - booking_time at checkout
    CHECKIN_GRACE, NO_SHOW_GRACE,   \* CHECKIN_GRACE_MINUTES, NO_SHOW_GRACE_MINUTES
    PENDING_GRACE, MAX_AGE,         \* the 30 minutes and the MAX_AGE_HOURS
    Handlers, Kind,     \* unlocked handlers in flight and what each one runs
    MaxTime,            \* bound: the clock stops here
    LastCheckout,       \* bound: no checkout after this moment
    MaxTokens,          \* bound: QR tokens minted per booking
    MaxCalls,           \* bound: creditForBooking calls in flight per booking
    MaxFaults           \* bound: crashes and failed credits

NoToken == 0
Status == {"NONE", "PENDING_PAYMENT", "CONFIRMED", "CANCELLED", "PAYMENT_FAILED",
           "IN_SERVICE", "DONE", "NO_SHOW"}
TxnStatus == {"NONE", "PENDING", "SUCCESS", "FAILED"}
Kinds == {"reschedule", "cancel", "lazyNoShow", "markExpired", "cancelStale"}
Columns == {"status", "paid", "slot", "checkin", "checkout", "inAt"}

\* inAt is 1 + the moment of check-in; 0 in inAt and in end is null.  A token of booking b is its
\* number among those minted for b, since a UUID never occurs twice.
Row == [status : Status, paid : {0, 1}, slot : Nat, end : Nat, checkin : Nat,
        checkout : Nat, inAt : Nat, created : Nat]
NoRow == [status |-> "NONE", paid |-> 0, slot |-> 0, end |-> 0, checkin |-> NoToken,
          checkout |-> NoToken, inAt |-> 0, created |-> 0]
NoRows == [b \in Bookings |-> NoRow]

Event == [to : SUBSET Bookings, outcome : {"succeeded", "failed"}]
Entry == [ref : {"BOOKING-PAYOUT", "BOOKING-COMMISSION"}, booking : Bookings, amount : Nat]
Op == [phase : {"idle", "read", "diffed"}, snap : [Bookings -> Row],
       cols : [Bookings -> SUBSET Columns]]
Idle == [phase |-> "idle", snap |-> NoRows, cols |-> [b \in Bookings |-> {}]]

ASSUME ConstantsAssumption ==
    /\ Carts \subseteq SUBSET Bookings
    /\ \A c, d \in Carts : c # d => c \intersect d = {}
    /\ ShopOf \in [Bookings -> Shops]
    /\ Amount \in [Bookings -> Nat]
    /\ ClientOf \in [Carts -> Clients]
    /\ Total \in [Carts -> Nat]
    /\ Funds \in [Clients -> Nat]
    /\ NoWorker \notin Workers
    /\ WorkerOf \in [Bookings -> Workers \union {NoWorker}]
    /\ Slots \subseteq Nat
    /\ \A c \in Carts : Cardinality(c) > 1 => \A b \in c : WorkerOf[b] = NoWorker
    /\ DURATION \in Nat \ {0} /\ CHECKIN_GRACE \in Nat /\ NO_SHOW_GRACE \in Nat
    /\ Kind \in [Handlers -> Kinds]

ASSUME TotalAssumption ==
    \A c \in Carts : Total[c] = MapThenSumSet(LAMBDA b : Amount[b], c)

VARIABLES
    row,        \* the bookings table
    txn,        \* transactions.status of a booking's payment
    wallet,     \* client_wallet.balance
    billed,     \* carts handed to an external payment provider
    awaiting,   \* carts whose checkout request still awaits that provider
    charged,    \* bookings whose client was charged, by wallet or by the provider
    sent,       \* outcomes the provider has reported: deliverable any number of times
    now,        \* the clock
    minted,     \* QR tokens minted per booking
    used,       \* check-in tokens consumed per booking
    finished,   \* bookings ended by a check-out scan
    ops,        \* the unlocked handlers
    worker,     \* workers.status: is the worker 'occupe'
    credits,    \* creditForBooking calls queued or in flight
    ledger,     \* the payout and commission transactions
    balance,    \* pro_wallet.balance
    faults      \* faults that have happened

paymentVars == <<txn, wallet, billed, awaiting, charged, sent>>
scanVars == <<used, finished, worker>>
payoutVars == <<credits, ledger, balance>>
vars == <<row, paymentVars, now, minted, scanVars, ops, payoutVars, faults>>

TypeOK ==
    /\ row \in [Bookings -> Row]
    /\ txn \in [Bookings -> TxnStatus]
    /\ wallet \in [Clients -> Nat]
    /\ billed \subseteq Carts
    /\ awaiting \subseteq billed
    /\ charged \subseteq Bookings
    /\ sent \subseteq Event
    /\ now \in Nat
    /\ minted \in [Bookings -> Nat]
    /\ used \in [Bookings -> SUBSET Nat]
    /\ finished \subseteq Bookings
    /\ ops \in [Handlers -> Op]
    /\ worker \in [Workers -> BOOLEAN]
    /\ credits \in [Bookings -> Nat]
    /\ ledger \subseteq Entry
    /\ balance \in [Shops -> Nat]
    /\ faults \in Nat

Init ==
    /\ row = NoRows
    /\ txn = [b \in Bookings |-> "NONE"]
    /\ wallet = Funds
    /\ billed = {}
    /\ awaiting = {}
    /\ charged = {}
    /\ sent = {}
    /\ now = 0
    /\ minted = [b \in Bookings |-> 0]
    /\ used = [b \in Bookings |-> {}]
    /\ finished = {}
    /\ ops = [h \in Handlers |-> Idle]
    /\ worker = [w \in Workers |-> FALSE]
    /\ credits = [b \in Bookings |-> 0]
    /\ ledger = {}
    /\ balance = [s \in Shops |-> 0]
    /\ faults = 0

-------------------------------------------------------------------------------
(* Helpers of the handlers.                                                *)

Fresh(b) == minted[b] + 1
CanMint(B) == \A b \in B : minted[b] < MaxTokens
Mint(B) == minted' = [b \in Bookings |-> IF b \in B THEN Fresh(b) ELSE minted[b]]

CanCheckIn(r) == now >= r.slot - CHECKIN_GRACE
Expired(r) == r.status = "CONFIRMED" /\ now - r.slot > NO_SHOW_GRACE

\* Mutated form: PayGate bookings are left alone for ever.
StalePendingNotPaygate(b) ==
    /\ row[b].status = "PENDING_PAYMENT"
    /\ now - row[b].created > PENDING_GRACE
    /\ ~\E c \in Paygate : b \in c

\* The pending bookings the hourly job takes for abandoned.
StalePending(b) ==
    /\ row[b].status = "PENDING_PAYMENT"
    /\ now - row[b].created >
         IF \E c \in Paygate : b \in c THEN MAX_AGE ELSE PENDING_GRACE

\* A booking row as checkout inserts it; a bulk checkout leaves its end null.
NewRow(status, paid, slot, end, token) ==
    [status |-> status, paid |-> paid, slot |-> slot, end |-> end, checkin |-> token,
     checkout |-> NoToken, inAt |-> 0, created |-> now]

-------------------------------------------------------------------------------
(* Checkout.  A cart of one booking goes through the single endpoint, a    *)
(* larger one through the bulk endpoint.                                   *)

NotBooked(c) == now <= LastCheckout /\ \A b \in c : row[b].status = "NONE"
End(slot, bulk) == IF bulk THEN 0 ELSE slot + DURATION

\* Mutated form: a debit without a look at the balance.
neverChecked(c) == TRUE

\* The balance check, made with the wallet's row locked.
canPay(c) == wallet[ClientOf[c]] >= Total[c]

\* One debit of the cart's total; its bookings are confirmed, each with its
\* check-in token.
bookFromWallet(c, slot, bulk) ==
    /\ CanMint(c)
    /\ canPay(c)
    /\ wallet' = [wallet EXCEPT ![ClientOf[c]] = @ - Total[c]]
    /\ row' = [b \in Bookings |->
                 IF b \in c THEN NewRow("CONFIRMED", 1, slot[b], End(slot[b], bulk), Fresh(b))
                 ELSE row[b]]
    /\ Mint(c)
    /\ txn' = [b \in Bookings |-> IF b \in c THEN "SUCCESS" ELSE txn[b]]
    /\ charged' = charged \union c
    /\ UNCHANGED <<billed, awaiting, sent, now, scanVars, ops, payoutVars, faults>>

\* Up to the commit of the pending rows; the request then awaits the provider.
bookPending(c, slot, bulk) ==
    /\ row' = [b \in Bookings |->
                 IF b \in c
                 THEN NewRow("PENDING_PAYMENT", 0, slot[b], End(slot[b], bulk), NoToken)
                 ELSE row[b]]
    /\ txn' = [b \in Bookings |-> IF b \in c THEN "PENDING" ELSE txn[b]]
    /\ billed' = billed \union {c}
    /\ awaiting' = awaiting \union {c}
    /\ UNCHANGED <<wallet, charged, sent, now, minted, scanVars, ops, payoutVars, faults>>

checkoutWithWallet(c, slot) == bookFromWallet(c, slot, FALSE)
checkoutWithExternalProvider(c, slot) == bookPending(c, slot, FALSE)
bulkCheckoutWithWallet(c, slot) == bookFromWallet(c, slot, TRUE)
bulkCheckoutWithExternalProvider(c, slot) == bookPending(c, slot, TRUE)

initiateCheckout(c, slot) ==
    /\ NotBooked(c)
    /\ Cardinality(c) = 1
    /\ checkoutWithWallet(c, slot) \/ checkoutWithExternalProvider(c, slot)

initiateBulkCheckout(c, slot) ==
    /\ NotBooked(c)
    /\ Cardinality(c) > 1
    /\ bulkCheckoutWithWallet(c, slot) \/ bulkCheckoutWithExternalProvider(c, slot)

\* The provider answered with an id: a single checkout saves its in-memory
\* transaction, whose status is still PENDING.
storeExternalPaymentId(c) ==
    /\ c \in awaiting
    /\ Cardinality(c) = 1
    /\ awaiting' = awaiting \ {c}
    /\ txn' = [b \in Bookings |-> IF b \in c THEN "PENDING" ELSE txn[b]]
    /\ UNCHANGED <<row, wallet, billed, charged, sent, now, minted, scanVars, ops, payoutVars, faults>>

\* The provider gave no id to store, or the call failed: the rows stay pending.
initiationEnds(c) ==
    /\ c \in awaiting
    /\ awaiting' = awaiting \ {c}
    /\ UNCHANGED <<row, txn, wallet, billed, charged, sent, now, minted, scanVars, ops, payoutVars, faults>>

\* The provider reports an outcome under the reference it was given.  PayGate,
\* asked by the reference of one booking of a bulk payment, which it was never
\* given, knows no such payment: checkStatusByIdentifier makes that a failure.
providerReports(c, to, outcome) ==
    /\ c \in billed
    /\ to = c \/ (c \in Paygate /\ outcome = "failed")
    /\ sent' = sent \union {[to |-> to, outcome |-> outcome]}
    /\ charged' = IF outcome = "succeeded" THEN charged \union to ELSE charged
    /\ UNCHANGED <<row, txn, wallet, billed, awaiting, now, minted, scanVars, ops, payoutVars, faults>>

\* A payment event acts on bookings whatever their statuses; a failure leaves
\* their tokens as they are.
confirmBookings(B) ==
    /\ CanMint(B)
    /\ txn' = [b \in Bookings |-> IF b \in B THEN "SUCCESS" ELSE txn[b]]
    /\ row' = [b \in Bookings |->
                 IF b \in B
                 THEN [row[b] EXCEPT !.status = "CONFIRMED", !.paid = 1, !.checkin = Fresh(b)]
                 ELSE row[b]]
    /\ Mint(B)

failBookings(B) ==
    /\ txn' = [b \in Bookings |-> IF b \in B THEN "FAILED" ELSE txn[b]]
    /\ row' = [b \in Bookings |->
                 IF b \in B THEN [row[b] EXCEPT !.status = "PAYMENT_FAILED", !.paid = 0]
                 ELSE row[b]]
    /\ UNCHANGED minted

\* Mutated form: a reported failure confirms the bookings too.
confirmAnyOutcome(B, outcome) == confirmBookings(B)

applyBookingPaymentEvent(B, outcome) ==
    \/ outcome = "succeeded" /\ confirmBookings(B)
    \/ outcome = "failed" /\ failBookings(B)

\* Mutated form: a transaction that has succeeded is not left alone.
applyEventAgain(e) ==
    /\ applyBookingPaymentEvent(e.to, e.outcome)
    /\ UNCHANGED <<wallet, billed, awaiting, charged, sent, now, scanVars, ops, payoutVars, faults>>

\* One transaction, the rows locked, for every booking under the reference whose
\* payment has not succeeded yet.
applyPaymentEvent(e) ==
    LET B == {b \in e.to : txn[b] # "SUCCESS"} IN
    /\ B # {}
    /\ applyBookingPaymentEvent(B, e.outcome)
    /\ UNCHANGED <<wallet, billed, awaiting, charged, sent, now, scanVars, ops, payoutVars, faults>>

-------------------------------------------------------------------------------
(* The QR scans, each under a row lock.                                    *)

SetBusy(b, busy) ==
    worker' = [w \in Workers |-> IF w = WorkerOf[b] THEN busy ELSE worker[w]]

\* Mutated form: the status check is dropped.
qrCheckinAnyStatus(b) ==
    /\ row[b].checkin # NoToken
    /\ CanCheckIn(row[b])
    /\ CanMint({b})
    /\ row' = [row EXCEPT ![b].status = "IN_SERVICE", ![b].inAt = now + 1,
                          ![b].checkout = Fresh(b), ![b].checkin = NoToken]
    /\ Mint({b})
    /\ SetBusy(b, TRUE)
    /\ used' = [used EXCEPT ![b] = @ \union {row[b].checkin}]
    /\ UNCHANGED <<paymentVars, now, finished, ops, payoutVars, faults>>

qrCheckin(b) ==
    /\ row[b].status = "CONFIRMED"
    /\ row[b].checkin # NoToken
    /\ CanCheckIn(row[b])
    /\ CanMint({b})
    /\ row' = [row EXCEPT ![b].status = "IN_SERVICE", ![b].inAt = now + 1,
                          ![b].checkout = Fresh(b), ![b].checkin = NoToken]
    /\ Mint({b})
    /\ SetBusy(b, TRUE)
    /\ used' = [used EXCEPT ![b] = @ \union {row[b].checkin}]
    /\ UNCHANGED <<paymentVars, now, finished, ops, payoutVars, faults>>

\* Mutated form: the subscriber never hears of the update.
queueNoCredit(b) == credits' = credits

\* afterUpdate: a row that became DONE queues the credit of a service that has
\* a price; it is applied after the commit.
queueCredit(b) == credits' = IF Amount[b] > 0 THEN [credits EXCEPT ![b] = @ + 1] ELSE credits

qrCheckout(b) ==
    /\ row[b].status = "IN_SERVICE"
    /\ row[b].checkout # NoToken
    /\ row' = [row EXCEPT ![b].status = "DONE", ![b].checkout = NoToken]
    /\ SetBusy(b, FALSE)
    /\ finished' = finished \union {b}
    /\ queueCredit(b)
    /\ UNCHANGED <<paymentVars, now, minted, used, ops, ledger, balance, faults>>

-------------------------------------------------------------------------------
(* Unlocked handlers: each reads rows and changes them in memory.          *)

\* Handler h, of this kind, has read the bookings B and will save them as changed.
Read(h, kind, B, changed) ==
    /\ Kind[h] = kind
    /\ ops[h].phase = "idle"
    /\ B # {}
    /\ ops' = [ops EXCEPT ![h] =
                 [phase |-> "read", cols |-> [b \in Bookings |-> {}],
                  snap |-> [b \in Bookings |-> IF b \in B THEN changed[b] ELSE NoRow]]]
    /\ UNCHANGED <<row, paymentVars, now, scanVars, payoutVars, faults>>

CancelledRows == [b \in Bookings |-> [row[b] EXCEPT !.status = "CANCELLED"]]
NoShowRows == [b \in Bookings |-> [row[b] EXCEPT !.status = "NO_SHOW"]]
\* Mutated form: every rescheduled booking becomes confirmed.
RescheduledConfirmed(r, slot, token) ==
    [r EXCEPT !.status = "CONFIRMED", !.slot = slot, !.checkin = token]

\* Mutated form: a rescheduled booking keeps its token.
RescheduledSameToken(r, slot, token) ==
    [r EXCEPT !.status = IF @ = "NO_SHOW" THEN "CONFIRMED" ELSE @, !.slot = slot]

Rescheduled(r, slot, token) ==
    [r EXCEPT !.status = IF @ = "NO_SHOW" THEN "CONFIRMED" ELSE @,
              !.slot = slot, !.checkin = token]

reschedule(h, b, slot) ==
    /\ row[b].status \in {"CONFIRMED", "PENDING_PAYMENT", "NO_SHOW"}
    /\ CanMint({b})
    /\ Read(h, "reschedule", {b}, [x \in Bookings |-> Rescheduled(row[x], slot, Fresh(x))])
    /\ Mint({b})

cancel(h, b) ==
    /\ row[b].status \in {"CONFIRMED", "PENDING_PAYMENT", "NO_SHOW"}
    /\ Read(h, "cancel", {b}, CancelledRows)
    /\ UNCHANGED minted

\* The read endpoints mark as missed the expired bookings they return.
markMissed(h, B) ==
    /\ Read(h, "lazyNoShow", {b \in B : Expired(row[b])}, NoShowRows)
    /\ UNCHANGED minted

findOne(h, b) == markMissed(h, {b})
userBookingsByStatus(h, client) == markMissed(h, UNION {c \in Carts : ClientOf[c] = client})
findByProvider(h, page) ==
    /\ \A b, d \in page : ShopOf[b] = ShopOf[d]
    /\ markMissed(h, page)

\* Mutated form: only the bookings whose grace ends at this very run.
markJustExpired(h) ==
    /\ Read(h, "markExpired",
            {b \in Bookings : Expired(row[b]) /\ now = row[b].slot + NO_SHOW_GRACE}, NoShowRows)
    /\ UNCHANGED minted

markExpiredConfirmedBookings(h) ==
    /\ Read(h, "markExpired", {b \in Bookings : Expired(row[b])}, NoShowRows)
    /\ UNCHANGED minted

cancelStalePendingBookings(h) ==
    /\ Read(h, "cancelStale", {b \in Bookings : StalePending(b)}, CancelledRows)
    /\ UNCHANGED minted

\* repository.save, first half: it re-reads each row and notes the columns in
\* which the entity differs.
saveDiff(h) ==
    /\ ops[h].phase = "read"
    /\ ops' = [ops EXCEPT ![h].phase = "diffed",
                 ![h].cols = [b \in Bookings |->
                   IF ops[h].snap[b].status = "NONE" THEN {}
                   ELSE {c \in Columns : ops[h].snap[b][c] # row[b][c]}]]
    /\ UNCHANGED <<row, paymentVars, now, minted, scanVars, payoutVars, faults>>

Merge(r, s, cols) ==
    [r EXCEPT !.status = IF "status" \in cols THEN s.status ELSE @,
              !.paid = IF "paid" \in cols THEN s.paid ELSE @,
              !.slot = IF "slot" \in cols THEN s.slot ELSE @,
              !.checkin = IF "checkin" \in cols THEN s.checkin ELSE @,
              !.checkout = IF "checkout" \in cols THEN s.checkout ELSE @,
              !.inAt = IF "inAt" \in cols THEN s.inAt ELSE @]

\* repository.save, second half: one transaction of UPDATEs of those columns.
saveUpdate(h) ==
    /\ ops[h].phase = "diffed"
    /\ row' = [b \in Bookings |-> Merge(row[b], ops[h].snap[b], ops[h].cols[b])]
    /\ ops' = [ops EXCEPT ![h] = Idle]
    /\ UNCHANGED <<paymentVars, now, minted, scanVars, payoutVars, faults>>

-------------------------------------------------------------------------------
(* The credit of the shop's wallet.                                        *)

E == INSTANCE BookingEscrow WITH
        started <- {b \in Bookings : used[b] # {}},
        paidOut <- {b \in Bookings : \E e \in ledger :
                      e.booking = b /\ e.ref = "BOOKING-PAYOUT"}

Recorded(ref, b) == \E e \in ledger : e.ref = ref /\ e.booking = b

\* Mutated form: the payout is not looked up before it is made.
creditAgain(b) ==
    LET net == E!NetAmount(Amount[b])
        commission == E!Commission(Amount[b])
        withholds == commission > 0 /\ ~Recorded("BOOKING-COMMISSION", b)
    IN  /\ balance' = [balance EXCEPT ![ShopOf[b]] = @ + net]
        /\ ledger' = ledger
             \union {[ref |-> "BOOKING-PAYOUT", booking |-> b, amount |-> net]}
             \union (IF withholds
                     THEN {[ref |-> "BOOKING-COMMISSION", booking |-> b, amount |-> commission]} ELSE {})

\* creditForBooking, in one transaction with the wallet locked: each of the two
\* entries only if it is missing and not zero.
creditForBooking(b) ==
    LET net == E!NetAmount(Amount[b])
        commission == E!Commission(Amount[b])
        pays == net > 0 /\ ~Recorded("BOOKING-PAYOUT", b)
        withholds == commission > 0 /\ ~Recorded("BOOKING-COMMISSION", b)
    IN  /\ balance' = IF pays THEN [balance EXCEPT ![ShopOf[b]] = @ + net] ELSE balance
        /\ ledger' = ledger
             \union (IF pays THEN {[ref |-> "BOOKING-PAYOUT", booking |-> b, amount |-> net]} ELSE {})
             \union (IF withholds
                     THEN {[ref |-> "BOOKING-COMMISSION", booking |-> b, amount |-> commission]} ELSE {})

applyCredit(b) ==
    /\ credits[b] > 0
    /\ credits' = [credits EXCEPT ![b] = @ - 1]
    /\ creditForBooking(b)
    /\ UNCHANGED <<row, paymentVars, now, minted, scanVars, ops, faults>>

\* applyCredit when creditForBooking throws: logged, and the credit is gone.
applyCreditFails(b) ==
    /\ faults < MaxFaults
    /\ credits[b] > 0
    /\ credits' = [credits EXCEPT ![b] = @ - 1]
    /\ faults' = faults + 1
    /\ UNCHANGED <<row, paymentVars, now, minted, scanVars, ops, ledger, balance>>

\* The backfill script: a credit for a completed booking without a payout.
reconcileBookingCredits(b) ==
    /\ row[b].status = "DONE"
    /\ Amount[b] > 0
    /\ ~Recorded("BOOKING-PAYOUT", b)
    /\ credits[b] < MaxCalls
    /\ credits' = [credits EXCEPT ![b] = @ + 1]
    /\ UNCHANGED <<row, paymentVars, now, minted, scanVars, ops, ledger, balance, faults>>

-------------------------------------------------------------------------------
tick ==
    /\ now < MaxTime
    /\ now' = now + 1
    /\ UNCHANGED <<row, paymentVars, minted, scanVars, ops, payoutVars, faults>>

\* The server restarts: whatever it held in memory is lost.
crash ==
    /\ faults < MaxFaults
    /\ faults' = faults + 1
    /\ awaiting' = {}
    /\ ops' = [h \in Handlers |-> Idle]
    /\ credits' = [b \in Bookings |-> 0]
    /\ UNCHANGED <<row, txn, wallet, billed, charged, sent, now, minted, scanVars, ledger, balance>>

Checkout ==
    \E c \in Carts :
        \/ \E slot \in [c -> Slots] :
              initiateCheckout(c, slot) \/ initiateBulkCheckout(c, slot)
        \/ storeExternalPaymentId(c)
        \/ initiationEnds(c)
        \/ \E to \in {c} \union {{b} : b \in c}, outcome \in {"succeeded", "failed"} :
              providerReports(c, to, outcome)

Handle(h) ==
    \/ \E b \in Bookings, slot \in Slots : reschedule(h, b, slot)
    \/ \E b \in Bookings : cancel(h, b)
    \/ \E b \in Bookings : findOne(h, b)
    \/ \E client \in Clients : userBookingsByStatus(h, client)
    \/ \E page \in SUBSET Bookings : findByProvider(h, page)
    \/ markExpiredConfirmedBookings(h)
    \/ cancelStalePendingBookings(h)
    \/ saveDiff(h)
    \/ saveUpdate(h)

Run ==
    \/ Checkout
    \/ \E e \in sent : applyPaymentEvent(e)
    \/ \E b \in Bookings :
          \/ qrCheckin(b)
          \/ qrCheckout(b)
          \/ applyCredit(b)
          \/ applyCreditFails(b)
          \/ reconcileBookingCredits(b)
    \/ \E h \in Handlers : Handle(h)
    \/ tick

Next == Run \/ crash

Spec == Init /\ [][Next]_vars

\* The clock advances, the event loop runs what it has started and the cron
\* jobs fire; clients, providers and staff owe nothing.
Fairness ==
    /\ WF_vars(tick)
    /\ \A b \in Bookings : WF_vars(applyCredit(b))
    /\ \A h \in Handlers :
          /\ WF_vars(saveDiff(h))
          /\ WF_vars(saveUpdate(h))
          /\ WF_vars(markExpiredConfirmedBookings(h))
          /\ WF_vars(cancelStalePendingBookings(h))

FairSpec == Spec /\ Fairness

-------------------------------------------------------------------------------
(* Properties.                                                             *)

Served == {"CONFIRMED", "IN_SERVICE", "DONE", "NO_SHOW"}

\* A booking is only ever confirmed, served, missed or marked paid if its client
\* was charged, whatever stale rows the unlocked handlers write back and however
\* late or often the payment's outcome is delivered.
ServedOnlyIfCharged ==
    \A b \in Bookings :
        row[b].status \in Served \/ row[b].paid = 1 \/ txn[b] = "SUCCESS" => b \in charged

\* What keeps it so, and orders the scans before the payout, when rows that were
\* read long ago are written back: the provider reports a success only for a
\* client it charged, no handler holds a served or paid row of a booking nobody
\* was charged for, none holds a row in service or done, and a credit is queued
\* only for a service that was finished.
EscrowInv ==
    /\ ServedOnlyIfCharged
    /\ \A e \in sent : e.outcome = "succeeded" => e.to \subseteq charged
    /\ \A h \in Handlers, b \in Bookings :
          LET held == ops[h].snap[b] IN
          /\ held.status \in Served \/ held.paid = 1 => b \in charged
          /\ held.status \notin {"IN_SERVICE", "DONE"}
    /\ \A b \in Bookings :
          /\ row[b].status = "IN_SERVICE" => used[b] # {}
          /\ row[b].status = "DONE" => b \in finished
          /\ credits[b] > 0 => b \in finished

\* The handlers, sweeps, webhooks and credits implement the escrow: charge, then
\* check-in, then check-out, then one payout of the price less the commission.
ImplementsEscrow == E!Spec

Entries(b) == {e \in ledger : e.booking = b}
AmountOf(e) == e.amount
Payouts(s) == {e \in ledger : e.ref = "BOOKING-PAYOUT" /\ ShopOf[e.booking] = s}

\* The payout and the commission of a booking add up to its price, and a shop's
\* balance is the sum of its payouts, however many credits of a booking were
\* queued, failed, lost in a restart or run again by the backfill.
LedgerBalances ==
    /\ \A b \in Bookings : Entries(b) # {} => MapThenSumSet(AmountOf, Entries(b)) = Amount[b]
    /\ \A s \in Shops : balance[s] = MapThenSumSet(AmountOf, Payouts(s))

\* A booking left unpaid does not hold its slot for ever: the hourly job, a
\* payment outcome or the shop moves it out of PENDING_PAYMENT.
PendingSettles ==
    \A b \in Bookings : row[b].status = "PENDING_PAYMENT" ~> row[b].status # "PENDING_PAYMENT"

\* A confirmed booking whose client never came does not stay confirmed.
ExpiredSettles == \A b \in Bookings : Expired(row[b]) ~> ~Expired(row[b])

\* A finished service is paid out to the shop, whatever the row becomes in the
\* meantime, as long as no restart and no failure hits its credit.
FinishedIsPaidOut ==
    \A b \in Bookings :
        b \in finished /\ Amount[b] > 0 ~> Recorded("BOOKING-PAYOUT", b)

\* "Auto-cancels PENDING_PAYMENT bookings that [...] were never completed": the
\* hourly job never cancels a booking that is confirmed.  Stated for an instance
\* whose only unlocked handler is that job.
SweepSparesConfirmed ==
    [][\A b \in Bookings : row[b].status = "CONFIRMED" => row'[b].status # "CANCELLED"]_vars

UsedTokenOpens(b) == row[b].status = "CONFIRMED" /\ row[b].checkin \in used[b]

\* "consume the check-in token (single-use)": a token that has started a service opens
\* the door to a check-in again in one way only.  A handler that marks the booking missed
\* or cancelled, and that read it before the check-in, finds the status it leaves already
\* in the row when its save compares, because a second such handler has left it; the
\* booking is confirmed anew; and the save then writes the old token, and the token alone.
\* No reschedule, payment event or single stale save brings a used token back.
UsedTokenStaysOut ==
    [][\A b \in Bookings :
          UsedTokenOpens(b)' /\ ~UsedTokenOpens(b) =>
              \E h \in Handlers :
                  /\ Kind[h] # "reschedule"
                  /\ ops[h].phase = "diffed" /\ ops' # ops
                  /\ "checkin" \in ops[h].cols[b] /\ "status" \notin ops[h].cols[b]]_vars

\* "Idempotent: repeated success webhooks are safe": no payment event takes a finished
\* booking back to CONFIRMED, only the save of a row that was read earlier.  It rests on
\* a payment that stays SUCCESS; the one of a single checkout may not, when the checkout
\* stores the provider's id after the event.
DoneNotReconfirmed ==
    [][\A b \in Bookings :
          row[b].status = "DONE" /\ row'[b].status = "CONFIRMED" =>
              \/ \E h \in Handlers : ops[h].phase = "diffed" /\ "status" \in ops[h].cols[b] /\ ops' # ops
              \/ txn[b] # "SUCCESS" /\ \E c \in Carts : Cardinality(c) = 1 /\ b \in c]_vars
===============================================================================
