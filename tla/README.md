# Verification of the Ikigai booking backend

The backend (NestJS, TypeORM, MySQL, Redis) takes bookings of beauty-shop
services, collects their price from a client wallet or an external payment
provider, follows the service through two QR scans, and pays the shop. This
directory holds TLA+ modules for it, the TLC configurations that check them and
TLAPS proofs. Source paths below are relative to `src/src/`.

## 1. The system

| Component | State | Operations | Interacts with |
|---|---|---|---|
| Booking checkout (`client/bookings/booking-checkout.service.ts`) | `bookings`, `transactions`, `client_wallet` rows | single and bulk checkout, from the wallet or through Stripe, Kkiapay, PayGate or the sandbox | calls the provider, then stores its id |
| Booking lifecycle (`client/bookings/bookings.service.ts`) | `bookings`, `workers.status` | `qrCheckin`, `qrCheckout`, `reschedule`, `cancel`, and reads that mark missed bookings | shares rows with webhooks and crons |
| Booking scheduler (`scheduler/booking-scheduler.service.ts`) | the same rows | NO_SHOW sweep, stale-pending sweep, release of busy workers, reminders | Redis locks keep each cron single-runner |
| Booking subscriber (`client/bookings/bookings.subscriber.ts`) | credits queued per query runner | queues a credit when a row becomes DONE, applies it after the commit | calls the provider wallet |
| Provider wallet (`providers/pro_wallet`) | `pro_wallet`, ledger rows in `transactions` | credit for a booking, manual credit, withdrawal, subscription payment, backfill | subscriber, admin, webhooks |
| Payment webhooks (`payments/payment-webhook.*`) | `transactions`, and what a payment was for | apply an event to a booking, deposit, subscription or Mi order | providers, polling, reconciliation |
| PayGate (`payments/paygate.service.ts`, `scheduler/paygate-reconciliation.service.ts`) | none; the job re-reads pending transactions | initiate, ask by reference, reconcile every minute for six hours | webhooks |
| Client wallet and transactions (`transaction`, `client/client_wallet`) | `client_wallet`, `transactions` | deposit, confirm, transfer, withdrawal with approval, admin top-up and reset | checkout, webhooks |
| Workers and availability (`workers`) | `workers`, weekly schedules, exceptions, busy periods | working hours, slots, collisions | reads shops and bookings; checkout does not re-check what was offered |
| Users (`users`) | `users`, refresh tokens, trusted devices, codes in Redis and in memory | sign-up, login, refresh, logout, one-time codes, passwords | guards compare the active session |
| Mi services, subscriptions (`mi-services`, `subscriptions`) | orders, subscriptions | purchase from the wallet or a provider, delivery | wallets, webhooks |
| Shops (`shops`, `scheduler/shop-scheduler.service.ts`) | `shops`, an enroller's points | edits of a shop, visits; the job that opens and closes shops | availability reads the hours; each shop has a wallet |
| Redis (`redis/redis.service.ts`) | locks, claims, cached reads, codes | `remember`, `delPattern`, `acquireLock`; every one falls open | crons, reminders, catalogue, users |
| Cached catalogue (`services`, `admin/categories`) | `services`, `categories` | cached reads, writes that invalidate | Redis |
| Chat, other catalogues, notifications, mail, analytics, uploads | one table each, or none | CRUD, output | |

Every endpoint, webhook and cron runs on one event loop per server process, and
interleaves with the others at each `await`; several processes may share the
database. What is hard in this code:

- **Two ways of writing a row.** Some handlers hold `pessimistic_write` locks for
  one whole transaction (checkout, payment events, scans, credits). Others read a
  row, decide, and later `repository.save` it. `save` re-reads the row and updates
  the columns in which the entity differs, so a stale entity overwrites some
  columns of what others wrote and leaves the rest.
- **Payment events** come late, twice, out of order, from webhooks, polling and a
  reconciliation job, and while the request that started the payment still awaits
  the provider.
- **A payout after a commit**: the shop is credited in a transaction of its own
  after the one that finished the service; it can fail or be lost in a restart.
- **Locks in two orders**: a transfer locks the sender's wallet, then the receiver's;
  the first wallet of a shop is created under a race.
- **Time**: check-in windows, the NO_SHOW grace, the cutoffs of the sweeps, ticks that
  come late or not at all.
- **Redis**, which holds locks, claims, codes and cached rows, and without which every
  caller goes on as if it had been granted what it asked for.

What makes each component correct:

- checkout and lifecycle: nothing is served that was not paid; a service is paid
  out once, only after it was finished; scans, sweeps and reschedules respect each
  other; a used token stays used but for one crossing of stale saves;
- sweeps: everything abandoned is settled in the end and nothing else is touched;
- wallets: never negative, always the sum of their ledger;
- payment confirmation: one effect per payment, whichever channel reports it;
- workers and availability: nobody stays busy for ever; what is offered is free by
  the rows that were read, and a booking from an offer stays clear of what it knew;
- accounts: a session is earned, a renewal names no superseded one, a logout reaches
  every token, a replaced password stays replaced;
- reminders: once for each time of a booking, and in time; shops: the recorded status comes to be right;
  cached reads: stale only for the causes the code accepts.

## 2. Modules

| Module | What it models |
|---|---|
| `BookingEscrow` | the promise, without rows, tokens or handlers: charge, start, finish, pay out once |
| `BookingLifecycle` | checkout, payment events, scans, the unlocked handlers and sweeps, the credit of the shop; implements `BookingEscrow` |
| `WorkerRelease` | `BookingLifecycle` composed with the job that frees workers left busy |
| `PaymentConfirmation` | deposits, subscriptions and Mi orders through a provider, from request to effect |
| `Wallets` | balances of clients and shops: deposits, transfers, withdrawals, corrections, credits, spending |
| `Accounts` | one address: sign-up, login, devices, sessions, refresh tokens, codes, passwords |
| `Availability` | the slots of a date, computed while schedules, bookings and busy periods change |
| `Reminders` | the reminder job of several instances, its lock and its claims in Redis |
| `ShopDirectory` | the shops' rows and the job that opens and closes them |
| `CatalogueCache` | cached reads of services and categories, and the writes that invalidate them |
| `MC...` | small instances for TLC; `MCBackground` runs the last three modules, which share nothing |
| `Sums` | what a sum over a finite set is, for the proofs about ledgers |
| `BookingLifecycle_proofs` | theorems about `BookingLifecycle` and `WorkerRelease`, for any instance |
| `PaymentConfirmation_proofs`, `Wallets_proofs`, `Accounts_proofs`, `Availability_proofs` | those about the module of that name |
| `Background_proofs` | those about `Reminders`, `ShopDirectory` and `CatalogueCache`, alone and side by side |

### BookingLifecycle and the code

| State | In the code |
|---|---|
| `row` | the `bookings` table: status, `payement_status`, booked time, the two QR tokens, `checked_in_at`, `created_at` |
| `txn` | `transactions.status` of a booking's payment |
| `wallet`, `balance`, `ledger` | `client_wallet.balance`, `pro_wallet.balance`, the `BOOKING-PAYOUT-` and `BOOKING-COMMISSION-` transactions |
| `billed`, `awaiting`, `sent` | the provider's side: payments it was given, requests that await it, outcomes it reports |
| `ops` | unlocked handlers suspended at an `await`, with the rows they hold |
| `credits` | calls of `creditForBooking` queued by the subscriber or the script |
| `worker` | `workers.status` is `occupé` |
| `charged`, `used`, `finished`, `minted` | history: who paid, tokens consumed, services ended, tokens issued |

A handler that works in one transaction with its rows locked is one action
(`checkoutWithWallet`, `applyPaymentEvent`, `qrCheckin`, `qrCheckout`,
`creditForBooking`). An unlocked handler is three: it reads (`reschedule`,
`cancel`, `findOne`, `userBookingsByStatus`, `findByProvider` and the two sweeps),
`saveDiff` re-reads and determines the columns that differ, `saveUpdate` writes
those columns. The last two are TypeORM's `save`, modelled from how the code uses
it and marked external. A list of rows is saved in one transaction and so in one
`saveUpdate`.

`providerReports` puts an outcome in `sent`, from which `applyPaymentEvent` may take
it any number of times, in any order, or never: webhooks, polling and the
reconciliation job all end in that function. PayGate, asked by the reference of
one booking of a bulk payment, may report a failure whatever became of the payment,
because it was given the bulk reference only.

A token is its number among the tokens of its booking (UUIDs do not repeat). Time
advances in steps of fifteen minutes, the granularity of the graces; within one
moment any number of handlers run. Prices are whole francs, and `Commission` is
`Math.round(gross * 0.10)`.

`WorkerRelease` adds the three steps of `releaseStaleBusyWorkers`: the busy workers,
their services in progress, the UPDATE.

### PaymentConfirmation and the code

| State | In the code |
|---|---|
| `status`, `order` | `transactions.status`, `mi_service_orders.status`; `NONE` and `none` until a row is committed |
| `credited`, `activated` | how often a payment was added to a `client_wallet`, how many `subscriptions` rows it made |
| `calling`, `begun`, `outcome` | requests that await the provider, requests made, what the provider knows |
| `sent` | events on their way to `applyPaymentEvent`, from webhooks, polls or the job |
| `todo`, `aged` | the reconciliation job's list; transactions older than its cutoff |
| `vouched` | history: confirmed by hand |

A group is what the provider was asked for under one reference: one transaction, or
the cart of a bulk purchase. A deposit or a subscription is committed, then the
provider is called, then the same object is saved again (`storeExternalPaymentId`);
a Mi purchase commits only when the provider has answered. That second save is one
action although TypeORM reads before it writes: an event applied between the two
leaves what it leaves when applied after. `initiationFails` is a refusal, or an
answer that is lost after PayGate registered the payment. Bookings, whose events do
more, are in `BookingLifecycle`. A bulk purchase of a single service is left out,
and so is the sandbox, which production refuses. `age` may happen at any time: the
order of the six hours and the rest is not fixed.

### Wallets and the code

| State | In the code |
|---|---|
| `wallets`, `balance` | rows of `client_wallet` and `pro_wallet`, their `balance` |
| `txn` | `transactions`: motif, users, amount, status |
| `lock`, `absent`, `fresh` | `pessimistic_write` locks held over several steps; a missing shop wallet, and one inserted and not committed |
| `admin` | `manualTopUp` and `resetToZero`: what they read and will save |
| `storing` | deposits whose request awaits the provider and may yet save its transaction again |
| `asDeposit`, `undone`, `torn` | history: transfers confirmed through `confirmDeposit`; deposits made PENDING again after they had succeeded; wallets whose ledger a correction broke |

`initiateDeposit` commits the PENDING row and calls the provider; with the answer it saves
the transaction it holds (`storeExternalPaymentId`), PENDING whatever the row has become:
`undone` remembers the deposits whose success this overwrote. The money of such a deposit
has been received, and is received again if the event is repeated; the ledger counts both,
since that is what the code does. The step may never be taken (widget, error, restart).

A handler that locks one existing wallet for its whole transaction is one action.
`confirmUserPayment` is two: `lockSender`, then `transfer`, `refuseTransfer` or, when
the receiver's wallet is held by another, `lockWaitFails`, which is what MySQL does to
one of two transactions that wait for each other. `getOrCreateLockedWallet` is a
SELECT FOR UPDATE that finds nothing, an INSERT, and for the loser the second SELECT;
two callers that both found nothing hold gap locks, so one of them may be rolled back
(`insertDeadlocks`). A reference is a number used once: references made from
`Date.now()` that collide are the insert that fails (`recordFails`, `rollback`). Users'
amounts are validated as positive; those of admins are taken to be. `confirmDeposit`
takes the reference of a transfer and credits its receiver without a debit:
`asDeposit` records it and the ledger counts it, since the code accepts it. `System` is
user 0 of the code, the other side of deposits and withdrawals. Mi services bought in
bulk from the wallet make one debit, like a single one.

### Accounts and the code

| State | In the code |
|---|---|
| `accounts`, `password`, `active` | rows of `users` under the address, `password` and `active_session_id` |
| `token` | `refresh_tokens`; `sid` is the session in the access token that came with it |
| `device` | `trusted_devices.token_hash` |
| `redis`, `memory` | the code under `auth:otp:*` and `reset:otp:*`, reset tokens; the static maps of each server |
| `call` | a handler suspended at an `await`: its step and what it has read |
| the rest | history, see the declarations |

Nothing here is in a transaction, so every `await` that reads or writes shared state is
a step of its own. A request for a reset code is three: the server's memory, Redis, the
mail. Its verification reads Redis, or else memory, deletes the code in Redis, then in
memory, and stores the reset token in both; redeeming the token drops it in both. Of two
requests that overlap, the code stored last need not be the one mailed last: `asked` is
the code of a request that overlaps no other, and only such a code becomes `latest`. The
handlers for the codes of registration and login store a code before they mail it too,
in Redis alone; there no property depends on which mail comes last. Session ids are
numbered in the order of logins, random secrets in the order of their creation: only
equality and age are told apart. `legacy` chooses whether the stored password is plain
text, as `validateCredentials` allows. A code that is guessed, and the limits on
attempts, are left out.

### Availability and the code

| State | In the code |
|---|---|
| `shop`, `rows` | the shop's opening hours on the date; the worker's weekly rows and his exceptions of the date |
| `booking` | date, worker, `booking_time`, `booking_end_time`, status; `known` is history |
| `busy` | `worker_busy_periods` |
| `call` | a request for slots and what it has read, or an edit of schedules between two statements |

The computation is a set of pure operators under their names in the code
(`getWorkingHours`, `_clampHours`, `hasCollision`, `generateSlots`), and the requests
apply them to rows that they read one query after another. There is one date. A worker
may have several exceptions of it; the code takes the first that the database returns,
and the query has no order, so a request takes any. Exceptions that are alike are one:
removing one of two changes nothing that a request sees. A buffer of 0 counts as not
set. An end at midnight is stored as 00:00 and so blocks nothing:
`KnownBookingsKeptApart` excepts it. Creating or updating a worker stores the row first
and its schedules after (`saveSchedules`); a request in between finds none and offers
the shop's hours. Custom hours apply on a day the shop is closed. Checkout stores
whatever worker and time it is given; `known` remembers what the offer that a client
took had seen.

### Reminders, ShopDirectory, CatalogueCache and the code

`Reminders`: `run` is one call of `sendUpcomingAppointmentReminders` with the notices
still to give (a booking, with the time it was read with), `locked` the key
`cron:send-reminders`, `claims` the keys `reminder-sent:<id>` with the minute in which
they expire. Time is in minutes. A tick comes some seconds after its minute has begun: the
first minute of the code's window is then past, so two ticks see a booking. `ReadTime` is
the conversion of lines 210-212: the UTC digits of `booking_time`, parsed as a local time
of `booking_date`. On a server whose clock is not UTC the job therefore looks for a booking
at another time of its date than its own (`booking-time.util.ts:7-9` calls the same mixture
a bug where the other sweeps made it); `UtcOffset` is how far the clock is ahead. A booking
may be moved to any time, also on another day, and a missed one is confirmed again by that
(`rescheduleAppointment`). Its claim is of the booking, not of its time: while it stands,
for 24 hours, the new time is not reminded of; after that it is. So neither the "once per
booking, ever" of `booking-scheduler.service.ts:189` nor the "irrelevant afterwards since the
booking has passed" of line 216 holds of a booking that is moved; the properties speak of a
booking's times. The job catches the errors of one booking, so one appointment shows all that
can happen to each.

`ShopDirectory`: every handler but the visit and the removal reads a row, changes its
copy and saves it. A save is two steps: it looks for the row (`saveShop`, `checkShop`),
then updates the columns in which the copy differs from what it found (`writeShop`,
`writeStatus`); a row that was not found is inserted, and an insert of an id that is
there by then fails its caller. `statusRun` holds the copies that a run of
`checkShopStatuses` has yet to look at and the one it is saving; its lock keeps other
instances out of the same tick only. `daytime` stands for the parsed hours and the
clock. The verification mark and the FCM token are in no property; a save of them is a
save of the copy.

`CatalogueCache`: `remember` is the look-up, the producer's queries (the rows, then what
they are enriched with) and `setex`; a write is the save, the SCAN, and the DEL. The
SCAN is one moment. A shop's or a category's edit does not delete the services that
carry its name, so `Current` asks of a services' key only its own rows.

## 3. Runs

Runs that pass:

| Run | Question | Instance |
|---|---|---|
| `StaleSaves` | do the inductive invariant and the escrow hold, is nothing served unpaid, does a used token stay out, is no finished booking taken back, when stale rows are written back? | one booking with a reschedule, a read endpoint and the NO_SHOW job; or a PayGate cart of two with a cancellation and the stale-pending job; one crash or failed credit |
| `Settles` | is every pending or expired booking settled, every finished service paid out? | one booking, both sweeps and reschedules, fairness |
| `WorkersFreed` | is a worker freed whose client never checks out; do two checkouts overdraw a wallet, two payouts corrupt a balance? | one worker, two bookings, funds for one of them, one restart, the backfill |
| `GrantedOnce` | has every payment one effect, is a cart paid as a whole, do orders follow their transactions, does the job settle what was paid? | a PayGate cart of two, or a PayGate purchase of one service with a widget deposit or subscription; one restart or lost answer, fairness |
| `Wallets` | does the ledger explain each balance, does each movement follow the status of one transaction, are withdrawals decided once? | two clients and an admin; or one shop and two calls; two references, one fault |
| `Accounts` | are sessions earned and current, do logout and reset codes reach every server, do old passwords stay out? | two servers with one call each; three tokens and secrets, one fault |
| `Availability` | are offers those of the reference, and do bookings from them stay clear of what was known? | a worker and the owner, a day of eight units, two services, two bookings, a busy period |
| `Background` | are reminders sent once and in time, does a shop's status settle, why may a cached row be stale? | two overlapping runs on two instances, a booking that may move to the next day; one shop and one editor; two writers; one fault each |

Runs that end in a counterexample, each against a sentence of the code:

| Run | What happens |
|---|---|
| `PaidThenSwept` | the stale-pending job cancels a booking paid since the job read it |
| `CreditedTwice` | storing the provider's id makes a credited deposit PENDING again; a repeated webhook credits it again |
| `BulkReference` | the job asks for a cart's transactions by references PayGate never got, and fails a paid cart |
| `MovedBooking` | a rescheduled booking keeps its old end, and the time it takes is offered to others |

The same causes have other effects, seen with TLC on the way and not kept as runs. The
save behind `CreditedTwice` exists in `checkoutWithExternalProvider` too, where a
repeated webhook then takes a DONE booking back to CONFIRMED (`DoneNotReconfirmed`
excepts that: a single checkout whose payment is no longer SUCCESS). A reschedule that
began before the check-in takes a booking out of service. The comments at
`bookings.service.ts:223` ("Issue a fresh single-use check-in token") and `:293`
("consume the check-in token (single-use)") have one exception. The read endpoint and
the NO_SHOW job (or a cancellation and the sweep) both read a booking before its
check-in. The first one compares before the check-in and writes after it, its status
alone, so that the token stays consumed. The second one then finds its status in the row
and only the token to restore; if a reschedule confirms the booking before it writes,
the used token opens the booking again. `UsedTokenStaysOut` says that a used token comes
back in no other way. The job asks PayGate about a deposit that was committed and not
yet requested, and fails it. The release of busy workers, whose queries are not in one
transaction, may free a worker who began another service in between. Two renewals with
one refresh token both get a successor, and a logout may clear a session that was opened
after it looked.

Every property of a passing run has a mutated form of a mapped definition that
violates it (the operators commented "Mutated form").

**Bounds.** `MaxTime` ends the clock after the last cutoff that matters to the run
(`MAX_AGE` plus one, or the NO_SHOW grace plus one). `LastCheckout` makes every
booking early enough to reach them. `MaxTokens` allows a payment, a reschedule and
both scans; handlers run any number of times within it. `MaxCalls` is two where
double credits matter. `MaxFaults` is one: one restart or failed credit at any
point. One booking suffices for the races, since handlers interact through one row
at a time; two are used where rows share something (a bulk reference, a wallet,
a worker). Deadlock is not checked, since a system whose clients are done rests.

For payments, one fault covers a restart, a lost answer or an unanswered check; the
event set keeps every report for ever, so that each may be applied again at any
point, and needs no bound. `GrantedOnce` takes deposits and subscriptions through the widget, as the
proof assumes (`NothingStored`); `CreditedTwice` shows what PayGate does to it.

`StaleSaves` is bounded by a state constraint: a behaviour is about one booking with a
reschedule and a read endpoint, about one paid from the wallet with a reschedule, a read
endpoint and the NO_SHOW job, or about a cart of two with a cancellation and the hourly job. Its properties are safety properties, which a constraint only narrows.

Some MC modules choose at the start what a behaviour is about (`topic`, `half`), where
handlers share no state, or where what they share is covered by another topic: no
handler of `Wallets` moves both a client's and a shop's money; renewal and logout touch
no password. Two references let transfers cross, and let a correction race any other
movement; the proofs have no such bound. Two calls on two servers are a race and a split
of memory. In `Availability` the grid step is two units, services last two and three, so
that slots meet bookings at either end and inside; requests' steps that read what nobody
edits in that topic are taken first. In `Background` a day has four minutes, the server
is one minute ahead of UTC, `REMINDER_MINUTES_BEFORE` is one and a claim stands for
three minutes, less than a day: the booking is at the same time of one of two days, its
reminders are due at minutes two and six, and the claim of the first has expired by the
second. Runs last at most a minute (`MaxRun`), so that one overlaps the next; a booking
is made in the first minute and moves or ends at minute three; idle runs are taken in a
fixed order, as are instances that have no run (they are alike). The theorems need of
all this only that a run ends before a claim made in it does (`MaxRun + 1 < CLAIM_TTL`;
in the code minutes against a day). A shop that exists at the start has daily hours (a
request may change them); after one request comes at most one more, which makes or
removes a row, or a run that fails (`OneSave`). One key of the cache is read or filled
at a time; two versions of a row tell stale from current.

**Fairness.** The clock advances; a started save goes on and a queued credit is
applied, as the event loop guarantees; the cron jobs fire. Clients, providers and
staff owe nothing: no fairness on checkouts, scans, webhooks or reschedules.
`FinishedIsPaidOut` is stated without faults: with one, only the backfill, which
nobody is obliged to run, pays. `PaidSettles` assumes that the job reads, checks
each transaction of its list and applies what it hears (it is a cron of every
minute, with a `try` around each check); a restart or an unanswered check only
delays it. The cutoff is an escape: `aged` transactions are given up.
`AutoSettles` assumes that the job of every minute runs and
goes through its list and that started requests save; edits, turns of the hours and
failed runs are finite, as "left alone" requires. That no two minutes in a row go
without a tick (`missed` in `Reminders`) is an assumption on the deployment: the window
of the code covers one.

## 4. Proofs

Every invariant and action property of the passing runs is a theorem, for any values
of the constants that meet the named assumptions of the module; two (`GrantInvariant`,
`ToldAheadOnUTC`) take a hypothesis more, given below. Every proof has one shape: an inductive invariant, a lemma per action
or group of actions, a lemma that joins them over the disjuncts of `Next`, and the
theorem by temporal reasoning. TLC checked the invariants before they were proved.

`BookingLifecycle_proofs`, under `ConstantsAssumption` and `TotalAssumption`:

- `TypeInvariant`. Not only types: no wallet goes below zero, which rests on `canPay`
  and, for the shop, on `PriceSplits` (commission and payout of a price are natural
  numbers that add up to it).
- `EscrowInvariant`. `ServedOnlyIfCharged` is not inductive: a stale row may be written
  back long after it was read. `EscrowInv` adds what the suspended handlers may hold (a
  served or paid row only of a charged booking, never one in service or done), that a
  reported success has charged its client, and that a queued credit stands for a
  finished service. `NothingServedUnpaid` is a conjunct of it.
- `LifecycleImplementsEscrow`: `Spec => E!Spec`, with started services those with a
  consumed token and paid-out ones those with a payout entry in the ledger.
- `LedgerAlwaysBalances`. `LedgerInv`: each entry has the amount that its price gives,
  a booking with one entry has both unless one is zero, and the balance is the sum of
  the payouts. A credit adds at most one entry of each kind.
- `UsedTokensStayOut`, for any number of handlers of every kind. `TokensInv`: the token
  that a reschedule holds is new, unlike the row's and any other handler's, and always
  written; any other handler holds the status it leaves, so that it confirms nothing. What
  remains is the save that writes an old token alone, which the property names.
- `FinishedStaysFinished`: `DoneNotReconfirmed`. `PaidInv`: a booking that is no single
  checkout is served, or held as served by a handler, only while its transaction is
  SUCCESS, a status that is never taken back.
- `ReleaseTypes`, `SweepTypes`, `ReleaseKeepsEscrow`, `ReleaseKeepsLedger` and
  `ReleaseImplementsEscrow` carry these over to `WorkerRelease`: a step of the job is a
  stutter to the bookings, or an UPDATE of `workers.status`.

`PaymentConfirmation_proofs`, under `PaymentsAssumption`:

- `TypeInvariant`.
- `GrantInvariant`, with the hypothesis `NothingStored`. `GrantedOnce` alone is not
  inductive. What makes it so: nothing is granted before SUCCESS, a success on its way
  was paid for, and a request that is awaited holds no committed row, so that its answer
  cannot make a granted payment pending again. The last part is what `NothingStored`
  (deposits and subscriptions through the widget) buys, and what a PayGate or Stripe
  deposit breaks (`CreditedTwice`).
- `OrdersInvariant` and `CartsSucceedWhole`, for any provider. The second rests on the
  rows of a cart being committed together (`WholeOrAbsent`) and on a success under way
  being that of a whole group (`SuccessOfGroup`); a failure need not be.

`Wallets_proofs`, under `WalletsAssumption` and `FinitelyMany`:

- `TypeInvariant`: no balance goes below zero. The debit of a transfer rests on the
  lock its transaction holds since `affords` was evaluated.
- `MoneyExplained`: stated for a step, the ledger needs no sum: one transaction changes,
  and each balance by the change of its effect. The inductive invariant `IInv` adds
  `Shaped` to the types: only a deposit, a transfer or a withdrawal is ever unsettled,
  a transfer has two ends, a withdrawal goes to the platform, and a transfer that holds
  a lock is not settled; only a deposit is saved again or was undone. `WithdrawalsDecidedOnce` follows from the same step.
- `BalancesExplained`: the sum itself. Each step changes at most one effect and one
  pending correction of an owner, and his balance by as much (`BalanceInv`).

`Accounts_proofs`, under `AccountsAssumption`:

- `TypeInvariant`, with the fact that a token to be rotated was inserted.
- `RenewalsCurrent` and `LogoutsRevoke` from `SessionInv`: the active session is at
  most the last one, what a renewal began with is at most that, and valid tokens were
  inserted since the last logout.
- `LoginsEarned`: what a code is stored under is what it was issued for, and a call on
  its way to a session holds such a code, a device's token or the password
  (`KeptAsIssued`, `OnItsWay`).
- `LatestCodesWork`: as long as Redis has not failed and no newer code was deleted
  (`~disturbed`), it answers and holds the latest code (`CodeInv`), and the code of a request
  that overlaps no other (`asked`) is in the hands of one call until it is mailed.
- `ReplacedPasswordsStayOut`: only a call at `save`, `reset` or `rehash` writes a
  password, the one it was given, and `rehash` is reached in a legacy account only.

`Availability_proofs`, under `AvailabilityAssumption`:

- `SlotsInvariant`, from which `SlotsTypes`, `BookingsKeptApart` and `BusyKeptFree`. A
  request reads worker by worker, and what it knows of one it knows before it offers
  a slot of his: `SlotsInv` says that a request knows nothing of the workers it has not
  asked (`AskedInTurn`), that every slot offered is free of what is known (`Offered`), and
  that a booking keeps both facts of the offer it was made from.
- `OffersAreTheReference`: the loop over a grid and the test for collisions against the
  reference that looks at every minute.

`Background_proofs`, under the assumptions of its three modules:

- `ToldAtMostOnce`: a claimed notice is in the hands of one run, which tells each side once
  (`OnceInv`). Its claim, or a later one for another time, stands until a claim's length after
  the first tick that sees the notice (`Reserved`), which is longer than any run that finds
  it lasts (`GrantedOnce`). Excepted are notices given while Redis was down (`unclaimed`).
- `ToldInTime`: the claim for a booking's time comes with a message sent, on its way or
  failed, and a booking past its first tick was seen or will be by a run that goes on
  (`TimeInv`). A refused claim is one for this time, or an older one (`ClaimedBefore`).
  The ticks are those of the time as the job reads it; `ToldAheadOnUTC` adds that with
  `UtcOffset = 0` these are the ones ahead of the booking's own time.
- `StaleOnlyIfRaced`: the property names the deletion that a write under way has still
  to make, and is inductive with the types.
- `DirectoryTypes`, and `BackgroundTypes` and `BackgroundPromises` for the three side
  by side, as the run has them: a step of one is a stutter of the others.

`Sums` is about `MapThenSumSet`, which takes the elements of a set in some order of its
own. Induction over sets is out of the provers' reach as a schema, so it is done by
least counterexample: the parts of a finite set that have no sum, if there were any,
would have one that contains no other (`LeastPart`); it is not empty, and any element
of it leads to a contradiction. `SumsExist` and `FoldExists` are proved so, and
`SumAdd`, `SumChange` and the rest are what the ledgers use.

The assumptions on constants ask no more than the code does: names of one kind are not
names of another (`Bookings` and `BusyPeriods`, services and the marks `category` and
`none`), and where a default is chosen there is something to choose (`Shops`, `Instances`,
`Services`). `FinitelyMany` says that a table has finitely many rows.

Only model-checked: the liveness properties (`PendingSettles`, `ExpiredSettles`,
`FinishedIsPaidOut`, `BusyWorkerIsFreed`, `PaidSettles`, `AutoSettles`),
which need fairness and `ENABLED`.

## 5. Not modelled, and why

Chat, the other catalogues, analytics, metrics, uploads, notifications and mail keep no
state these properties read, or one row per statement; sub-categories, towns and the Mi
catalogue repeat the cache pattern of `CatalogueCache`. Guards are stateless. A booking
saved with its `transactions` loaded may have the link of newer ledger rows cleared by
the ORM; payouts are found by reference, so the model leaves the link out.
`ensureQrTokens` is never called. Deadlocks between MySQL row locks are modelled where
two rows of one table are locked (transfers, a shop's first wallet), not between the
tables of a checkout, which are locked in one order.

The reconciliation job and the sweep give up on a payment at the same age; they are in
two modules without a common clock, and their order at that boundary is not modelled.

## 6. Plan

1. An abstract single-use ledger that `Wallets` and the credits of `BookingLifecycle`
   both implement, and the refinements proved.
2. The reconciliation job composed with `BookingLifecycle`, with the shared cutoff.
3. For `ShopDirectory`, which edits the save of a stale copy may undo.
