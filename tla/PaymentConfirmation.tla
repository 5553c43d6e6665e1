------------------------- MODULE PaymentConfirmation -------------------------
(***************************************************************************)
(* External payments that are not for a booking: wallet deposits,          *)
(* subscriptions and Mi orders, from the request that initiates one to the *)
(* effect it has.  The provider's answer to the request, its webhooks, the *)
(* app's polling and the PayGate reconciliation job race each other.       *)
(*                                                                         *)
(* A deposit or a subscription commits its PENDING transaction, calls the  *)
(* provider, then saves the transaction it holds with the provider's id.   *)
(* A Mi purchase does all of that in one database transaction.             *)
(***************************************************************************)
EXTENDS Integers, FiniteSets

CONSTANTS
    Payments,   \* the transactions
    Motif,      \* what each is for
    Groups,     \* payments asked of the provider under one reference
    Provider,   \* the provider a group is paid through
    MaxFaults   \* bound: restarts, lost answers of a provider and unanswered checks

Motifs == {"WALLET_DEPOSIT", "SUBSCRIPTION", "MI_SERVICE"}
Providers == {"stripe", "kkiapay", "paygate"}
TransactionStatus == {"NONE", "PENDING", "SUCCESS", "FAILED"}
OrderStatus == {"none", "pending", "paid", "failed", "delivered"}
Outcome == {"unregistered", "open", "succeeded", "failed"}
Event == [to : SUBSET Payments, status : {"succeeded", "failed"}]

ASSUME PaymentsAssumption ==
    /\ Groups \subseteq (SUBSET Payments) \ {{}}
    /\ UNION Groups = Payments
    /\ \A g, h \in Groups : g # h => g \intersect h = {}
    /\ Motif \in [Payments -> Motifs]
    /\ \A g \in Groups : \/ Cardinality(g) = 1
                         \/ \A p \in g : Motif[p] = "MI_SERVICE"
    /\ Provider \in [Groups -> Providers]
    /\ MaxFaults \in Nat

VARIABLES
    status,     \* transactions.status; NONE while no row is committed
    order,      \* mi_service_orders.status
    credited,   \* client wallet credits made for a payment
    activated,  \* subscription rows made for a payment
    calling,    \* groups whose request awaits the provider
    begun,      \* groups that were initiated
    outcome,    \* what became of the group at the provider
    sent,       \* events under way: each is applied any number of times or never
    todo,       \* the transactions the reconciliation job has yet to check
    aged,       \* payments older than MAX_AGE_HOURS
    vouched,    \* payments confirmed by hand
    faults      \* faults that have happened

rowVars == <<status, order, credited, activated>>
jobVars == <<todo, aged>>
vars == <<rowVars, calling, begun, outcome, sent, jobVars, vouched, faults>>

TypeOK ==
    /\ status \in [Payments -> TransactionStatus]
    /\ order \in [Payments -> OrderStatus]
    /\ credited \in [Payments -> Nat]
    /\ activated \in [Payments -> Nat]
    /\ calling \subseteq begun
    /\ begun \subseteq Groups
    /\ outcome \in [Groups -> Outcome]
    /\ sent \subseteq Event
    /\ todo \subseteq Payments
    /\ aged \subseteq Payments
    /\ vouched \subseteq Payments
    /\ faults \in Nat

Init ==
    /\ status = [p \in Payments |-> "NONE"]
    /\ order = [p \in Payments |-> "none"]
    /\ credited = [p \in Payments |-> 0]
    /\ activated = [p \in Payments |-> 0]
    /\ calling = {}
    /\ begun = {}
    /\ outcome = [g \in Groups |-> "unregistered"]
    /\ sent = {}
    /\ todo = {}
    /\ aged = {}
    /\ vouched = {}
    /\ faults = 0

-------------------------------------------------------------------------------
(* Initiation.                                                             *)

Mi(g) == \A p \in g : Motif[p] = "MI_SERVICE"

\* The committed PENDING rows of a group, and its orders if it is for Mi services.
Pending(g) ==
    /\ status' = [p \in Payments |-> IF p \in g THEN "PENDING" ELSE status[p]]
    /\ order' = [p \in Payments |->
                   IF p \in g /\ Motif[p] = "MI_SERVICE" THEN "pending" ELSE order[p]]

\* Kkiapay is paid from a widget: the server calls nobody.  The rows of a Mi
\* purchase through another provider stay uncommitted until that one answers.
initiate(g) ==
    /\ g \notin begun
    /\ begun' = begun \union {g}
    /\ calling' = IF Provider[g] = "kkiapay" THEN calling ELSE calling \union {g}
    /\ IF Mi(g) /\ Provider[g] # "kkiapay" THEN UNCHANGED <<status, order>> ELSE Pending(g)
    /\ UNCHANGED <<credited, activated, outcome, sent, jobVars, vouched, faults>>

initiateDeposit(g) == (\A p \in g : Motif[p] = "WALLET_DEPOSIT") /\ initiate(g)
initiateSubscriptionPayment(g) == (\A p \in g : Motif[p] = "SUBSCRIPTION") /\ initiate(g)
initiatePurchase(g) == Mi(g) /\ Cardinality(g) = 1 /\ initiate(g)
initiateBulkPurchase(g) == Mi(g) /\ Cardinality(g) > 1 /\ Provider[g] # "stripe" /\ initiate(g)

\* The provider's answer: a Mi purchase commits; the others save the id together
\* with the status of the transaction they hold.
storeExternalPaymentId(g) ==
    /\ g \in calling
    /\ outcome[g] # "unregistered"
    /\ calling' = calling \ {g}
    /\ Pending(g)
    /\ UNCHANGED <<credited, activated, begun, outcome, sent, jobVars, vouched, faults>>

\* The provider refused, or its answer was lost: the rows of a Mi purchase are
\* rolled back, those of the others stay as they are.
initiationFails(g) ==
    /\ g \in calling
    /\ outcome[g] # "unregistered" => faults < MaxFaults
    /\ faults' = IF outcome[g] # "unregistered" THEN faults + 1 ELSE faults
    /\ calling' = calling \ {g}
    /\ UNCHANGED <<rowVars, begun, outcome, sent, jobVars, vouched>>

-------------------------------------------------------------------------------
(* The provider.                                                           *)

\* The call, or the customer's widget, reaches the provider.
register(g) ==
    /\ g \in begun
    /\ g \in calling \/ Provider[g] = "kkiapay"
    /\ outcome[g] = "unregistered"
    /\ outcome' = [outcome EXCEPT ![g] = "open"]
    /\ UNCHANGED <<rowVars, calling, begun, sent, jobVars, vouched, faults>>

customerSettles(g) ==
    /\ outcome[g] = "open"
    /\ \E o \in {"succeeded", "failed"} : outcome' = [outcome EXCEPT ![g] = o]
    /\ UNCHANGED <<rowVars, calling, begun, sent, jobVars, vouched, faults>>

\* PayGate calls only when a payment has cleared.
handleWebhook(g) ==
    /\ outcome[g] = "succeeded" \/ (outcome[g] = "failed" /\ Provider[g] # "paygate")
    /\ sent' = sent \union {[to |-> g, status |-> outcome[g]]}
    /\ UNCHANGED <<rowVars, calling, begun, outcome, jobVars, vouched, faults>>

\* What PayGate says of the reference of one transaction.  It was never given the
\* reference of one transaction of a bulk payment.
paygateStatus(p) ==
    IF {p} \in Groups THEN outcome[{p}] ELSE "unregistered"

\* A payment PayGate does not know is taken for a failed one.
checkStatusByIdentifier(p) ==
    LET found == paygateStatus(p) IN
    IF found = "open" THEN UNCHANGED sent
    ELSE LET heard == IF found = "succeeded" THEN "succeeded" ELSE "failed"
         IN  sent' = sent \union {[to |-> {p}, status |-> heard]}

PendingPaygate(p) ==
    status[p] = "PENDING" /\ \E g \in Groups : p \in g /\ Provider[g] = "paygate"

\* The app polls, once the answer to its request has told it the reference.
getTransactionByRef(p) ==
    /\ PendingPaygate(p)
    /\ p \notin UNION calling
    /\ checkStatusByIdentifier(p)
    /\ UNCHANGED <<rowVars, calling, begun, outcome, jobVars, vouched, faults>>

-------------------------------------------------------------------------------
(* The reconciliation job.                                                 *)

\* Mutated form: the job looks only at deposits.
pendingDeposits == {p \in Payments : PendingPaygate(p) /\ p \notin aged /\ Motif[p] = "WALLET_DEPOSIT"}

pendingTransactions == {p \in Payments : PendingPaygate(p) /\ p \notin aged}

reconcileRead ==
    /\ todo = {}
    /\ pendingTransactions # {}
    /\ todo' = pendingTransactions
    /\ UNCHANGED <<rowVars, calling, begun, outcome, sent, aged, vouched, faults>>

reconcileCheck(p) ==
    /\ p \in todo
    /\ checkStatusByIdentifier(p)
    /\ todo' = todo \ {p}
    /\ UNCHANGED <<rowVars, calling, begun, outcome, aged, vouched, faults>>

\* No usable answer: the job goes on with the next one.
reconcileSkips(p) ==
    /\ p \in todo
    /\ faults < MaxFaults
    /\ faults' = faults + 1
    /\ todo' = todo \ {p}
    /\ UNCHANGED <<rowVars, calling, begun, outcome, sent, aged, vouched>>

-------------------------------------------------------------------------------
(* The effect of an outcome, in one transaction with the rows locked.      *)

Count(f, P, motif) ==
    [p \in Payments |-> IF p \in P /\ Motif[p] = motif THEN f[p] + 1 ELSE f[p]]

\* Mutated form: the orders of failed payments are forgotten.
failOrdersStay(P) ==
    /\ status' = [p \in Payments |-> IF p \in P THEN "FAILED" ELSE status[p]]
    /\ UNCHANGED <<order, credited, activated>>

succeed(P) ==
    /\ status' = [p \in Payments |-> IF p \in P THEN "SUCCESS" ELSE status[p]]
    /\ credited' = Count(credited, P, "WALLET_DEPOSIT")
    /\ activated' = Count(activated, P, "SUBSCRIPTION")
    /\ order' = [p \in Payments |->
                   IF p \in P /\ Motif[p] = "MI_SERVICE" THEN "paid" ELSE order[p]]

fail(P) ==
    /\ status' = [p \in Payments |-> IF p \in P THEN "FAILED" ELSE status[p]]
    /\ order' = [p \in Payments |->
                   IF p \in P /\ Motif[p] = "MI_SERVICE" THEN "failed" ELSE order[p]]
    /\ UNCHANGED <<credited, activated>>

\* Mutated forms: a status of SUCCESS is not looked at; one row of a bulk is settled.
existing(e) == {p \in e.to : status[p] # "NONE"}
oneUnsettled(e) ==
    LET P == {p \in e.to : status[p] \in {"PENDING", "FAILED"}}
    IN  IF P = {} THEN {} ELSE {CHOOSE p \in P : TRUE}

\* The committed rows under the event's reference that have not succeeded.
unsettled(e) == {p \in e.to : status[p] \in {"PENDING", "FAILED"}}

applyPaymentEvent(e) ==
    /\ unsettled(e) # {}
    /\ \/ e.status = "succeeded" /\ succeed(unsettled(e))
       \/ e.status = "failed" /\ fail(unsettled(e))
    /\ UNCHANGED <<calling, begun, outcome, sent, jobVars, vouched, faults>>

\* Confirmation by hand: whatever the payment was for, its recipient's wallet is
\* credited.  The recipient of a Mi order is the platform, which has none.
confirmDeposit(p) ==
    /\ status[p] \in {"PENDING", "FAILED"}
    /\ Motif[p] # "MI_SERVICE"
    /\ status' = [status EXCEPT ![p] = "SUCCESS"]
    /\ credited' = [credited EXCEPT ![p] = @ + 1]
    /\ vouched' = vouched \union {p}
    /\ UNCHANGED <<order, activated, calling, begun, outcome, sent, jobVars, faults>>

markOrderDelivered(p) ==
    /\ order[p] # "none"
    /\ order' = [order EXCEPT ![p] = "delivered"]
    /\ UNCHANGED <<status, credited, activated, calling, begun, outcome, sent, jobVars, vouched, faults>>

-------------------------------------------------------------------------------
\* MAX_AGE_HOURS have passed since the payment was made.
age(p) ==
    /\ status[p] # "NONE"
    /\ p \notin aged
    /\ aged' = aged \union {p}
    /\ UNCHANGED <<rowVars, calling, begun, outcome, sent, todo, vouched, faults>>

\* The server restarts: requests and the job's list are lost.
crash ==
    /\ faults < MaxFaults
    /\ faults' = faults + 1
    /\ calling' = {}
    /\ todo' = {}
    /\ UNCHANGED <<rowVars, begun, outcome, sent, aged, vouched>>

Initiation(g) ==
    \/ initiateDeposit(g)
    \/ initiateSubscriptionPayment(g)
    \/ initiatePurchase(g)
    \/ initiateBulkPurchase(g)
    \/ storeExternalPaymentId(g)
    \/ initiationFails(g)

Settlement(p) ==
    \/ getTransactionByRef(p)
    \/ reconcileCheck(p)
    \/ reconcileSkips(p)
    \/ confirmDeposit(p)
    \/ markOrderDelivered(p)
    \/ age(p)

Next ==
    \/ \E g \in Groups :
          Initiation(g) \/ register(g) \/ customerSettles(g) \/ handleWebhook(g)
    \/ \E e \in sent : applyPaymentEvent(e)
    \/ reconcileRead
    \/ \E p \in Payments : Settlement(p)
    \/ crash

Spec == Init /\ [][Next]_vars

\* The cron job fires every minute and gets through its list; what it finds is
\* applied.  Webhooks, polling and customers owe nothing.
Fairness ==
    /\ WF_vars(reconcileRead)
    /\ \A p \in Payments : WF_vars(reconcileCheck(p))
    /\ \A p \in Payments :
          WF_vars(\E e \in sent : e.to = {p} /\ applyPaymentEvent(e))

FairSpec == Spec /\ Fairness

-------------------------------------------------------------------------------
(* Properties.                                                             *)

\* Nothing is saved after a call: the deposits and subscriptions go through the
\* widget.  Mi purchases may use any provider.
NothingStored == \A g \in Groups : Mi(g) \/ Provider[g] = "kkiapay"

\* "Idempotent: repeated success webhooks are safe": a payment has one effect,
\* however many webhooks, polls, checks and confirmations by hand report it.
GrantedOnce == \A p \in Payments : credited[p] + activated[p] <= 1

\* The same where nobody confirms by hand, for the webhooks and checks alone.
RepeatedSuccessIsSafe ==
    \A p \in Payments \ vouched : credited[p] + activated[p] <= 1

\* An effect is granted only to a payment the provider was paid for or that was
\* confirmed by hand, and only once the transaction says so.
GrantedIfPaid ==
    \A p \in Payments :
        credited[p] + activated[p] > 0 =>
            /\ status[p] = "SUCCESS"
            /\ p \in vouched \/ \E g \in Groups : p \in g /\ outcome[g] = "succeeded"

\* What makes them hold: nothing is granted before SUCCESS, a success under way was
\* paid for, and no request holds a row that is already committed.
SentWasPaid ==
    \A e \in sent : e.status = "succeeded" => e.to \in Groups /\ outcome[e.to] = "succeeded"

Uncommitted(g) == \A p \in g : status[p] = "NONE"

GrantInv ==
    /\ TypeOK
    /\ GrantedOnce
    /\ GrantedIfPaid
    /\ SentWasPaid
    /\ \A g \in calling \union (Groups \ begun) : Uncommitted(g)

\* A Mi order and its transaction tell the same story, whatever the order of
\* events, rollbacks and deliveries.
OrdersFollowPayments ==
    \A p \in Payments : Motif[p] = "MI_SERVICE" =>
        /\ status[p] = "NONE" <=> order[p] = "none"
        /\ order[p] = "paid" => status[p] = "SUCCESS"
        /\ status[p] = "SUCCESS" => order[p] \in {"paid", "delivered"}
        /\ status[p] = "FAILED" => order[p] \in {"failed", "delivered"}

\* "the webhook fans out the result to every transaction with this bulkRef": the
\* payments of a cart succeed together or not at all.
BulkTogether ==
    \A g \in Groups : Mi(g) =>
        \A p, q \in g : status[p] = "SUCCESS" => status[q] = "SUCCESS"

\* "stuck PENDING forever even though the money was actually taken": a paid PayGate
\* payment does not stay pending, although nobody polls and no webhook comes.
PaidSettles ==
    \A g \in Groups, p \in Payments :
        p \in g /\ Provider[g] = "paygate" /\ outcome[g] = "succeeded" /\ status[p] = "PENDING"
            ~> status[p] # "PENDING" \/ p \in aged

\* "re-checks every PayGate transaction still pending [...] so a completed payment
\* gets confirmed": a payment that is paid before the job has read it, and is not
\* yet too old, is confirmed.
PaidIsConfirmed ==
    \A g \in Groups, p \in Payments :
        p \in g /\ Provider[g] = "paygate" /\ outcome[g] = "succeeded" /\ status[p] = "PENDING"
            /\ sent = {} /\ todo = {}
            ~> status[p] = "SUCCESS" \/ p \in aged
===============================================================================
