---------------------- MODULE PaymentConfirmation_proofs ----------------------
(***************************************************************************)
(* What PaymentConfirmation guarantees for any payments, providers and     *)
(* faults: its types, and one effect per payment as long as no request     *)
(* saves, after the provider's answer, a transaction it committed before.  *)
(***************************************************************************)
EXTENDS PaymentConfirmation, TLAPS

\* The state is well typed initially.
LEMMA TypeInit == Init => TypeOK
BY PaymentsAssumption DEF Init, TypeOK, TransactionStatus, OrderStatus, Outcome

\* A request for a payment, its answer and its failure keep the types.
LEMMA TypeInitiation ==
    ASSUME TypeOK, NEW g \in Groups, Initiation(g)
    PROVE  TypeOK'
<1> USE DEF TypeOK, TransactionStatus, OrderStatus
<1>1. CASE initiate(g)
  BY <1>1 DEF initiate, Pending, jobVars
<1>2. CASE storeExternalPaymentId(g)
  BY <1>2 DEF storeExternalPaymentId, Pending, jobVars
<1>3. CASE initiationFails(g)
  BY <1>3, PaymentsAssumption DEF initiationFails, rowVars, jobVars
<1> QED
  BY <1>1, <1>2, <1>3 DEF Initiation, initiateDeposit, initiateSubscriptionPayment,
     initiatePurchase, initiateBulkPurchase

\* What the provider does, and what it is asked, keeps the types.
LEMMA TypeProvider ==
    ASSUME TypeOK,
           \/ \E g \in Groups : register(g) \/ customerSettles(g) \/ handleWebhook(g)
           \/ \E p \in Payments : getTransactionByRef(p) \/ reconcileCheck(p)
    PROVE  TypeOK'
<1> USE DEF TypeOK, rowVars, jobVars
<1>1. ASSUME NEW g \in Groups, register(g) \/ customerSettles(g)
      PROVE  TypeOK'
  BY <1>1 DEF register, customerSettles, Outcome
<1>2. ASSUME NEW g \in Groups, handleWebhook(g)
      PROVE  TypeOK'
  <2>1. [to |-> g, status |-> outcome[g]] \in Event
    BY <1>2, PaymentsAssumption DEF handleWebhook, Event
  <2> QED
    BY <2>1, <1>2 DEF handleWebhook
<1>3. ASSUME NEW p \in Payments, checkStatusByIdentifier(p)
      PROVE  sent' \subseteq Event
  BY <1>3 DEF checkStatusByIdentifier, Event
<1>4. ASSUME NEW p \in Payments, getTransactionByRef(p)
      PROVE  TypeOK'
  BY <1>3, <1>4 DEF getTransactionByRef
<1>5. ASSUME NEW p \in Payments, reconcileCheck(p)
      PROVE  TypeOK'
  BY <1>3, <1>5 DEF reconcileCheck
<1> QED
  BY <1>1, <1>2, <1>4, <1>5

\* So does the settlement of a payment, by an event or by hand.
LEMMA TypeSettlement ==
    ASSUME TypeOK,
           \/ \E e \in sent : applyPaymentEvent(e)
           \/ \E p \in Payments : confirmDeposit(p) \/ markOrderDelivered(p)
    PROVE  TypeOK'
<1> USE DEF TypeOK, TransactionStatus, OrderStatus, jobVars
<1>1. ASSUME NEW e \in sent, applyPaymentEvent(e)
      PROVE  TypeOK'
  <2>1. CASE succeed(unsettled(e))
    BY <1>1, <2>1 DEF applyPaymentEvent, succeed, Count
  <2>2. CASE fail(unsettled(e))
    BY <1>1, <2>2 DEF applyPaymentEvent, fail
  <2> QED
    BY <1>1, <2>1, <2>2 DEF applyPaymentEvent
<1>2. ASSUME NEW p \in Payments, confirmDeposit(p)
      PROVE  TypeOK'
  BY <1>2 DEF confirmDeposit
<1>3. ASSUME NEW p \in Payments, markOrderDelivered(p)
      PROVE  TypeOK'
  BY <1>3 DEF markOrderDelivered
<1> QED
  BY <1>1, <1>2, <1>3

\* Every step keeps the types.
LEMMA TypeStep ==
    ASSUME TypeOK, [Next]_vars
    PROVE  TypeOK'
<1>1. CASE UNCHANGED vars
  BY <1>1 DEF TypeOK, vars, rowVars, jobVars
<1>2. CASE \E g \in Groups : Initiation(g)
  BY <1>2, TypeInitiation
<1>3. CASE \E g \in Groups : register(g) \/ customerSettles(g) \/ handleWebhook(g)
  BY <1>3, TypeProvider
<1>4. CASE \E p \in Payments : getTransactionByRef(p) \/ reconcileCheck(p)
  BY <1>4, TypeProvider
<1>5. CASE (\E e \in sent : applyPaymentEvent(e))
           \/ \E p \in Payments : confirmDeposit(p) \/ markOrderDelivered(p)
  BY <1>5, TypeSettlement
<1>6. CASE reconcileRead
  BY <1>6 DEF reconcileRead, pendingTransactions, TypeOK, rowVars
<1>7. CASE \E p \in Payments : reconcileSkips(p) \/ age(p)
  BY <1>7, PaymentsAssumption DEF reconcileSkips, age, TypeOK, rowVars
<1>8. CASE crash
  BY <1>8, PaymentsAssumption DEF crash, TypeOK, rowVars
<1> QED
  BY <1>1, <1>2, <1>3, <1>4, <1>5, <1>6, <1>7, <1>8 DEF Next, Settlement

\* Every reachable state is well typed, whatever the payments, their providers
\* and the faults: PaymentConfirmation's variables range over what the rows may hold.
THEOREM TypeInvariant == Spec => []TypeOK
<1>1. TypeOK /\ [Next]_vars => TypeOK'
  BY TypeStep
<1> QED
  BY <1>1, TypeInit, PTL DEF Spec


-------------------------------------------------------------------------------
\* Nothing is granted, under way or committed initially.
LEMMA GrantInit == Init => GrantInv
<1>1. Init => GrantedOnce /\ GrantedIfPaid /\ SentWasPaid
  BY DEF Init, GrantedOnce, GrantedIfPaid, SentWasPaid
<1>2. Init => \A g \in calling \union (Groups \ begun) : Uncommitted(g)
  BY PaymentsAssumption DEF Init, Uncommitted
<1> QED
  BY <1>1, <1>2, TypeInit DEF GrantInv

\* What is not granted and not SUCCESS: a row the invariant says nothing about.
LEMMA NotGranted ==
    ASSUME GrantInv, NEW p \in Payments, status[p] # "SUCCESS"
    PROVE  credited[p] = 0 /\ activated[p] = 0
BY DEF GrantInv, GrantedIfPaid, TypeOK

\* Steps that leave the rows, the hand confirmations and the requests alone, and
\* let no success under way that was not paid for.
LEMMA GrantKept ==
    ASSUME GrantInv, TypeOK',
           UNCHANGED <<status, credited, activated, vouched>>,
           calling' \subseteq calling, begun \subseteq begun',
           SentWasPaid',
           \A g \in Groups : outcome[g] = "succeeded" => outcome'[g] = "succeeded"
    PROVE  GrantInv'
<1>1. GrantedOnce' /\ GrantedIfPaid'
  BY DEF GrantInv, GrantedOnce, GrantedIfPaid
<1>2. (\A g \in calling \union (Groups \ begun) : Uncommitted(g))'
  BY DEF GrantInv, Uncommitted
<1> QED
  BY <1>1, <1>2 DEF GrantInv

\* A request commits only rows that were not there, and holds none that are.
LEMMA GrantInitiation ==
    ASSUME NothingStored, GrantInv, TypeOK', NEW g \in Groups, Initiation(g)
    PROVE  GrantInv'
<1> SUFFICES ASSUME initiate(g) \/ storeExternalPaymentId(g)
             PROVE  GrantInv'
  <2>1. CASE initiationFails(g)
    BY <2>1, GrantKept DEF initiationFails, rowVars, GrantInv, SentWasPaid
  <2> QED
    BY <2>1 DEF Initiation, initiateDeposit, initiateSubscriptionPayment,
       initiatePurchase, initiateBulkPurchase
<1>1. Uncommitted(g)
  BY DEF initiate, storeExternalPaymentId, GrantInv
<1>2. UNCHANGED <<credited, activated, vouched, outcome, sent>>
  BY DEF initiate, storeExternalPaymentId, jobVars
<1>3. UNCHANGED status \/ status' = [p \in Payments |-> IF p \in g THEN "PENDING" ELSE status[p]]
  BY DEF initiate, storeExternalPaymentId, Pending
<1>4. \A p \in Payments : p \in g => credited[p] = 0 /\ activated[p] = 0
  BY <1>1, NotGranted DEF Uncommitted
<1>5. GrantedOnce' /\ GrantedIfPaid'
  BY <1>2, <1>3, <1>4 DEF GrantInv, GrantedOnce, GrantedIfPaid, TypeOK
<1>6. SentWasPaid'
  BY <1>2 DEF GrantInv, SentWasPaid
<1>7. (\A h \in calling \union (Groups \ begun) : Uncommitted(h))'
  <2> SUFFICES ASSUME NEW h \in (calling \union (Groups \ begun))'
               PROVE  Uncommitted(h)'
    OBVIOUS
  <2>1. h \in Groups /\ h \subseteq Payments
    BY PaymentsAssumption DEF TypeOK
  <2>2. CASE h # g
    <3>1. h \in calling \union (Groups \ begun)
      BY <2>1, <2>2 DEF initiate, storeExternalPaymentId
    <3>2. h \intersect g = {}
      BY <2>1, <2>2, PaymentsAssumption
    <3> QED
      BY <1>3, <2>1, <3>1, <3>2 DEF GrantInv, Uncommitted
  <2>3. CASE h = g
    <3>1. initiate(g) /\ Provider[g] # "kkiapay"
      BY <2>3 DEF initiate, storeExternalPaymentId, GrantInv, TypeOK
    <3>2. UNCHANGED status
      BY <3>1 DEF initiate, NothingStored
    <3> QED
      BY <1>1, <2>3, <3>2 DEF Uncommitted
  <2> QED
    BY <2>2, <2>3
<1> QED
  BY <1>5, <1>6, <1>7 DEF GrantInv

\* The provider reports a success only of a payment that was paid.
LEMMA GrantProvider ==
    ASSUME GrantInv, TypeOK',
           \/ \E g \in Groups : register(g) \/ customerSettles(g) \/ handleWebhook(g)
           \/ \E p \in Payments : getTransactionByRef(p) \/ reconcileCheck(p)
    PROVE  GrantInv'
<1> USE DEF rowVars, jobVars
<1>1. ASSUME NEW g \in Groups, register(g) \/ customerSettles(g)
      PROVE  GrantInv'
  <2>1. \A h \in Groups : outcome[h] = "succeeded" => outcome'[h] = "succeeded"
    BY <1>1 DEF register, customerSettles, GrantInv, TypeOK
  <2>2. SentWasPaid'
    BY <1>1, <2>1 DEF register, customerSettles, GrantInv, SentWasPaid
  <2> QED
    BY <1>1, <2>1, <2>2, GrantKept DEF register, customerSettles
<1>2. ASSUME NEW g \in Groups, handleWebhook(g)
      PROVE  GrantInv'
  <2>1. SentWasPaid'
    BY <1>2 DEF handleWebhook, GrantInv, SentWasPaid
  <2> QED
    BY <1>2, <2>1, GrantKept DEF handleWebhook
<1>3. ASSUME NEW p \in Payments, checkStatusByIdentifier(p), UNCHANGED outcome
      PROVE  SentWasPaid'
  BY <1>3 DEF checkStatusByIdentifier, paygateStatus, GrantInv, SentWasPaid
<1>4. ASSUME NEW p \in Payments, getTransactionByRef(p) \/ reconcileCheck(p)
      PROVE  GrantInv'
  <2>1. SentWasPaid'
    BY <1>3, <1>4 DEF getTransactionByRef, reconcileCheck
  <2> QED
    BY <1>4, <2>1, GrantKept DEF getTransactionByRef, reconcileCheck
<1> QED
  BY <1>1, <1>2, <1>4

\* An event is applied to rows that are not SUCCESS, which were not granted.
LEMMA GrantEvent ==
    ASSUME GrantInv, TypeOK', NEW e \in sent, applyPaymentEvent(e)
    PROVE  GrantInv'
<1> DEFINE P == unsettled(e)
<1>1. UNCHANGED <<calling, begun, outcome, sent, vouched>>
  BY DEF applyPaymentEvent
<1>2. \A p \in Payments : p \in P => credited[p] = 0 /\ activated[p] = 0 /\ status[p] # "NONE"
  BY NotGranted DEF unsettled
<1>3. \A p \in Payments : p \notin P => status'[p] = status[p] /\ credited'[p] = credited[p]
                                         /\ activated'[p] = activated[p]
  <2> HIDE DEF P
  <2>1. CASE succeed(P)
    BY <2>1 DEF succeed, Count, TypeOK, GrantInv
  <2>2. CASE fail(P)
    BY <2>2 DEF fail, TypeOK, GrantInv
  <2> QED
    BY <2>1, <2>2 DEF applyPaymentEvent, P
<1>4. \A p \in Payments : p \in P =>
          /\ credited'[p] + activated'[p] <= 1
          /\ credited'[p] + activated'[p] > 0 =>
               status'[p] = "SUCCESS" /\ e.status = "succeeded"
  <2> SUFFICES ASSUME NEW p \in Payments, p \in P
               PROVE  /\ credited'[p] + activated'[p] <= 1
                      /\ credited'[p] + activated'[p] > 0 =>
                           status'[p] = "SUCCESS" /\ e.status = "succeeded"
    OBVIOUS
  <2>1. credited[p] = 0 /\ activated[p] = 0
    BY <1>2
  <2> HIDE DEF P
  <2>2. CASE e.status = "succeeded" /\ succeed(P)
    BY <2>1, <2>2 DEF succeed, Count
  <2>3. CASE fail(P)
    BY <2>1, <2>3 DEF fail
  <2> QED
    BY <2>2, <2>3 DEF applyPaymentEvent, P
<1>5. P \subseteq e.to
  BY DEF unsettled
<1> HIDE DEF P
<1>6. GrantedOnce'
  BY <1>3, <1>4 DEF GrantInv, GrantedOnce
<1>7. GrantedIfPaid'
  <2> SUFFICES ASSUME NEW p \in Payments, credited'[p] + activated'[p] > 0
               PROVE  /\ status'[p] = "SUCCESS"
                      /\ p \in vouched' \/ \E g \in Groups : p \in g /\ outcome'[g] = "succeeded"
    BY DEF GrantedIfPaid
  <2>1. CASE p \in P
    BY <1>1, <1>4, <1>5, <2>1 DEF GrantInv, SentWasPaid
  <2>2. CASE p \notin P
    BY <1>1, <1>3, <2>2 DEF GrantInv, GrantedIfPaid
  <2> QED
    BY <2>1, <2>2
<1>8. (\A g \in calling \union (Groups \ begun) : Uncommitted(g))'
  <2> SUFFICES ASSUME NEW g \in calling \union (Groups \ begun)
               PROVE  Uncommitted(g)'
    BY <1>1
  <2>1. g \subseteq Payments /\ Uncommitted(g)
    BY PaymentsAssumption DEF GrantInv, TypeOK
  <2> QED
    BY <1>2, <1>3, <2>1 DEF Uncommitted
<1>9. SentWasPaid'
  BY <1>1 DEF GrantInv, SentWasPaid
<1> QED
  BY <1>6, <1>7, <1>8, <1>9 DEF GrantInv

\* So is a confirmation by hand.
LEMMA GrantConfirmed ==
    ASSUME GrantInv, TypeOK', NEW p \in Payments, confirmDeposit(p)
    PROVE  GrantInv'
<1>1. credited[p] = 0 /\ activated[p] = 0
  BY NotGranted DEF confirmDeposit
<1>2. /\ status' = [status EXCEPT ![p] = "SUCCESS"]
      /\ credited' = [credited EXCEPT ![p] = @ + 1]
      /\ vouched' = vouched \union {p}
      /\ UNCHANGED <<activated, calling, begun, outcome, sent>>
  BY DEF confirmDeposit
<1>3. GrantedOnce' /\ GrantedIfPaid'
  BY <1>1, <1>2 DEF GrantInv, TypeOK, GrantedOnce, GrantedIfPaid
<1>4. (\A g \in calling \union (Groups \ begun) : Uncommitted(g))'
  <2> SUFFICES ASSUME NEW g \in calling \union (Groups \ begun)
               PROVE  Uncommitted(g)'
    BY <1>2
  <2>1. g \subseteq Payments /\ Uncommitted(g)
    BY PaymentsAssumption DEF GrantInv, TypeOK
  <2>2. p \notin g
    BY <2>1 DEF confirmDeposit, Uncommitted
  <2> QED
    BY <1>2, <2>1, <2>2 DEF Uncommitted, GrantInv, TypeOK
<1>5. SentWasPaid'
  BY <1>2 DEF GrantInv, SentWasPaid
<1> QED
  BY <1>3, <1>4, <1>5 DEF GrantInv

\* Every step keeps the invariant.
LEMMA GrantStep ==
    ASSUME NothingStored, GrantInv, [Next]_vars
    PROVE  GrantInv'
<1>1. TypeOK'
  BY TypeStep DEF GrantInv
<1>2. CASE \E g \in Groups : Initiation(g)
  BY <1>1, <1>2, GrantInitiation
<1>3. CASE \/ \E g \in Groups : register(g) \/ customerSettles(g) \/ handleWebhook(g)
           \/ \E p \in Payments : getTransactionByRef(p) \/ reconcileCheck(p)
  BY <1>1, <1>3, GrantProvider
<1>4. CASE \E e \in sent : applyPaymentEvent(e)
  BY <1>1, <1>4, GrantEvent
<1>5. CASE \E p \in Payments : confirmDeposit(p)
  BY <1>1, <1>5, GrantConfirmed
<1>6. ASSUME UNCHANGED <<status, credited, activated, vouched, begun, outcome, sent>>,
             calling' \subseteq calling
      PROVE  GrantInv'
  <2>1. SentWasPaid'
    BY <1>6 DEF GrantInv, SentWasPaid
  <2> QED
    BY <1>1, <1>6, <2>1, GrantKept
<1>7. CASE UNCHANGED vars
  BY <1>6, <1>7 DEF vars, rowVars
<1>8. CASE reconcileRead \/ crash
  BY <1>6, <1>8 DEF reconcileRead, crash, rowVars
<1>9. CASE \E p \in Payments : reconcileSkips(p) \/ age(p) \/ markOrderDelivered(p)
  BY <1>6, <1>9 DEF reconcileSkips, age, markOrderDelivered, rowVars
<1> QED
  BY <1>2, <1>3, <1>4, <1>5, <1>7, <1>8, <1>9 DEF Next, Settlement

\* One effect per payment, and only of a paid one, however often and in whatever
\* order webhooks, polls, the job and an administrator report it, provided that
\* deposits and subscriptions go through the widget.  Without that hypothesis the
\* stale save of initiateDeposit makes it false (run CreditedTwice).
THEOREM GrantInvariant == ASSUME NothingStored PROVE Spec => []GrantInv
<1>1. GrantInv /\ [Next]_vars => GrantInv'
  BY GrantStep
<1> QED
  BY <1>1, GrantInit, PTL DEF Spec


-------------------------------------------------------------------------------
\* Each action changes an order together with its transaction.
LEMMA OrdersStep ==
    ASSUME TypeOK, OrdersFollowPayments, [Next]_vars
    PROVE  OrdersFollowPayments'
<1> USE DEF OrdersFollowPayments, TypeOK
<1>1. ASSUME UNCHANGED <<status, order>>
      PROVE  OrdersFollowPayments'
  BY <1>1
<1>2. ASSUME NEW g \in Groups, Pending(g)
      PROVE  OrdersFollowPayments'
  BY <1>2 DEF Pending
<1>3. CASE \E g \in Groups : Initiation(g)
  <2> PICK g \in Groups : Initiation(g)
    BY <1>3
  <2>1. Pending(g) \/ UNCHANGED <<status, order>>
    BY DEF Initiation, initiateDeposit, initiateSubscriptionPayment, initiatePurchase,
       initiateBulkPurchase, initiate, storeExternalPaymentId, initiationFails, rowVars
  <2> QED
    BY <1>1, <1>2, <2>1
<1>4. ASSUME NEW e \in sent, applyPaymentEvent(e)
      PROVE  OrdersFollowPayments'
  <2>1. CASE succeed(unsettled(e))
    BY <2>1 DEF succeed, unsettled
  <2>2. CASE fail(unsettled(e))
    BY <2>2 DEF fail, unsettled
  <2> QED
    BY <1>4, <2>1, <2>2 DEF applyPaymentEvent
<1>5. ASSUME NEW p \in Payments, confirmDeposit(p)
      PROVE  OrdersFollowPayments'
  BY <1>5 DEF confirmDeposit
<1>6. ASSUME NEW p \in Payments, markOrderDelivered(p)
      PROVE  OrdersFollowPayments'
  BY <1>6 DEF markOrderDelivered
<1>7. CASE \E g \in Groups : register(g) \/ customerSettles(g) \/ handleWebhook(g)
  BY <1>1, <1>7 DEF register, customerSettles, handleWebhook, rowVars
<1>8. CASE \E p \in Payments :
             getTransactionByRef(p) \/ reconcileCheck(p) \/ reconcileSkips(p) \/ age(p)
  BY <1>1, <1>8 DEF getTransactionByRef, reconcileCheck, reconcileSkips, age, rowVars
<1>9. CASE reconcileRead \/ crash \/ UNCHANGED vars
  BY <1>1, <1>9 DEF reconcileRead, crash, vars, rowVars
<1> QED
  BY <1>3, <1>4, <1>5, <1>6, <1>7, <1>8, <1>9 DEF Next, Settlement

\* A Mi order and its transaction tell the same story in every reachable state,
\* with any provider, although a purchase is rolled back when its request fails.
THEOREM OrdersInvariant == Spec => []OrdersFollowPayments
<1>1. Init => OrdersFollowPayments
  BY DEF Init, OrdersFollowPayments
<1>2. TypeOK /\ OrdersFollowPayments /\ [Next]_vars => OrdersFollowPayments'
  BY OrdersStep
<1> QED
  BY <1>1, <1>2, TypeInvariant, PTL DEF Spec

-------------------------------------------------------------------------------
(* The payments of a cart.                                                 *)

\* The rows of a group are committed together.
WholeOrAbsent(g) == (\A p \in g : status[p] # "NONE") \/ (\A p \in g : status[p] = "NONE")

\* A success under way is that of a whole group; a failure may be that of one payment,
\* whose reference the provider does not know.
SuccessOfGroup == \A e \in sent : e.status = "succeeded" => e.to \in Groups

BulkInv == BulkTogether /\ SuccessOfGroup /\ \A g \in Groups : WholeOrAbsent(g)

\* The requests: a group that is committed is wholly PENDING.
LEMMA BulkInitiation ==
    ASSUME TypeOK, BulkInv, NEW g \in Groups, Initiation(g)
    PROVE  BulkInv'
<1>1. Pending(g) \/ UNCHANGED status
  BY DEF Initiation, initiateDeposit, initiateSubscriptionPayment, initiatePurchase,
     initiateBulkPurchase, initiate, storeExternalPaymentId, initiationFails, rowVars
<1>2. UNCHANGED sent
  BY DEF Initiation, initiateDeposit, initiateSubscriptionPayment, initiatePurchase,
     initiateBulkPurchase, initiate, storeExternalPaymentId, initiationFails
<1>3. SuccessOfGroup'
  BY <1>2 DEF BulkInv, SuccessOfGroup
<1>4. CASE Pending(g)
  <2> SUFFICES ASSUME NEW h \in Groups
               PROVE  /\ WholeOrAbsent(h)'
                      /\ \A p, q \in h : Mi(h) /\ status'[p] = "SUCCESS" => status'[q] = "SUCCESS"
    BY <1>3 DEF BulkInv, BulkTogether
  <2>1. h \subseteq Payments /\ g \subseteq Payments
    BY PaymentsAssumption
  <2>2. CASE h = g
    BY <1>4, <2>1, <2>2 DEF Pending, WholeOrAbsent
  <2>3. CASE h # g
    <3>1. \A p \in h : status'[p] = status[p]
      BY <1>4, <2>1, <2>3, PaymentsAssumption DEF Pending
    <3> QED
      BY <3>1 DEF BulkInv, BulkTogether, WholeOrAbsent
  <2> QED
    BY <2>2, <2>3
<1>5. CASE UNCHANGED status
  BY <1>3, <1>5 DEF BulkInv, BulkTogether, WholeOrAbsent
<1> QED
  BY <1>1, <1>4, <1>5

\* The provider: a check of one payment of a cart finds nothing, so reports no success.
LEMMA BulkReported ==
    ASSUME TypeOK, BulkInv,
           \/ \E g \in Groups : handleWebhook(g)
           \/ \E p \in Payments : getTransactionByRef(p) \/ reconcileCheck(p)
    PROVE  BulkInv'
<1>1. ASSUME NEW g \in Groups, handleWebhook(g)
      PROVE  SuccessOfGroup'
  BY <1>1 DEF handleWebhook, BulkInv, SuccessOfGroup
<1>2. ASSUME NEW p \in Payments, checkStatusByIdentifier(p)
      PROVE  SuccessOfGroup'
  BY <1>2 DEF checkStatusByIdentifier, paygateStatus, BulkInv, SuccessOfGroup
<1>3. SuccessOfGroup'
  BY <1>1, <1>2 DEF getTransactionByRef, reconcileCheck
<1>4. UNCHANGED status
  BY DEF handleWebhook, getTransactionByRef, reconcileCheck, rowVars
<1> QED
  BY <1>3, <1>4 DEF BulkInv, BulkTogether, WholeOrAbsent

\* An event: a success reaches every row of the group, and no failure undoes one.
LEMMA BulkEvent ==
    ASSUME TypeOK, BulkInv, NEW e \in sent, applyPaymentEvent(e)
    PROVE  BulkInv'
<1> DEFINE P == unsettled(e)
<1>1. UNCHANGED sent
  BY DEF applyPaymentEvent
<1>2. SuccessOfGroup'
  BY <1>1 DEF BulkInv, SuccessOfGroup
<1>3. e.to \subseteq Payments /\ \A p \in e.to : p \in P <=> status[p] \notin {"NONE", "SUCCESS"}
  BY DEF TypeOK, Event, unsettled, TransactionStatus
<1>4. P \subseteq e.to
  BY DEF unsettled
<1>5. \/ e.status = "succeeded"
         /\ status' = [p \in Payments |-> IF p \in P THEN "SUCCESS" ELSE status[p]]
      \/ status' = [p \in Payments |-> IF p \in P THEN "FAILED" ELSE status[p]]
  BY DEF applyPaymentEvent, succeed, fail
<1> HIDE DEF P
<1> SUFFICES ASSUME NEW g \in Groups
             PROVE  /\ WholeOrAbsent(g)'
                    /\ \A p, q \in g : Mi(g) /\ status'[p] = "SUCCESS" => status'[q] = "SUCCESS"
  BY <1>2 DEF BulkInv, BulkTogether
<1>6. g \subseteq Payments
  BY PaymentsAssumption
<1>7. WholeOrAbsent(g) /\ \A p, q \in g : Mi(g) /\ status[p] = "SUCCESS" => status[q] = "SUCCESS"
  BY DEF BulkInv, BulkTogether
<1>8. \A p \in g : status'[p] = "NONE" <=> status[p] = "NONE"
  BY <1>3, <1>4, <1>5, <1>6
<1>9. WholeOrAbsent(g)'
  BY <1>7, <1>8 DEF WholeOrAbsent
<1>10. ASSUME NEW p \in g, NEW q \in g, Mi(g), status'[p] = "SUCCESS"
       PROVE  status'[q] = "SUCCESS"
  <2>1. CASE p \notin P
    <3>1. status[p] = "SUCCESS"
      BY <1>5, <1>6, <1>10, <2>1
    <3>2. status[q] = "SUCCESS"
      BY <1>7, <1>10, <3>1
    <3> QED
      BY <1>3, <1>4, <1>5, <1>6, <3>2
  <2>2. CASE p \in P
    <3>1. e.status = "succeeded"
          /\ status' = [r \in Payments |-> IF r \in P THEN "SUCCESS" ELSE status[r]]
      BY <1>5, <1>6, <1>10, <2>2
    <3>2. e.to = g
      BY <1>4, <2>2, <3>1, PaymentsAssumption DEF BulkInv, SuccessOfGroup
    <3>3. status[q] # "NONE"
      BY <1>3, <1>4, <1>7, <2>2 DEF WholeOrAbsent
    <3> QED
      BY <1>3, <1>6, <3>1, <3>2, <3>3
  <2> QED
    BY <2>1, <2>2
<1> QED
  BY <1>9, <1>10

\* No confirmation by hand reaches a cart.
LEMMA BulkConfirmed ==
    ASSUME TypeOK, BulkInv, NEW r \in Payments, confirmDeposit(r)
    PROVE  BulkInv'
<1>1. SuccessOfGroup'
  BY DEF confirmDeposit, BulkInv, SuccessOfGroup
<1> SUFFICES ASSUME NEW g \in Groups
             PROVE  /\ WholeOrAbsent(g)'
                    /\ \A p, q \in g : Mi(g) /\ status'[p] = "SUCCESS" => status'[q] = "SUCCESS"
  BY <1>1 DEF BulkInv, BulkTogether
<1>2. g \subseteq Payments
  BY PaymentsAssumption
<1>3. status' = [status EXCEPT ![r] = "SUCCESS"] /\ status[r] # "NONE" /\ Motif[r] # "MI_SERVICE"
  BY DEF confirmDeposit
<1>4. \A p \in g : status'[p] = "NONE" <=> status[p] = "NONE"
  BY <1>2, <1>3 DEF TypeOK
<1>5. Mi(g) => \A p \in g : status'[p] = status[p]
  BY <1>2, <1>3 DEF Mi, TypeOK
<1> QED
  BY <1>4, <1>5 DEF BulkInv, BulkTogether, WholeOrAbsent

LEMMA BulkStep ==
    ASSUME TypeOK, BulkInv, [Next]_vars
    PROVE  BulkInv'
<1>1. ASSUME UNCHANGED <<status, sent>>
      PROVE  BulkInv'
  BY <1>1 DEF BulkInv, BulkTogether, SuccessOfGroup, WholeOrAbsent
<1>2. CASE \E g \in Groups : register(g) \/ customerSettles(g)
  BY <1>1, <1>2 DEF register, customerSettles, rowVars
<1>3. CASE \E p \in Payments : reconcileSkips(p) \/ age(p) \/ markOrderDelivered(p)
  BY <1>1, <1>3 DEF reconcileSkips, age, markOrderDelivered, rowVars
<1>4. CASE reconcileRead \/ crash \/ UNCHANGED vars
  BY <1>1, <1>4 DEF reconcileRead, crash, vars, rowVars
<1> QED
  BY <1>2, <1>3, <1>4, BulkInitiation, BulkReported, BulkEvent, BulkConfirmed DEF Next, Settlement

\* The payments of a cart succeed together or not at all, with any provider: also when
\* the job or the app checks one of them alone and takes it for failed.
THEOREM CartsSucceedWhole == Spec => []BulkTogether
<1>1. Init => BulkInv
  BY PaymentsAssumption DEF Init, BulkInv, BulkTogether, SuccessOfGroup, WholeOrAbsent
<1>2. BulkInv => BulkTogether
  BY DEF BulkInv
<1> QED
  BY <1>1, <1>2, BulkStep, TypeInvariant, PTL DEF Spec

===============================================================================
