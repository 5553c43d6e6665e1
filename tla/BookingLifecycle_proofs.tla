----------------------- MODULE BookingLifecycle_proofs -----------------------
(***************************************************************************)
(* Proofs about the booking lifecycle, for any bookings, carts, handlers   *)
(* and bounds.                                                             *)
(***************************************************************************)
EXTENDS WorkerRelease, Sums, TLAPS

(* The price of a booking splits into a commission and a payout, neither   *)
(* negative: the payout of a shop never lowers its balance.                *)
LEMMA PriceSplits ==
    ASSUME NEW gross \in Nat
    PROVE  /\ E!Commission(gross) \in Nat
           /\ E!NetAmount(gross) \in Nat
           /\ E!NetAmount(gross) + E!Commission(gross) = gross
    BY DEF E!Commission, E!NetAmount

(* Saving some columns of a row over another row gives a row.              *)
LEMMA MergeType ==
    ASSUME NEW r \in Row, NEW s \in Row, NEW cols \in SUBSET Columns
    PROVE  Merge(r, s, cols) \in Row
    BY DEF Merge, Row

LEMMA NewRowType ==
    ASSUME NEW status \in Status, NEW paid \in {0, 1}, NEW slot \in Nat,
           NEW bulk \in BOOLEAN, NEW token \in Nat, now \in Nat
    PROVE  NewRow(status, paid, slot, End(slot, bulk), token) \in Row
    BY ConstantsAssumption DEF NewRow, End, Row, NoToken, ConstantsAssumption

LEMMA NoRowType == NoRow \in Row
    BY DEF NoRow, Row, Status, NoToken

LEMMA IdleType == Idle \in Op
    BY NoRowType DEF Idle, Op, NoRows

LEMMA TypeInit == Init => TypeOK
    BY NoRowType, IdleType, ConstantsAssumption
    DEF Init, TypeOK, NoRows, TxnStatus, ConstantsAssumption

LEMMA TypeCheckout ==
    ASSUME TypeOK, NEW c \in Carts, NEW slot \in [c -> Slots],
           initiateCheckout(c, slot) \/ initiateBulkCheckout(c, slot)
    PROVE  TypeOK'
<1>1. c \subseteq Bookings /\ \A b \in c : slot[b] \in Nat
    BY ConstantsAssumption DEF ConstantsAssumption
<1>2. ASSUME NEW bulk \in BOOLEAN, bookFromWallet(c, slot, bulk)
      PROVE  TypeOK'
    <2>1. row' \in [Bookings -> Row]
        <3>1. ASSUME NEW b \in c
              PROVE  NewRow("CONFIRMED", 1, slot[b], End(slot[b], bulk), Fresh(b)) \in Row
            <4>1. Fresh(b) \in Nat /\ slot[b] \in Nat /\ now \in Nat
                BY <1>1 DEF Fresh, TypeOK
            <4> QED BY <4>1, NewRowType DEF Status
        <3> QED BY <1>2, <3>1 DEF bookFromWallet, TypeOK
    <2>2. wallet' \in [Clients -> Nat]
        BY <1>2, ConstantsAssumption DEF bookFromWallet, canPay, TypeOK, ConstantsAssumption
    <2>3. txn' \in [Bookings -> TxnStatus]
        BY <1>2 DEF bookFromWallet, TypeOK, TxnStatus
    <2>4. minted' \in [Bookings -> Nat]
        BY <1>2 DEF bookFromWallet, Mint, Fresh, TypeOK
    <2> QED BY <1>1, <1>2, <2>1, <2>2, <2>3, <2>4
            DEF bookFromWallet, TypeOK, scanVars, payoutVars
<1>3. ASSUME NEW bulk \in BOOLEAN, bookPending(c, slot, bulk)
      PROVE  TypeOK'
    <2>1. row' \in [Bookings -> Row]
        <3>1. ASSUME NEW b \in c
              PROVE  NewRow("PENDING_PAYMENT", 0, slot[b], End(slot[b], bulk), NoToken) \in Row
            <4>1. NoToken \in Nat /\ slot[b] \in Nat /\ now \in Nat
                BY <1>1 DEF NoToken, TypeOK
            <4> QED BY <4>1, NewRowType DEF Status
        <3> QED BY <1>3, <3>1 DEF bookPending, TypeOK
    <2>2. txn' \in [Bookings -> TxnStatus]
        BY <1>3 DEF bookPending, TypeOK, TxnStatus
    <2> QED BY <1>3, <2>1, <2>2 DEF bookPending, TypeOK, scanVars, payoutVars
<1> QED BY <1>2, <1>3 DEF initiateCheckout, initiateBulkCheckout, checkoutWithWallet,
            bulkCheckoutWithWallet, checkoutWithExternalProvider, bulkCheckoutWithExternalProvider

LEMMA TypeProvider ==
    ASSUME TypeOK, NEW c \in Carts,
           \/ storeExternalPaymentId(c)
           \/ initiationEnds(c)
           \/ \E to \in {c} \union {{b} : b \in c}, outcome \in {"succeeded", "failed"} :
                 providerReports(c, to, outcome)
    PROVE  TypeOK'
<1>1. CASE storeExternalPaymentId(c)
    <2>1. txn' \in [Bookings -> TxnStatus]
        BY <1>1 DEF storeExternalPaymentId, TypeOK, TxnStatus
    <2> QED BY <1>1, <2>1 DEF storeExternalPaymentId, TypeOK, scanVars, payoutVars
<1>2. CASE initiationEnds(c)
    BY <1>2 DEF initiationEnds, TypeOK, scanVars, payoutVars
<1>3. ASSUME NEW to \in {c} \union {{b} : b \in c}, NEW outcome \in {"succeeded", "failed"},
             providerReports(c, to, outcome)
      PROVE  TypeOK'
    <2>1. to \subseteq Bookings
        BY ConstantsAssumption DEF ConstantsAssumption
    <2>2. [to |-> to, outcome |-> outcome] \in Event
        BY <2>1 DEF Event
    <2> QED BY <1>3, <2>1, <2>2 DEF providerReports, TypeOK, scanVars, payoutVars
<1> QED BY <1>1, <1>2, <1>3

LEMMA BookingTypes ==
    ASSUME TypeOK, NEW b \in Bookings
    PROVE  row[b] \in Row /\ minted[b] \in Nat /\ Fresh(b) \in Nat
    BY DEF TypeOK, Fresh

LEMMA TypePaymentEvent ==
    ASSUME TypeOK, NEW e \in sent, applyPaymentEvent(e)
    PROVE  TypeOK'
<1> DEFINE B == {b \in e.to : txn[b] # "SUCCESS"}
<1>1. applyBookingPaymentEvent(B, e.outcome)
    BY DEF applyPaymentEvent
<1>2. row' \in [Bookings -> Row]
    <2>1. ASSUME NEW b \in Bookings
          PROVE  /\ [row[b] EXCEPT !.status = "CONFIRMED", !.paid = 1, !.checkin = Fresh(b)] \in Row
                 /\ [row[b] EXCEPT !.status = "PAYMENT_FAILED", !.paid = 0] \in Row
        BY BookingTypes DEF Row, Status
    <2> HIDE DEF B
    <2>2. \A b \in Bookings : row[b] \in Row
        BY BookingTypes
    <2> QED BY <1>1, <2>1, <2>2 DEF applyBookingPaymentEvent, confirmBookings, failBookings
<1>3. txn' \in [Bookings -> TxnStatus]
    BY <1>1 DEF applyBookingPaymentEvent, confirmBookings, failBookings, TypeOK, TxnStatus
<1>4. minted' \in [Bookings -> Nat]
    BY <1>1, BookingTypes DEF applyBookingPaymentEvent, confirmBookings, failBookings, TypeOK, Mint
<1> QED BY <1>2, <1>3, <1>4 DEF applyPaymentEvent, TypeOK, scanVars, payoutVars

LEMMA TypeScan ==
    ASSUME TypeOK, NEW b \in Bookings, qrCheckin(b) \/ qrCheckout(b)
    PROVE  TypeOK'
<1>1. CASE qrCheckin(b)
    <2>1. row' \in [Bookings -> Row]
        BY <1>1 DEF qrCheckin, TypeOK, Row, Status, Fresh, NoToken
    <2>2. minted' \in [Bookings -> Nat]
        BY <1>1 DEF qrCheckin, TypeOK, Mint, Fresh
    <2>3. used' \in [Bookings -> SUBSET Nat]
        BY <1>1 DEF qrCheckin, TypeOK, Row
    <2>4. worker' \in [Workers -> BOOLEAN]
        BY <1>1 DEF qrCheckin, SetBusy, TypeOK
    <2> QED BY <1>1, <2>1, <2>2, <2>3, <2>4 DEF qrCheckin, TypeOK, paymentVars, payoutVars
<1>2. CASE qrCheckout(b)
    <2>1. row' \in [Bookings -> Row]
        BY <1>2 DEF qrCheckout, TypeOK, Row, Status, NoToken
    <2>2. worker' \in [Workers -> BOOLEAN]
        BY <1>2 DEF qrCheckout, SetBusy, TypeOK
    <2>3. credits' \in [Bookings -> Nat]
        BY <1>2 DEF qrCheckout, queueCredit, TypeOK
    <2> QED BY <1>2, <2>1, <2>2, <2>3 DEF qrCheckout, TypeOK, paymentVars
<1> QED BY <1>1, <1>2

(* What an unlocked handler reads and changes are rows.                    *)
LEMMA TypeRead ==
    ASSUME TypeOK, NEW h \in Handlers, NEW kind, NEW B, NEW changed \in [Bookings -> Row],
           Read(h, kind, B, changed), minted' \in [Bookings -> Nat]
    PROVE  TypeOK'
<1>1. ops' \in [Handlers -> Op]
    BY NoRowType DEF Read, TypeOK, Op
<1> QED BY <1>1 DEF Read, TypeOK, paymentVars, scanVars, payoutVars

LEMMA TypeHandle ==
    ASSUME TypeOK, NEW h \in Handlers, Handle(h)
    PROVE  TypeOK'
<1>1. CASE \E b \in Bookings, slot \in Slots : reschedule(h, b, slot)
    <2>1. PICK b \in Bookings, slot \in Slots : reschedule(h, b, slot)
        BY <1>1
    <2>2. slot \in Nat
        BY ConstantsAssumption DEF ConstantsAssumption
    <2>3. [x \in Bookings |-> Rescheduled(row[x], slot, Fresh(x))] \in [Bookings -> Row]
        <3>1. ASSUME NEW x \in Bookings
              PROVE  Rescheduled(row[x], slot, Fresh(x)) \in Row
            BY <2>2, BookingTypes DEF Rescheduled, Row, Status
        <3> QED BY <3>1
    <2>4. minted' \in [Bookings -> Nat]
        BY <2>1 DEF reschedule, Mint, Fresh, TypeOK
    <2> QED BY <2>1, <2>3, <2>4, TypeRead DEF reschedule
<1>2. CancelledRows \in [Bookings -> Row] /\ NoShowRows \in [Bookings -> Row]
    BY DEF TypeOK, CancelledRows, NoShowRows, Row, Status
<1>3. ASSUME NEW kind, NEW B, NEW changed \in {CancelledRows, NoShowRows},
             Read(h, kind, B, changed), UNCHANGED minted
      PROVE  TypeOK'
    <2>1. minted' \in [Bookings -> Nat]
        BY <1>3 DEF TypeOK
    <2> QED BY <1>2, <1>3, <2>1, TypeRead
<1>4. CASE \/ \E b \in Bookings : cancel(h, b)
           \/ \E b \in Bookings : findOne(h, b)
           \/ \E client \in Clients : userBookingsByStatus(h, client)
           \/ \E page \in SUBSET Bookings : findByProvider(h, page)
           \/ markExpiredConfirmedBookings(h)
           \/ cancelStalePendingBookings(h)
    BY <1>3, <1>4 DEF cancel, findOne, userBookingsByStatus, findByProvider, markMissed,
       markExpiredConfirmedBookings, cancelStalePendingBookings
<1>5. CASE saveDiff(h)
    <2>1. ops' \in [Handlers -> Op]
        BY <1>5 DEF saveDiff, TypeOK, Op
    <2> QED BY <1>5, <2>1 DEF saveDiff, TypeOK, paymentVars, scanVars, payoutVars
<1>6. CASE saveUpdate(h)
    <2>1. ops[h].snap \in [Bookings -> Row] /\ ops[h].cols \in [Bookings -> SUBSET Columns]
        BY DEF TypeOK, Op
    <2>2. row' \in [Bookings -> Row]
        BY <1>6, <2>1, MergeType DEF saveUpdate, TypeOK
    <2>3. ops' \in [Handlers -> Op]
        BY <1>6, IdleType DEF saveUpdate, TypeOK
    <2> QED BY <1>6, <2>2, <2>3 DEF saveUpdate, TypeOK, paymentVars, scanVars, payoutVars
<1> QED BY <1>1, <1>4, <1>5, <1>6 DEF Handle

LEMMA TypeCredit ==
    ASSUME TypeOK, NEW b \in Bookings,
           applyCredit(b) \/ applyCreditFails(b) \/ reconcileBookingCredits(b)
    PROVE  TypeOK'
<1>1. CASE applyCredit(b)
    <2>1. Amount[b] \in Nat /\ ShopOf[b] \in Shops
        BY ConstantsAssumption DEF ConstantsAssumption
    <2>2. /\ E!NetAmount(Amount[b]) \in Nat
          /\ E!Commission(Amount[b]) \in Nat
        BY <2>1, PriceSplits
    <2>3. ledger' \subseteq Entry
        BY <1>1, <2>2 DEF applyCredit, creditForBooking, TypeOK, Entry
    <2>4. balance' \in [Shops -> Nat]
        BY <1>1, <2>1, <2>2 DEF applyCredit, creditForBooking, TypeOK
    <2>5. credits' \in [Bookings -> Nat]
        BY <1>1 DEF applyCredit, TypeOK
    <2> QED BY <1>1, <2>3, <2>4, <2>5 DEF applyCredit, TypeOK, paymentVars, scanVars
<1>2. CASE applyCreditFails(b)
    BY <1>2 DEF applyCreditFails, TypeOK, paymentVars, scanVars
<1>3. CASE reconcileBookingCredits(b)
    BY <1>3 DEF reconcileBookingCredits, TypeOK, paymentVars, scanVars
<1> QED BY <1>1, <1>2, <1>3

LEMMA TypeStep ==
    ASSUME TypeOK, [Next]_vars
    PROVE  TypeOK'
<1>1. CASE Checkout
    BY <1>1, TypeCheckout, TypeProvider DEF Checkout
<1>2. CASE \E e \in sent : applyPaymentEvent(e)
    BY <1>2, TypePaymentEvent
<1>3. CASE \E b \in Bookings : qrCheckin(b) \/ qrCheckout(b)
    BY <1>3, TypeScan
<1>4. CASE \E b \in Bookings :
             applyCredit(b) \/ applyCreditFails(b) \/ reconcileBookingCredits(b)
    BY <1>4, TypeCredit
<1>5. CASE \E h \in Handlers : Handle(h)
    BY <1>5, TypeHandle
<1>6. CASE tick
    BY <1>6 DEF tick, TypeOK, paymentVars, scanVars, payoutVars
<1>7. CASE crash
    <2>1. ops' \in [Handlers -> Op] /\ credits' \in [Bookings -> Nat]
        BY <1>7, IdleType DEF crash
    <2> QED BY <1>7, <2>1 DEF crash, TypeOK, scanVars
<1>8. CASE UNCHANGED vars
    BY <1>8 DEF vars, TypeOK, paymentVars, scanVars, payoutVars
<1> QED BY <1>1, <1>2, <1>3, <1>4, <1>5, <1>6, <1>7, <1>8 DEF Next, Run

(* Every variable keeps its type.                                          *)
THEOREM TypeInvariant == Spec => []TypeOK
<1>1. TypeOK /\ [Next]_vars => TypeOK'
    BY TypeStep
<1> QED BY TypeInit, <1>1, PTL DEF Spec

-----------------------------------------------------------------------------
(* Nothing is served unpaid, and the payout comes last.                    *)

LEMMA EscrowInit == Init => EscrowInv
    BY DEF Init, EscrowInv, ServedOnlyIfCharged, Served, NoRows, NoRow, Idle

LEMMA EscrowCheckout ==
    ASSUME TypeOK, EscrowInv, NEW c \in Carts, NEW slot \in [c -> Slots],
           initiateCheckout(c, slot) \/ initiateBulkCheckout(c, slot)
    PROVE  EscrowInv'
<1>1. ASSUME NEW bulk \in BOOLEAN, bookFromWallet(c, slot, bulk)
      PROVE  EscrowInv'
    BY <1>1 DEF bookFromWallet, NewRow, EscrowInv, ServedOnlyIfCharged, Served, TypeOK,
       scanVars, payoutVars
<1>2. ASSUME NEW bulk \in BOOLEAN, bookPending(c, slot, bulk)
      PROVE  EscrowInv'
    BY <1>2 DEF bookPending, NewRow, EscrowInv, ServedOnlyIfCharged, Served, TypeOK,
       scanVars, payoutVars
<1> QED BY <1>1, <1>2 DEF initiateCheckout, initiateBulkCheckout, checkoutWithWallet,
            bulkCheckoutWithWallet, checkoutWithExternalProvider, bulkCheckoutWithExternalProvider

LEMMA EscrowProvider ==
    ASSUME TypeOK, EscrowInv, NEW c \in Carts,
           \/ storeExternalPaymentId(c)
           \/ initiationEnds(c)
           \/ \E to \in {c} \union {{b} : b \in c}, outcome \in {"succeeded", "failed"} :
                 providerReports(c, to, outcome)
    PROVE  EscrowInv'
<1>1. CASE storeExternalPaymentId(c)
    BY <1>1 DEF storeExternalPaymentId, EscrowInv, ServedOnlyIfCharged, TypeOK, scanVars, payoutVars
<1>2. CASE initiationEnds(c)
    BY <1>2 DEF initiationEnds, EscrowInv, ServedOnlyIfCharged, scanVars, payoutVars
<1>3. ASSUME NEW to \in {c} \union {{b} : b \in c}, NEW outcome \in {"succeeded", "failed"},
             providerReports(c, to, outcome)
      PROVE  EscrowInv'
    BY <1>3 DEF providerReports, EscrowInv, ServedOnlyIfCharged, scanVars, payoutVars
<1> QED BY <1>1, <1>2, <1>3

LEMMA EscrowPaymentEvent ==
    ASSUME TypeOK, EscrowInv, NEW e \in sent, applyPaymentEvent(e)
    PROVE  EscrowInv'
<1> DEFINE B == {b \in e.to : txn[b] # "SUCCESS"}
<1>1. /\ applyBookingPaymentEvent(B, e.outcome)
      /\ UNCHANGED <<charged, sent, used, finished, ops, credits>>
    BY DEF applyPaymentEvent, scanVars, payoutVars
<1>2. e.outcome = "succeeded" => B \subseteq charged
    BY DEF EscrowInv
<1>3. \A b \in Bookings : row[b] \in Row
    BY BookingTypes
<1> HIDE DEF B
<1>4. ASSUME NEW b \in Bookings
      PROVE  /\ row'[b].status \in Served \/ row'[b].paid = 1 \/ txn'[b] = "SUCCESS"
                  => b \in charged
             /\ row'[b].status = "IN_SERVICE" => used[b] # {}
             /\ row'[b].status = "DONE" => b \in finished
    <2>1. CASE b \notin B
        <3>1. row'[b] = row[b] /\ txn'[b] = txn[b]
            BY <1>1, <2>1 DEF applyBookingPaymentEvent, confirmBookings, failBookings, TypeOK
        <3> QED BY <3>1 DEF EscrowInv, ServedOnlyIfCharged
    <2>2. CASE b \in B /\ e.outcome = "succeeded"
        <3>1. row'[b].status = "CONFIRMED"
            BY <1>1, <1>3, <2>2 DEF applyBookingPaymentEvent, confirmBookings, failBookings, Row
        <3> QED BY <1>2, <2>2, <3>1
    <2>3. CASE b \in B /\ e.outcome = "failed"
        <3>1. row'[b].status = "PAYMENT_FAILED" /\ row'[b].paid = 0 /\ txn'[b] = "FAILED"
            BY <1>1, <1>3, <2>3 DEF applyBookingPaymentEvent, confirmBookings, failBookings, Row
        <3> QED BY <3>1 DEF Served
    <2> QED BY <1>1, <2>1, <2>2, <2>3 DEF applyBookingPaymentEvent, confirmBookings, failBookings
<1> QED BY <1>1, <1>4 DEF EscrowInv, ServedOnlyIfCharged

LEMMA EscrowScan ==
    ASSUME TypeOK, EscrowInv, NEW b \in Bookings, qrCheckin(b) \/ qrCheckout(b)
    PROVE  EscrowInv'
<1>1. CASE qrCheckin(b)
    BY <1>1 DEF qrCheckin, EscrowInv, ServedOnlyIfCharged, Served, TypeOK, Row,
       paymentVars, payoutVars
<1>2. CASE qrCheckout(b)
    BY <1>2 DEF qrCheckout, queueCredit, EscrowInv, ServedOnlyIfCharged, Served, TypeOK, Row,
       paymentVars
<1> QED BY <1>1, <1>2

LEMMA EscrowRead ==
    ASSUME TypeOK, EscrowInv, NEW h \in Handlers, NEW kind, NEW B,
           NEW changed \in [Bookings -> Row], Read(h, kind, B, changed),
           \A b \in B \intersect Bookings :
              /\ changed[b].status \in Served \/ changed[b].paid = 1 => b \in charged
              /\ changed[b].status \notin {"IN_SERVICE", "DONE"}
    PROVE  EscrowInv'
<1>1. UNCHANGED <<row, txn, charged, sent, used, finished, credits>>
    BY DEF Read, paymentVars, scanVars, payoutVars
<1>2. ASSUME NEW g \in Handlers, NEW b \in Bookings
      PROVE  LET held == ops'[g].snap[b] IN
             /\ held.status \in Served \/ held.paid = 1 => b \in charged
             /\ held.status \notin {"IN_SERVICE", "DONE"}
    <2>1. CASE g # h
        BY <2>1 DEF Read, TypeOK, EscrowInv
    <2>2. CASE g = h
        <3>1. ops'[h].snap[b] = IF b \in B THEN changed[b] ELSE NoRow
            BY DEF Read, TypeOK
        <3> QED BY <2>2, <3>1 DEF NoRow, Served
    <2> QED BY <2>1, <2>2
<1> QED BY <1>1, <1>2 DEF EscrowInv, ServedOnlyIfCharged

LEMMA EscrowHandle ==
    ASSUME TypeOK, EscrowInv, NEW h \in Handlers, Handle(h)
    PROVE  EscrowInv'
<1>1. CASE \E b \in Bookings, slot \in Slots : reschedule(h, b, slot)
    <2>1. PICK b \in Bookings, slot \in Slots : reschedule(h, b, slot)
        BY <1>1
    <2> DEFINE changed == [x \in Bookings |-> Rescheduled(row[x], slot, Fresh(x))]
    <2>2. slot \in Nat
        BY ConstantsAssumption DEF ConstantsAssumption
    <2>3. changed \in [Bookings -> Row]
        <3>1. ASSUME NEW x \in Bookings
              PROVE  Rescheduled(row[x], slot, Fresh(x)) \in Row
            BY <2>2, BookingTypes DEF Rescheduled, Row, Status
        <3> QED BY <3>1
    <2>4. /\ changed[b].status \in Served \/ changed[b].paid = 1 => b \in charged
          /\ changed[b].status \notin {"IN_SERVICE", "DONE"}
        BY <2>1, BookingTypes
           DEF reschedule, Rescheduled, Row, EscrowInv, ServedOnlyIfCharged, Served
    <2>5. Read(h, "reschedule", {b}, changed)
        BY <2>1 DEF reschedule
    <2> QED BY <2>3, <2>4, <2>5, EscrowRead
<1>2. /\ CancelledRows \in [Bookings -> Row] /\ NoShowRows \in [Bookings -> Row]
      /\ \A b \in Bookings : CancelledRows[b].status = "CANCELLED"
                             /\ NoShowRows[b].status = "NO_SHOW"
                             /\ CancelledRows[b].paid = row[b].paid
                             /\ NoShowRows[b].paid = row[b].paid
    BY DEF TypeOK, CancelledRows, NoShowRows, Row, Status
<1>3. ASSUME NEW kind, NEW B, Read(h, kind, B, CancelledRows)
      PROVE  EscrowInv'
    <2>1. \A b \in B \intersect Bookings :
             /\ CancelledRows[b].status \in Served \/ CancelledRows[b].paid = 1 => b \in charged
             /\ CancelledRows[b].status \notin {"IN_SERVICE", "DONE"}
        BY <1>2 DEF EscrowInv, ServedOnlyIfCharged, Served
    <2> QED BY <1>2, <1>3, <2>1, EscrowRead
<1>4. ASSUME NEW kind, NEW B, Read(h, kind, B, NoShowRows),
             \A b \in B \intersect Bookings : Expired(row[b])
      PROVE  EscrowInv'
    <2>1. \A b \in B \intersect Bookings :
             /\ NoShowRows[b].status \in Served \/ NoShowRows[b].paid = 1 => b \in charged
             /\ NoShowRows[b].status \notin {"IN_SERVICE", "DONE"}
        BY <1>2, <1>4 DEF EscrowInv, ServedOnlyIfCharged, Served, Expired
    <2> QED BY <1>2, <1>4, <2>1, EscrowRead
<1>5. CASE (\E b \in Bookings : cancel(h, b)) \/ cancelStalePendingBookings(h)
    BY <1>3, <1>5 DEF cancel, cancelStalePendingBookings
<1>6. CASE \/ \E b \in Bookings : findOne(h, b)
           \/ \E client \in Clients : userBookingsByStatus(h, client)
           \/ \E page \in SUBSET Bookings : findByProvider(h, page)
           \/ markExpiredConfirmedBookings(h)
    <2>1. ASSUME NEW B, markMissed(h, B)
          PROVE  EscrowInv'
        <3>1. Read(h, "lazyNoShow", {b \in B : Expired(row[b])}, NoShowRows)
            BY <2>1 DEF markMissed
        <3> QED BY <3>1, <1>4
    <2>2. CASE markExpiredConfirmedBookings(h)
        <3>1. Read(h, "markExpired", {b \in Bookings : Expired(row[b])}, NoShowRows)
            BY <2>2 DEF markExpiredConfirmedBookings
        <3> QED BY <3>1, <1>4
    <2> QED BY <1>6, <2>1, <2>2 DEF findOne, userBookingsByStatus, findByProvider
<1>7. CASE saveDiff(h)
    <2>1. UNCHANGED <<row, txn, charged, sent, used, finished, credits>>
        BY <1>7 DEF saveDiff, paymentVars, scanVars, payoutVars
    <2>2. \A g \in Handlers : ops'[g].snap = ops[g].snap
        BY <1>7 DEF saveDiff, TypeOK, Op
    <2> QED BY <2>1, <2>2 DEF EscrowInv, ServedOnlyIfCharged
<1>8. CASE saveUpdate(h)
    <2>1. UNCHANGED <<txn, charged, sent, used, finished, credits>>
        BY <1>8 DEF saveUpdate, paymentVars, scanVars, payoutVars
    <2>2. ASSUME NEW g \in Handlers, NEW b \in Bookings
          PROVE  \/ ops'[g].snap[b] = ops[g].snap[b]
                 \/ ops'[g].snap[b] = NoRow
        BY <1>8 DEF saveUpdate, TypeOK, Idle, NoRows
    <2>3. ASSUME NEW b \in Bookings
          PROVE  /\ row'[b].status \in {row[b].status, ops[h].snap[b].status}
                 /\ row'[b].paid \in {row[b].paid, ops[h].snap[b].paid}
        BY <1>8, BookingTypes DEF saveUpdate, Merge, Row
    <2>4. NoRow.status = "NONE" /\ NoRow.paid = 0
        BY DEF NoRow
    <2>5. ASSUME NEW g \in Handlers, NEW b \in Bookings
          PROVE  LET held == ops'[g].snap[b] IN
                 /\ held.status \in Served \/ held.paid = 1 => b \in charged
                 /\ held.status \notin {"IN_SERVICE", "DONE"}
        BY <2>2, <2>4 DEF EscrowInv, Served
    <2>6. ASSUME NEW b \in Bookings
          PROVE  /\ row'[b].status \in Served \/ row'[b].paid = 1 => b \in charged
                 /\ row'[b].status = "IN_SERVICE" => used[b] # {}
                 /\ row'[b].status = "DONE" => b \in finished
        BY <2>3 DEF EscrowInv, ServedOnlyIfCharged
    <2> QED BY <2>1, <2>5, <2>6 DEF EscrowInv, ServedOnlyIfCharged
<1> QED BY <1>1, <1>5, <1>6, <1>7, <1>8 DEF Handle

LEMMA EscrowCredit ==
    ASSUME TypeOK, EscrowInv, NEW b \in Bookings,
           applyCredit(b) \/ applyCreditFails(b) \/ reconcileBookingCredits(b)
    PROVE  EscrowInv'
<1>1. UNCHANGED <<row, txn, charged, sent, used, finished, ops>>
    BY DEF applyCredit, applyCreditFails, reconcileBookingCredits, paymentVars, scanVars
<1>2. \A a \in Bookings : credits'[a] > 0 => a \in finished
    BY DEF applyCredit, applyCreditFails, reconcileBookingCredits, TypeOK, EscrowInv
<1> QED BY <1>1, <1>2 DEF EscrowInv, ServedOnlyIfCharged

LEMMA EscrowStep ==
    ASSUME TypeOK, EscrowInv, [Next]_vars
    PROVE  EscrowInv'
<1>1. CASE Checkout
    BY <1>1, EscrowCheckout, EscrowProvider DEF Checkout
<1>2. CASE \E e \in sent : applyPaymentEvent(e)
    BY <1>2, EscrowPaymentEvent
<1>3. CASE \E b \in Bookings : qrCheckin(b) \/ qrCheckout(b)
    BY <1>3, EscrowScan
<1>4. CASE \E b \in Bookings :
             applyCredit(b) \/ applyCreditFails(b) \/ reconcileBookingCredits(b)
    BY <1>4, EscrowCredit
<1>5. CASE \E h \in Handlers : Handle(h)
    BY <1>5, EscrowHandle
<1>6. CASE tick
    BY <1>6 DEF tick, EscrowInv, ServedOnlyIfCharged, paymentVars, scanVars, payoutVars
<1>7. CASE crash
    <2>1. \A h \in Handlers, b \in Bookings : ops'[h].snap[b] = NoRow
        BY <1>7 DEF crash, Idle, NoRows
    <2>2. \A b \in Bookings : credits'[b] = 0
        BY <1>7 DEF crash
    <2> QED BY <1>7, <2>1, <2>2
            DEF crash, EscrowInv, ServedOnlyIfCharged, scanVars, NoRow, Served
<1>8. CASE UNCHANGED vars
    BY <1>8 DEF vars, EscrowInv, ServedOnlyIfCharged, paymentVars, scanVars, payoutVars
<1> QED BY <1>1, <1>2, <1>3, <1>4, <1>5, <1>6, <1>7, <1>8 DEF Next, Run

(* The strengthened invariant of every run.                                *)
THEOREM EscrowInvariant == Spec => []EscrowInv
<1>1. TypeOK /\ EscrowInv /\ [Next]_vars => EscrowInv'
    BY EscrowStep
<1> QED BY EscrowInit, TypeInvariant, <1>1, PTL DEF Spec

(* No booking is confirmed, served, missed or marked paid unless its       *)
(* client was charged.                                                     *)
THEOREM NothingServedUnpaid == Spec => []ServedOnlyIfCharged
<1>1. EscrowInv => ServedOnlyIfCharged
    BY DEF EscrowInv
<1> QED BY EscrowInvariant, <1>1, PTL

-----------------------------------------------------------------------------
(* The lifecycle implements the escrow.                                    *)

LEMMA EscrowStartsEmpty == Init => E!Init
    BY DEF Init, E!Init

(* A step that touches none of the escrow's state.                         *)
LEMMA EscrowStutters ==
    ASSUME UNCHANGED <<charged, used, finished, ledger, balance>>
    PROVE  UNCHANGED E!escrowVars
    BY DEF E!escrowVars

LEMMA EscrowCharges ==
    ASSUME NEW B \in SUBSET Bookings, charged' = charged \union B,
           UNCHANGED <<used, finished, ledger, balance>>
    PROVE  E!Next
    BY DEF E!Next, E!Charge

LEMMA EscrowScans ==
    ASSUME TypeOK, EscrowInv, NEW b \in Bookings, qrCheckin(b) \/ qrCheckout(b)
    PROVE  E!Next
<1>1. CASE qrCheckin(b)
    <2>1. b \in charged
        BY <1>1 DEF qrCheckin, EscrowInv, ServedOnlyIfCharged, Served
    <2>2. {a \in Bookings : used'[a] # {}} = {a \in Bookings : used[a] # {}} \union {b}
        BY <1>1 DEF qrCheckin, TypeOK
    <2>3. UNCHANGED <<charged, finished, ledger, balance>>
        BY <1>1 DEF qrCheckin, paymentVars, payoutVars
    <2>4. E!Start(b)
        BY <2>1, <2>2, <2>3 DEF E!Start
    <2> QED BY <2>4 DEF E!Next
<1>2. CASE qrCheckout(b)
    <2>1. b \in {a \in Bookings : used[a] # {}}
        BY <1>2 DEF qrCheckout, EscrowInv
    <2>2. finished' = finished \union {b} /\ UNCHANGED <<charged, used, ledger, balance>>
        BY <1>2 DEF qrCheckout, paymentVars
    <2>3. E!Finish(b)
        BY <2>1, <2>2 DEF E!Finish
    <2> QED BY <2>3 DEF E!Next
<1> QED BY <1>1, <1>2

LEMMA EscrowPays ==
    ASSUME TypeOK, EscrowInv, NEW b \in Bookings, applyCredit(b)
    PROVE  [E!Next]_(E!escrowVars)
<1> DEFINE PaidOut(entries) ==
        {a \in Bookings : \E e \in entries : e.booking = a /\ e.ref = "BOOKING-PAYOUT"}
           net == E!NetAmount(Amount[b])
           commission == E!Commission(Amount[b])
           pays == net > 0 /\ ~Recorded("BOOKING-PAYOUT", b)
           withholds == commission > 0 /\ ~Recorded("BOOKING-COMMISSION", b)
           payout == [ref |-> "BOOKING-PAYOUT", booking |-> b, amount |-> net]
           withheld == [ref |-> "BOOKING-COMMISSION", booking |-> b, amount |-> commission]
<1>1. b \in finished
    BY DEF applyCredit, EscrowInv
<1>2. UNCHANGED <<charged, used, finished>>
    BY DEF applyCredit, paymentVars, scanVars
<1>3. /\ balance' = IF pays THEN [balance EXCEPT ![ShopOf[b]] = @ + net] ELSE balance
      /\ ledger' = ledger \union (IF pays THEN {payout} ELSE {})
                          \union (IF withholds THEN {withheld} ELSE {})
    BY DEF applyCredit, creditForBooking
<1>4. CASE pays
    <2>1. b \notin PaidOut(ledger)
        BY <1>4 DEF Recorded
    <2>2. PaidOut(ledger') = PaidOut(ledger) \union {b}
        <3>1. \A e : e \in ledger' /\ e.ref = "BOOKING-PAYOUT" <=>
                     (e \in ledger /\ e.ref = "BOOKING-PAYOUT") \/ e = payout
            BY <1>3, <1>4
        <3>2. payout.booking = b
            OBVIOUS
        <3> HIDE DEF payout
        <3> QED BY <3>1, <3>2
    <2>3. E!PayOut(b)
        BY <1>1, <1>2, <1>3, <1>4, <2>1, <2>2 DEF E!PayOut
    <2> QED BY <2>3 DEF E!Next
<1>5. CASE ~pays
    <2>1. PaidOut(ledger') = PaidOut(ledger)
        BY <1>3, <1>5
    <2> QED BY <1>2, <1>3, <1>5, <2>1 DEF E!escrowVars
<1> QED BY <1>4, <1>5

LEMMA EscrowSimulation ==
    ASSUME TypeOK, EscrowInv, [Next]_vars
    PROVE  [E!Next]_(E!escrowVars)
<1>1. CASE Checkout
    <2>1. PICK c \in Carts :
             \/ \E slot \in [c -> Slots] :
                   initiateCheckout(c, slot) \/ initiateBulkCheckout(c, slot)
             \/ storeExternalPaymentId(c)
             \/ initiationEnds(c)
             \/ \E to \in {c} \union {{b} : b \in c}, outcome \in {"succeeded", "failed"} :
                   providerReports(c, to, outcome)
        BY <1>1 DEF Checkout
    <2>2. c \subseteq Bookings
        BY ConstantsAssumption DEF ConstantsAssumption
    <2>3. ASSUME NEW slot \in [c -> Slots], NEW bulk \in BOOLEAN,
                 bookFromWallet(c, slot, bulk) \/ bookPending(c, slot, bulk)
          PROVE  [E!Next]_(E!escrowVars)
        BY <2>2, <2>3, EscrowCharges, EscrowStutters
           DEF bookFromWallet, bookPending, scanVars, payoutVars
    <2>4. CASE storeExternalPaymentId(c) \/ initiationEnds(c)
        BY <2>4, EscrowStutters DEF storeExternalPaymentId, initiationEnds, scanVars, payoutVars
    <2>5. ASSUME NEW to \in {c} \union {{b} : b \in c}, NEW outcome \in {"succeeded", "failed"},
                 providerReports(c, to, outcome)
          PROVE  [E!Next]_(E!escrowVars)
        <3>1. to \in SUBSET Bookings
            BY <2>2
        <3> QED BY <2>5, <3>1, EscrowCharges, EscrowStutters
                DEF providerReports, scanVars, payoutVars
    <2> QED BY <2>1, <2>3, <2>4, <2>5
            DEF initiateCheckout, initiateBulkCheckout, checkoutWithWallet, bulkCheckoutWithWallet,
                checkoutWithExternalProvider, bulkCheckoutWithExternalProvider
<1>2. CASE \E e \in sent : applyPaymentEvent(e)
    BY <1>2, EscrowStutters DEF applyPaymentEvent, scanVars, payoutVars
<1>3. CASE \E b \in Bookings : qrCheckin(b) \/ qrCheckout(b)
    BY <1>3, EscrowScans
<1>4. CASE \E b \in Bookings : applyCredit(b)
    BY <1>4, EscrowPays
<1>5. CASE \E b \in Bookings : applyCreditFails(b) \/ reconcileBookingCredits(b)
    BY <1>5, EscrowStutters
       DEF applyCreditFails, reconcileBookingCredits, paymentVars, scanVars
<1>6. CASE \E h \in Handlers : Handle(h)
    BY <1>6, EscrowStutters
       DEF Handle, reschedule, cancel, findOne, userBookingsByStatus, findByProvider, markMissed,
           markExpiredConfirmedBookings, cancelStalePendingBookings, Read, saveDiff, saveUpdate,
           paymentVars, scanVars, payoutVars
<1>7. CASE tick \/ crash
    BY <1>7, EscrowStutters DEF tick, crash, paymentVars, scanVars, payoutVars
<1>8. CASE UNCHANGED vars
    BY <1>8, EscrowStutters DEF vars, paymentVars, scanVars, payoutVars
<1> QED BY <1>1, <1>2, <1>3, <1>4, <1>5, <1>6, <1>7, <1>8 DEF Next, Run

(* Whatever the interleaving, duplication, restart or stale save: a client *)
(* is charged before the service starts, which starts before it finishes,  *)
(* which it does before the shop is paid, once, its price less commission. *)
THEOREM LifecycleImplementsEscrow == Spec => ImplementsEscrow
<1>1. TypeOK /\ EscrowInv /\ [Next]_vars => [E!Next]_(E!escrowVars)
    BY EscrowSimulation
<1> QED BY EscrowStartsEmpty, TypeInvariant, EscrowInvariant, <1>1, PTL
        DEF Spec, ImplementsEscrow, E!Spec

-------------------------------------------------------------------------------
(***************************************************************************)
(* The ledger.  A credit writes what is missing of a booking's two entries *)
(* and pays the first to the shop, so once it has written either it has    *)
(* written both, unless one of them is zero.                               *)
(***************************************************************************)
Due(ref, b) ==
    IF ref = "BOOKING-PAYOUT" THEN E!NetAmount(Amount[b]) ELSE E!Commission(Amount[b])

LedgerInv ==
    /\ IsFiniteSet(ledger)
    /\ \A e \in ledger : e.amount = Due(e.ref, e.booking)
    /\ \A b \in Bookings : Entries(b) # {} =>
          \A ref \in {"BOOKING-PAYOUT", "BOOKING-COMMISSION"} :
              Recorded(ref, b) \/ Due(ref, b) = 0
    /\ \A s \in Shops : balance[s] = MapThenSumSet(AmountOf, Payouts(s))

Amounts == [e \in Entry |-> e.amount]

LEMMA AmountsType ==
    ASSUME NEW S \in SUBSET Entry
    PROVE  \A e \in S : Amounts[e] = AmountOf(e) /\ Amounts[e] \in Int /\ Amounts[e] \in Nat
    BY DEF Amounts, AmountOf, Entry

\* The fold of the property is the sum of the lemmas.
LEMMA AmountsAdd ==
    ASSUME NEW S \in SUBSET Entry, IsFiniteSet(S)
    PROVE  MapThenSumSet(AmountOf, S) = SumOf(Amounts, S)
<1> DEFINE Fold(H) ==
        H = [s \in SUBSET S |->
               IF s = {} THEN 0
               ELSE AmountOf(CHOOSE x \in s : TRUE) + H[s \ {CHOOSE x \in s : TRUE}]]
           iter == CHOOSE H : Fold(H)
<1>1. MapThenSumSet(AmountOf, S) = iter[S]
    BY DEF MapThenSumSet, MapThenFoldSet
<1>2. \A s \in SUBSET S : s # {} => AmountOf(CHOOSE x \in s : TRUE) = Amounts[CHOOSE x \in s : TRUE]
  <2>1. \A s \in SUBSET S : s # {} => (CHOOSE x \in s : TRUE) \in S
      OBVIOUS
  <2> QED
      BY <2>1, AmountsType
<1>3. \A H : Fold(H) <=> IsFold(Amounts, S, H)
    BY <1>2 DEF IsFold
<1>4. PICK G : IsSum(Amounts, S, G) /\ IsFold(Amounts, S, G)
    BY FoldExists, AmountsType
<1>5. IsFold(Amounts, S, iter)
  <2> HIDE DEF Fold
  <2>1. \E H : Fold(H)
      BY <1>3, <1>4
  <2>2. Fold(iter)
      BY <2>1
  <2> QED
      BY <1>3, <2>2
<1> HIDE DEF iter, Fold
<1>6. iter = G
    BY <1>4, <1>5, FoldsAgree
<1>7. SumOf(Amounts, S) = G[S]
    BY <1>4, SumIs, AmountsType
<1> QED
    BY <1>1, <1>6, <1>7


LEMMA EntriesAreDue ==
    ASSUME TypeOK, LedgerInv, NEW b \in Bookings, Entries(b) # {}
    PROVE  MapThenSumSet(AmountOf, Entries(b)) = Amount[b]
<1> DEFINE payout == [ref |-> "BOOKING-PAYOUT", booking |-> b, amount |-> Due("BOOKING-PAYOUT", b)]
           withheld == [ref |-> "BOOKING-COMMISSION", booking |-> b,
                        amount |-> Due("BOOKING-COMMISSION", b)]
<1>1. /\ Due("BOOKING-PAYOUT", b) \in Nat /\ Due("BOOKING-COMMISSION", b) \in Nat
      /\ Due("BOOKING-PAYOUT", b) + Due("BOOKING-COMMISSION", b) = Amount[b]
    BY PriceSplits, ConstantsAssumption DEF Due, ConstantsAssumption
<1>2. Entries(b) \in SUBSET Entry /\ IsFiniteSet(Entries(b))
  <2>1. Entries(b) \in SUBSET ledger
      BY DEF Entries
  <2> QED
      BY <2>1, FS_Subset DEF LedgerInv, TypeOK
<1>3. ASSUME NEW e \in Entries(b)
      PROVE  e = payout \/ e = withheld
  <2>1. e \in Entry /\ e.booking = b /\ e.amount = Due(e.ref, b)
      BY <1>2, <1>3 DEF Entries, LedgerInv
  <2> QED
      BY <2>1 DEF Entry
<1>4. /\ payout \in Entries(b) \/ Due("BOOKING-PAYOUT", b) = 0
      /\ withheld \in Entries(b) \/ Due("BOOKING-COMMISSION", b) = 0
  <2>1. \A ref \in {"BOOKING-PAYOUT", "BOOKING-COMMISSION"} :
           Due(ref, b) = 0 \/ \E e \in Entries(b) : e.ref = ref
      BY DEF LedgerInv, Recorded, Entries
  <2>2. payout.ref = "BOOKING-PAYOUT" /\ withheld.ref = "BOOKING-COMMISSION"
      OBVIOUS
  <2> HIDE DEF payout, withheld
  <2> QED
      BY <1>3, <2>1, <2>2
<1>5. /\ payout \in Entry /\ withheld \in Entry /\ payout # withheld
      /\ Amounts[payout] = Due("BOOKING-PAYOUT", b)
      /\ Amounts[withheld] = Due("BOOKING-COMMISSION", b)
  <2>1. payout \in Entry /\ withheld \in Entry /\ payout # withheld
      BY <1>1 DEF Entry
  <2> QED
      BY <2>1 DEF Amounts
<1> HIDE DEF payout, withheld
<1>6. SumOf(Amounts, Entries(b)) = Amount[b]
  <2>1. CASE payout \in Entries(b) /\ withheld \in Entries(b)
    <3>1. Entries(b) = {payout, withheld}
        BY <1>3, <2>1
    <3>2. Amounts[payout] \in Int /\ Amounts[withheld] \in Int
        BY <1>1, <1>5
    <3>3. SumOf(Amounts, {payout, withheld}) = Amounts[payout] + Amounts[withheld]
        BY <1>5, <3>2, SumOfTwo
    <3> QED
        BY <1>1, <1>5, <3>1, <3>3
  <2>2. CASE payout \notin Entries(b)
    <3>1. Entries(b) = {withheld}
        BY <1>3, <2>2
    <3> QED
        BY <1>1, <1>4, <1>5, <2>2, <3>1, SumOfOne
  <2>3. CASE withheld \notin Entries(b)
    <3>1. Entries(b) = {payout}
        BY <1>3, <2>3
    <3> QED
        BY <1>1, <1>4, <1>5, <2>3, <3>1, SumOfOne
  <2> QED
      BY <2>1, <2>2, <2>3
<1> QED
    BY <1>2, <1>6, AmountsAdd

LEMMA LedgerInit == Init => LedgerInv
<1> SUFFICES ASSUME Init PROVE LedgerInv
    OBVIOUS
<1>1. ledger = {} /\ balance = [s \in Shops |-> 0]
    BY DEF Init
<1>2. \A s \in Shops : Payouts(s) = {}
    BY <1>1 DEF Payouts
<1>3. MapThenSumSet(AmountOf, {}) = 0
    BY FS_EmptySet, AmountsAdd, SumEmpty
<1> QED
    BY <1>1, <1>2, <1>3, FS_EmptySet DEF LedgerInv, Entries

\* A payout of the shop that is not in the ledger yet adds its amount to the sum.
LEMMA PayoutAdds ==
    ASSUME NEW S \in SUBSET Entry, IsFiniteSet(S), NEW e \in Entry, e \notin S
    PROVE  MapThenSumSet(AmountOf, S \union {e}) = e.amount + MapThenSumSet(AmountOf, S)
<1>1. S \union {e} \in SUBSET Entry /\ IsFiniteSet(S \union {e})
    BY FS_AddElement
<1>2. (S \union {e}) \ {e} = S /\ e \in S \union {e}
    OBVIOUS
<1>3. SumOf(Amounts, S \union {e}) = Amounts[e] + SumOf(Amounts, S)
    BY <1>1, <1>2, AmountsType, SumAdd
<1> QED
    BY <1>1, <1>3, AmountsAdd DEF Amounts

LEMMA LedgerCredit ==
    ASSUME TypeOK, LedgerInv, NEW b \in Bookings, applyCredit(b)
    PROVE  LedgerInv'
<1> DEFINE net == E!NetAmount(Amount[b])
           commission == E!Commission(Amount[b])
           pays == net > 0 /\ ~Recorded("BOOKING-PAYOUT", b)
           withholds == commission > 0 /\ ~Recorded("BOOKING-COMMISSION", b)
           payout == [ref |-> "BOOKING-PAYOUT", booking |-> b, amount |-> net]
           withheld == [ref |-> "BOOKING-COMMISSION", booking |-> b, amount |-> commission]
           new == (IF pays THEN {payout} ELSE {}) \union (IF withholds THEN {withheld} ELSE {})
<1>1. /\ balance' = IF pays THEN [balance EXCEPT ![ShopOf[b]] = @ + net] ELSE balance
      /\ ledger' = ledger \union new
    BY DEF applyCredit, creditForBooking
<1>2. net \in Nat /\ commission \in Nat /\ ShopOf[b] \in Shops
    BY PriceSplits, ConstantsAssumption DEF ConstantsAssumption
<1>3. payout \in Entry /\ withheld \in Entry
    BY <1>2 DEF Entry
<1>4. IsFiniteSet(ledger')
  <2>1. IsFiniteSet(ledger \union (IF pays THEN {payout} ELSE {}))
      BY FS_AddElement DEF LedgerInv
  <2> QED
      BY <1>1, <2>1, FS_AddElement
<1>5. \A e \in new : e.booking = b /\ e.amount = Due(e.ref, b)
    BY DEF Due
<1>6. \A e \in ledger' : e.amount = Due(e.ref, e.booking)
    BY <1>1, <1>5 DEF LedgerInv
<1>7. ASSUME NEW a \in Bookings, Entries(a)' # {},
             NEW ref \in {"BOOKING-PAYOUT", "BOOKING-COMMISSION"}
      PROVE  Recorded(ref, a)' \/ Due(ref, a) = 0
  <2>1. Recorded(ref, a) => Recorded(ref, a)'
      BY <1>1 DEF Recorded
  <2>2. CASE a = b
    <3>1. pays => payout \in ledger'
        BY <1>1
    <3>2. withholds => withheld \in ledger'
        BY <1>1
    <3>3. /\ Due("BOOKING-PAYOUT", b) = net /\ payout.ref = "BOOKING-PAYOUT"
          /\ Due("BOOKING-COMMISSION", b) = commission /\ withheld.ref = "BOOKING-COMMISSION"
          /\ payout.booking = b /\ withheld.booking = b
        BY DEF Due
    <3> HIDE DEF payout, withheld, new, net, commission
    <3>4. pays => Recorded("BOOKING-PAYOUT", b)'
        BY <3>1, <3>3 DEF Recorded
    <3>5. withholds => Recorded("BOOKING-COMMISSION", b)'
        BY <3>2, <3>3 DEF Recorded
    <3> QED
        BY <1>2, <2>1, <2>2, <3>3, <3>4, <3>5
  <2>3. CASE a # b
    <3>1. Entries(a) # {}
        BY <1>1, <1>5, <1>7, <2>3 DEF Entries
    <3> QED
        BY <1>7, <2>1, <3>1 DEF LedgerInv
  <2> QED
      BY <2>2, <2>3
<1>8. ASSUME NEW s \in Shops
      PROVE  balance'[s] = MapThenSumSet(AmountOf, Payouts(s)')
  <2>1. Payouts(s) \in SUBSET Entry /\ IsFiniteSet(Payouts(s))
    <3>1. Payouts(s) \in SUBSET ledger
        BY DEF Payouts
    <3> QED
        BY <3>1, FS_Subset DEF LedgerInv, TypeOK
  <2>2. balance[s] = MapThenSumSet(AmountOf, Payouts(s))
      BY DEF LedgerInv
  <2>3. withheld.ref # "BOOKING-PAYOUT" /\ payout.ref = "BOOKING-PAYOUT" /\ payout.booking = b
        /\ payout.amount = net
      OBVIOUS
  <2>4. CASE pays /\ ShopOf[b] = s
    <3> HIDE DEF payout, withheld, net, commission
    <3>1. Payouts(s)' = Payouts(s) \union {payout}
        BY <1>1, <2>3, <2>4 DEF Payouts
    <3>2. payout \notin Payouts(s)
        BY <2>3, <2>4 DEF Payouts, Recorded
    <3>3. MapThenSumSet(AmountOf, Payouts(s)') = net + balance[s]
        BY <1>3, <2>1, <2>2, <2>3, <3>1, <3>2, PayoutAdds
    <3>4. balance'[s] = balance[s] + net /\ balance[s] \in Nat
        BY <1>1, <2>4 DEF TypeOK
    <3> QED
        BY <1>2, <3>3, <3>4
  <2>5. CASE ~(pays /\ ShopOf[b] = s)
    <3>1. balance'[s] = balance[s]
        BY <1>1, <2>5 DEF TypeOK
    <3> HIDE DEF payout, withheld, net, commission
    <3>2. Payouts(s)' = Payouts(s)
        BY <1>1, <2>3, <2>5 DEF Payouts
    <3> QED
        BY <2>2, <3>1, <3>2
  <2> QED
      BY <2>4, <2>5
<1> QED
    BY <1>4, <1>6, <1>7, <1>8 DEF LedgerInv

\* Everything but a credit leaves the ledger and the shops' balances alone.
LEMMA LedgerKept ==
    ASSUME LedgerInv, UNCHANGED <<ledger, balance>>
    PROVE  LedgerInv'
    BY DEF LedgerInv, Entries, Payouts, Recorded

LEMMA LedgerStep ==
    ASSUME TypeOK, LedgerInv, [Next]_vars
    PROVE  LedgerInv'
<1>1. CASE \E b \in Bookings : applyCredit(b)
    BY <1>1, LedgerCredit
<1>2. CASE Checkout
    BY <1>2, LedgerKept
       DEF Checkout, initiateCheckout, initiateBulkCheckout, checkoutWithWallet,
           bulkCheckoutWithWallet, checkoutWithExternalProvider, bulkCheckoutWithExternalProvider,
           bookFromWallet, bookPending, storeExternalPaymentId, initiationEnds, providerReports,
           payoutVars
<1>3. CASE \E e \in sent : applyPaymentEvent(e)
    BY <1>3, LedgerKept DEF applyPaymentEvent, payoutVars
<1>4. CASE \E b \in Bookings : qrCheckin(b) \/ qrCheckout(b) \/ applyCreditFails(b)
                                    \/ reconcileBookingCredits(b)
    BY <1>4, LedgerKept DEF qrCheckin, qrCheckout, applyCreditFails, reconcileBookingCredits, payoutVars
<1>5. CASE \E h \in Handlers : Handle(h)
    BY <1>5, LedgerKept
       DEF Handle, reschedule, cancel, findOne, userBookingsByStatus, findByProvider, markMissed,
           markExpiredConfirmedBookings, cancelStalePendingBookings, Read, saveDiff, saveUpdate,
           payoutVars
<1>6. CASE tick \/ crash \/ UNCHANGED vars
    BY <1>6, LedgerKept DEF tick, crash, vars, payoutVars
<1> QED
    BY <1>1, <1>2, <1>3, <1>4, <1>5, <1>6 DEF Next, Run

(* Every entry is what its booking is due, an entry comes with the other   *)
(* unless that one is zero, and a balance is the sum of the payouts.       *)
THEOREM LedgerInvariant == Spec => []LedgerInv
    BY LedgerInit, LedgerStep, TypeInvariant, PTL DEF Spec

(* The entries of a booking add up to its price and a shop's balance is    *)
(* the sum of its payouts, however many credits of however many bookings   *)
(* were queued, failed, lost in a restart or run again by the backfill.    *)
THEOREM LedgerAlwaysBalances == Spec => []LedgerBalances
<1>1. TypeOK /\ LedgerInv => LedgerBalances
    BY EntriesAreDue DEF LedgerInv, LedgerBalances
<1> QED
    BY <1>1, LedgerInvariant, TypeInvariant, PTL

-------------------------------------------------------------------------------
(***************************************************************************)
(* The check-in tokens.  A save may write back a token that was used in    *)
(* the meantime: with the status that its handler leaves, or alone.  A     *)
(* rescheduled row carries a token of its own, which no other row has, so  *)
(* that its save always writes it; and whatever else confirms a booking    *)
(* mints one.                                                              *)
(***************************************************************************)
Leaves(kind) == IF kind \in {"lazyNoShow", "markExpired"} THEN "NO_SHOW" ELSE "CANCELLED"

RowTokens(b) ==
    /\ row[b].checkin <= minted[b]
    /\ \A t \in used[b] : t <= minted[b]

\* The token that a reschedule has minted and not saved is nowhere else.
HoldsNewToken(h, b) ==
    LET held == ops[h].snap[b] IN
    /\ held.status \in {"CONFIRMED", "PENDING_PAYMENT"}
    /\ held.checkin \notin used[b] \union {NoToken, row[b].checkin}
    /\ \A g \in Handlers \ {h} : ops[g].snap[b].checkin # held.checkin
    /\ ops[h].phase = "diffed" => "checkin" \in ops[h].cols[b]

HeldTokens(h, b) ==
    LET held == ops[h].snap[b] IN
    /\ held.checkin <= minted[b]
    /\ held.status = "NONE" => ops[h].cols[b] = {} /\ held.checkin = NoToken
    /\ held.status # "NONE" =>
          /\ ops[h].phase # "idle"
          /\ IF Kind[h] = "reschedule" THEN HoldsNewToken(h, b) ELSE held.status = Leaves(Kind[h])

TokensInv ==
    /\ \A b \in Bookings : RowTokens(b)
    /\ \A h \in Handlers, b \in Bookings : HeldTokens(h, b)

\* What a step may do with used tokens: none comes back, or a save writes it alone.
NoneReturns == \A b \in Bookings : UsedTokenOpens(b)' => UsedTokenOpens(b)

ReturnsAlone ==
    \A b \in Bookings :
        UsedTokenOpens(b)' /\ ~UsedTokenOpens(b) =>
            \E h \in Handlers :
                /\ Kind[h] # "reschedule"
                /\ ops[h].phase = "diffed" /\ ops' # ops
                /\ "checkin" \in ops[h].cols[b] /\ "status" \notin ops[h].cols[b]

LEMMA NoReturn == NoneReturns => ReturnsAlone
    BY DEF NoneReturns, ReturnsAlone

LEMMA TokensInit == Init => TokensInv
    BY DEF Init, TokensInv, RowTokens, HeldTokens, Idle, NoRows, NoRow, NoToken

\* A handler that locks the row writes no token but a new one, and confirms with no other.
LEMMA TokensLocked ==
    ASSUME TypeOK, TypeOK', TokensInv, UNCHANGED ops,
           \A b \in Bookings :
               /\ minted[b] <= minted'[b]
               /\ row'[b].checkin \in {row[b].checkin, NoToken} \/ row'[b].checkin = Fresh(b)
               /\ row'[b].checkin <= minted'[b]
               /\ used'[b] = used[b]
                     \/ (used'[b] = used[b] \union {row[b].checkin} /\ row'[b].status # "CONFIRMED")
               /\ row'[b].status = "CONFIRMED" =>
                     row'[b].checkin = Fresh(b) \/ row'[b] = row[b]
    PROVE  TokensInv' /\ NoneReturns
<1>1. ASSUME NEW b \in Bookings
      PROVE  RowTokens(b)' /\ (UsedTokenOpens(b)' => UsedTokenOpens(b))
  <2>1. row[b].checkin \in Nat /\ minted[b] \in Nat /\ minted'[b] \in Nat /\ used[b] \subseteq Nat
        /\ Fresh(b) > minted[b]
      BY DEF TypeOK, Row, Fresh
  <2>2. Fresh(b) \notin used[b]
      BY <2>1 DEF TokensInv, RowTokens
  <2> QED
      BY <2>1, <2>2 DEF TokensInv, RowTokens, UsedTokenOpens
<1>2. ASSUME NEW h \in Handlers, NEW b \in Bookings
      PROVE  HeldTokens(h, b)'
  <2> DEFINE held == ops[h].snap[b]
  <2>1. HeldTokens(h, b) /\ ops' = ops
      BY DEF TokensInv
  <2>2. held \in Row /\ minted[b] \in Nat /\ minted'[b] \in Nat /\ held.checkin \in Nat
      BY DEF TypeOK, Op, Row
  <2>3. Kind[h] = "reschedule" /\ held.status # "NONE" => HoldsNewToken(h, b)'
    <3>1. held.checkin <= minted[b]
        BY <2>1 DEF HeldTokens
    <3>2. held.checkin # Fresh(b)
        BY <2>2, <3>1 DEF Fresh
    <3> QED
        BY <2>1, <3>2 DEF HeldTokens, HoldsNewToken
  <2> QED
      BY <2>1, <2>2, <2>3 DEF HeldTokens
<1> QED
    BY <1>1, <1>2 DEF TokensInv, NoneReturns

LEMMA TokensKept ==
    ASSUME TokensInv, UNCHANGED <<row, minted, used, ops>>
    PROVE  TokensInv' /\ NoneReturns
    BY DEF TokensInv, RowTokens, HeldTokens, HoldsNewToken, NoneReturns, UsedTokenOpens

\* A handler other than a reschedule reads rows and changes their status.
LEMMA TokensRead ==
    ASSUME TypeOK, TypeOK', TokensInv, NEW h \in Handlers, NEW kind \in Kinds \ {"reschedule"},
           NEW B \in SUBSET Bookings,
           Read(h, kind, B, [b \in Bookings |-> [row[b] EXCEPT !.status = Leaves(kind)]]),
           UNCHANGED minted
    PROVE  TokensInv' /\ NoneReturns
<1> DEFINE changed == [b \in Bookings |-> [row[b] EXCEPT !.status = Leaves(kind)]]
           new == [phase |-> "read", cols |-> [b \in Bookings |-> {}],
                   snap |-> [b \in Bookings |-> IF b \in B THEN changed[b] ELSE NoRow]]
<1>1. /\ ops' = [ops EXCEPT ![h] = new] /\ UNCHANGED <<row, used>> /\ Kind[h] = kind
      /\ ops[h].phase = "idle"
    BY DEF Read, scanVars
<1>2. ops'[h] = new /\ \A g \in Handlers \ {h} : ops'[g] = ops[g]
    BY <1>1 DEF TypeOK
<1>3. \A b \in Bookings : RowTokens(b)'
    BY <1>1 DEF TokensInv, RowTokens
<1>4. ASSUME NEW b \in Bookings
      PROVE  HeldTokens(h, b)'
  <2>1. RowTokens(b) /\ row[b] \in Row /\ minted[b] \in Nat
      BY DEF TokensInv, TypeOK
  <2>2. CASE b \in B
    <3>1. /\ ops'[h].snap[b].status = Leaves(kind) /\ ops'[h].snap[b].checkin = row[b].checkin
          /\ ops'[h].phase = "read"
        BY <1>2, <2>1, <2>2 DEF Row
    <3> QED
        BY <1>1, <2>1, <3>1 DEF HeldTokens, RowTokens, Leaves
  <2>3. CASE b \notin B
    <3>1. ops'[h].snap[b] = NoRow /\ ops'[h].cols[b] = {}
        BY <1>2, <2>3
    <3> QED
        BY <2>1, <3>1 DEF HeldTokens, NoRow, NoToken
  <2> QED
      BY <2>2, <2>3
<1>5. ASSUME NEW g \in Handlers \ {h}, NEW b \in Bookings
      PROVE  HeldTokens(g, b)'
  <2>1. HeldTokens(g, b) /\ ops'[g] = ops[g] /\ row[b] \in Row
      BY <1>2 DEF TokensInv, TypeOK
  <2>2. ASSUME HoldsNewToken(g, b)
        PROVE  HoldsNewToken(g, b)'
    <3>1. ops'[h].snap[b].checkin \in {row[b].checkin, NoToken}
        BY <1>2, <2>1 DEF NoRow, Row
    <3>2. ops'[h].snap[b].checkin # ops[g].snap[b].checkin
        BY <2>2, <3>1 DEF HoldsNewToken
    <3>3. \A f \in Handlers \ {g} : ops'[f].snap[b].checkin # ops[g].snap[b].checkin
        BY <1>2, <2>2, <3>2 DEF HoldsNewToken
    <3> QED
        BY <1>1, <2>1, <2>2, <3>3 DEF HoldsNewToken
  <2> QED
      BY <1>1, <2>1, <2>2 DEF HeldTokens
<1> QED
    BY <1>1, <1>3, <1>4, <1>5 DEF TokensInv, NoneReturns, UsedTokenOpens

\* A reschedule mints a token and holds it.
LEMMA TokensReschedule ==
    ASSUME TypeOK, TypeOK', TokensInv, NEW h \in Handlers, NEW b \in Bookings, NEW slot \in Slots,
           reschedule(h, b, slot)
    PROVE  TokensInv' /\ NoneReturns
<1> DEFINE changed == [x \in Bookings |-> Rescheduled(row[x], slot, Fresh(x))]
           new == [phase |-> "read", cols |-> [x \in Bookings |-> {}],
                   snap |-> [x \in Bookings |-> IF x \in {b} THEN changed[x] ELSE NoRow]]
<1>1. /\ ops' = [ops EXCEPT ![h] = new] /\ UNCHANGED <<row, used>> /\ Kind[h] = "reschedule"
      /\ minted' = [x \in Bookings |-> IF x = b THEN Fresh(x) ELSE minted[x]]
      /\ row[b].status \in {"CONFIRMED", "PENDING_PAYMENT", "NO_SHOW"}
    BY DEF reschedule, Read, scanVars, Mint
<1>2. ops'[h] = new /\ \A g \in Handlers \ {h} : ops'[g] = ops[g]
    BY <1>1 DEF TypeOK
<1>3. \A x \in Bookings :
          /\ RowTokens(x) /\ row[x] \in Row /\ row[x].checkin \in Nat /\ minted[x] \in Nat
          /\ used[x] \subseteq Nat /\ Fresh(x) = minted[x] + 1 /\ minted'[x] \in Nat
          /\ minted[x] <= minted'[x]
    BY <1>1 DEF TokensInv, TypeOK, Row, Fresh
<1>4. \A x \in Bookings : RowTokens(x)'
  <2> SUFFICES ASSUME NEW x \in Bookings PROVE RowTokens(x)'
      OBVIOUS
  <2> QED
      BY <1>1, <1>3 DEF RowTokens
<1>5. /\ ops'[h].snap[b].checkin = Fresh(b) /\ ops'[h].phase = "read"
      /\ ops'[h].snap[b].status \in {"CONFIRMED", "PENDING_PAYMENT"}
  <2> DEFINE r == row[b]
  <2>1. r \in Row /\ ops'[h].snap[b] = Rescheduled(r, slot, Fresh(b)) /\ ops'[h].phase = "read"
      BY <1>2, <1>3
  <2> HIDE DEF r, new, changed
  <2>2. Rescheduled(r, slot, Fresh(b)).checkin = Fresh(b)
      BY <2>1 DEF Rescheduled, Row
  <2>3. Rescheduled(r, slot, Fresh(b)).status = IF r.status = "NO_SHOW" THEN "CONFIRMED" ELSE r.status
      BY <2>1 DEF Rescheduled, Row
  <2> QED
      BY <1>1, <2>1, <2>2, <2>3 DEF r
<1>6. \A x \in Bookings \ {b} : ops'[h].snap[x] = NoRow /\ ops'[h].cols[x] = {}
    BY <1>2
<1>7. \A g \in Handlers : ops[g].snap[b].checkin \in Nat /\ ops[g].snap[b].checkin <= minted[b]
    BY DEF TypeOK, Op, Row, TokensInv, HeldTokens
<1> HIDE DEF changed, new
<1>8. HeldTokens(h, b)'
  <2>1. \A g \in Handlers \ {h} : ops'[g].snap[b].checkin # Fresh(b)
      BY <1>2, <1>3, <1>7
  <2>2. Fresh(b) \notin used[b] \union {NoToken, row[b].checkin}
      BY <1>3 DEF RowTokens, NoToken
  <2>3. HoldsNewToken(h, b)'
      BY <1>1, <1>5, <2>1, <2>2 DEF HoldsNewToken
  <2>4. minted'[b] = Fresh(b)
      BY <1>1
  <2> QED
      BY <1>1, <1>3, <1>5, <2>3, <2>4 DEF HeldTokens
<1>9. ASSUME NEW x \in Bookings \ {b}
      PROVE  HeldTokens(h, x)'
    BY <1>3, <1>6 DEF HeldTokens, NoRow, NoToken
<1>10. ASSUME NEW g \in Handlers \ {h}, NEW x \in Bookings
       PROVE  HeldTokens(g, x)'
  <2>1. HeldTokens(g, x) /\ ops'[g] = ops[g]
      BY <1>2 DEF TokensInv
  <2>2. ops[g].snap[x].checkin \in Nat
      BY DEF TypeOK, Op, Row
  <2>3. ops'[g].snap[x].checkin <= minted'[x]
      BY <1>3, <2>1, <2>2 DEF HeldTokens
  <2>4. ASSUME HoldsNewToken(g, x)
        PROVE  HoldsNewToken(g, x)'
    <3>1. ops'[h].snap[x].checkin # ops[g].snap[x].checkin
      <4>1. CASE x = b
          BY <1>3, <1>5, <1>7, <4>1
      <4>2. CASE x # b
          BY <1>6, <2>4, <4>2 DEF HoldsNewToken, NoRow
      <4> QED
          BY <4>1, <4>2
    <3>2. \A f \in Handlers \ {g} : ops'[f].snap[x].checkin # ops[g].snap[x].checkin
        BY <1>2, <2>4, <3>1 DEF HoldsNewToken
    <3> QED
        BY <1>1, <2>1, <2>4, <3>2 DEF HoldsNewToken
  <2> QED
      BY <2>1, <2>3, <2>4 DEF HeldTokens
<1> QED
    BY <1>1, <1>4, <1>8, <1>9, <1>10 DEF TokensInv, NoneReturns, UsedTokenOpens

LEMMA TokensDiff ==
    ASSUME TypeOK, TypeOK', TokensInv, NEW h \in Handlers, saveDiff(h)
    PROVE  TokensInv' /\ NoneReturns
<1>1. /\ UNCHANGED <<row, minted, used>> /\ ops[h].phase = "read"
      /\ ops'[h].phase = "diffed" /\ ops'[h].snap = ops[h].snap
      /\ \A b \in Bookings :
            ops'[h].cols[b] = IF ops[h].snap[b].status = "NONE" THEN {}
                              ELSE {c \in Columns : ops[h].snap[b][c] # row[b][c]}
  <2> DEFINE differing == [b \in Bookings |->
                            IF ops[h].snap[b].status = "NONE" THEN {}
                            ELSE {c \in Columns : ops[h].snap[b][c] # row[b][c]}]
  <2>1. /\ UNCHANGED <<row, minted, used>> /\ ops[h].phase = "read"
        /\ ops' = [ops EXCEPT ![h] = [[ops[h] EXCEPT !.phase = "diffed"] EXCEPT !.cols = differing]]
      BY DEF saveDiff, scanVars, TypeOK
  <2> HIDE DEF differing
  <2>2. ops'[h] = [[ops[h] EXCEPT !.phase = "diffed"] EXCEPT !.cols = differing] /\ ops[h] \in Op
      BY <2>1 DEF TypeOK
  <2>3. ops'[h].phase = "diffed" /\ ops'[h].snap = ops[h].snap /\ ops'[h].cols = differing
      BY <2>2 DEF Op
  <2> QED
      BY <2>1, <2>3 DEF differing
<1>2. \A g \in Handlers \ {h} : ops'[g] = ops[g]
    BY DEF saveDiff, TypeOK
<1>3. \A g \in Handlers : ops'[g].snap = ops[g].snap
    BY <1>1, <1>2
<1>4. \A b \in Bookings : RowTokens(b)'
    BY <1>1 DEF TokensInv, RowTokens
<1>5. ASSUME NEW g \in Handlers \ {h}, NEW b \in Bookings
      PROVE  HeldTokens(g, b)'
    BY <1>1, <1>2, <1>3, <1>5 DEF TokensInv, HeldTokens, HoldsNewToken
<1>6. ASSUME NEW b \in Bookings
      PROVE  HeldTokens(h, b)'
  <2>1. HeldTokens(h, b)
      BY DEF TokensInv
  <2>2. ops[h].snap[b].status # "NONE" /\ ops[h].snap[b].checkin # row[b].checkin
          => "checkin" \in ops'[h].cols[b]
      BY <1>1 DEF Columns
  <2> QED
      BY <1>1, <1>2, <1>3, <2>1, <2>2 DEF HeldTokens, HoldsNewToken
<1> QED
    BY <1>1, <1>4, <1>5, <1>6 DEF TokensInv, NoneReturns, UsedTokenOpens

LEMMA TokensUpdate ==
    ASSUME TypeOK, TypeOK', TokensInv, NEW h \in Handlers, saveUpdate(h)
    PROVE  TokensInv' /\ ReturnsAlone
<1>1. /\ UNCHANGED <<minted, used>> /\ ops[h].phase = "diffed" /\ ops'[h] = Idle
      /\ \A g \in Handlers \ {h} : ops'[g] = ops[g]
    BY DEF saveUpdate, scanVars, TypeOK
<1>2. ASSUME NEW b \in Bookings
      PROVE  LET held == ops[h].snap[b]
                 cols == ops[h].cols[b] IN
             /\ row'[b].status = IF "status" \in cols THEN held.status ELSE row[b].status
             /\ row'[b].checkin = IF "checkin" \in cols THEN held.checkin ELSE row[b].checkin
  <2>1. row'[b] = Merge(row[b], ops[h].snap[b], ops[h].cols[b]) /\ row[b] \in Row
      BY DEF saveUpdate, TypeOK
  <2> QED
      BY <2>1 DEF Merge, Row
<1>3. \A b \in Bookings : HeldTokens(h, b) /\ RowTokens(b) /\ minted[b] \in Nat
    BY DEF TokensInv, TypeOK
<1>4. ASSUME NEW b \in Bookings
      PROVE  RowTokens(b)'
    BY <1>1, <1>2, <1>3 DEF RowTokens, HeldTokens
<1>5. ASSUME NEW b \in Bookings
      PROVE  HeldTokens(h, b)'
    BY <1>1, <1>3 DEF HeldTokens, Idle, NoRows, NoRow, NoToken
<1>6. ASSUME NEW g \in Handlers \ {h}, NEW b \in Bookings
      PROVE  HeldTokens(g, b)'
  <2>1. HeldTokens(g, b) /\ ops'[g] = ops[g]
      BY <1>1 DEF TokensInv
  <2>2. ASSUME HoldsNewToken(g, b)
        PROVE  HoldsNewToken(g, b)'
    <3>1. ops[g].snap[b].checkin # row'[b].checkin
        BY <1>2, <2>2 DEF HoldsNewToken
    <3>2. ops'[h].snap[b].checkin = NoToken
        BY <1>1 DEF Idle, NoRows, NoRow
    <3>3. \A f \in Handlers \ {g} : ops'[f].snap[b].checkin # ops[g].snap[b].checkin
        BY <1>1, <2>2, <3>2 DEF HoldsNewToken
    <3> QED
        BY <1>1, <2>1, <2>2, <3>1, <3>3 DEF HoldsNewToken
  <2> QED
      BY <1>1, <2>1, <2>2 DEF HeldTokens
<1>7. ASSUME NEW b \in Bookings, UsedTokenOpens(b)', ~UsedTokenOpens(b)
      PROVE  /\ Kind[h] # "reschedule" /\ ops' # ops
             /\ "checkin" \in ops[h].cols[b] /\ "status" \notin ops[h].cols[b]
  <2>1. row'[b].status = "CONFIRMED" /\ row'[b].checkin \in used[b]
      BY <1>1, <1>7 DEF UsedTokenOpens
  <2>2. row[b].status # row'[b].status \/ row[b].checkin # row'[b].checkin
      BY <1>7, <2>1 DEF UsedTokenOpens
  <2>3. ops[h].snap[b].status # "NONE"
      BY <1>2, <1>3, <2>2 DEF HeldTokens
  <2>4. Kind[h] # "reschedule"
      BY <1>1, <1>2, <1>3, <2>1, <2>3 DEF HeldTokens, HoldsNewToken
  <2>5. "status" \notin ops[h].cols[b]
      BY <1>2, <1>3, <2>1, <2>3, <2>4 DEF HeldTokens, Leaves
  <2>6. "checkin" \in ops[h].cols[b]
      BY <1>2, <2>2, <2>5
  <2>7. ops' # ops
      BY <1>1 DEF Idle
  <2> QED
      BY <2>4, <2>5, <2>6, <2>7
<1> QED
    BY <1>1, <1>4, <1>5, <1>6, <1>7 DEF TokensInv, ReturnsAlone

LEMMA TokensCheckout ==
    ASSUME TypeOK, TypeOK', TokensInv, NEW c \in Carts, NEW slot \in [c -> Slots],
           initiateCheckout(c, slot) \/ initiateBulkCheckout(c, slot)
    PROVE  TokensInv' /\ NoneReturns
<1>1. \A b \in Bookings : row[b] \in Row /\ minted[b] \in Nat /\ RowTokens(b)
    BY DEF TypeOK, TokensInv
<1>2. ASSUME NEW bulk \in BOOLEAN, bookFromWallet(c, slot, bulk)
      PROVE  TokensInv' /\ NoneReturns
  <2>1. /\ UNCHANGED <<ops, used>>
        /\ \A b \in c : b \in Bookings => /\ row'[b].status = "CONFIRMED"
                                         /\ row'[b].checkin = Fresh(b) /\ minted'[b] = Fresh(b)
        /\ \A b \in Bookings \ c : row'[b] = row[b] /\ minted'[b] = minted[b]
      BY <1>2 DEF bookFromWallet, NewRow, Mint, scanVars
  <2> QED
      BY <1>1, <2>1, TokensLocked DEF RowTokens, Fresh
<1>3. ASSUME NEW bulk \in BOOLEAN, bookPending(c, slot, bulk)
      PROVE  TokensInv' /\ NoneReturns
  <2>1. /\ UNCHANGED <<ops, used, minted>>
        /\ \A b \in c : b \in Bookings => row'[b].status = "PENDING_PAYMENT" /\ row'[b].checkin = NoToken
        /\ \A b \in Bookings \ c : row'[b] = row[b]
      BY <1>3 DEF bookPending, NewRow, scanVars
  <2> QED
      BY <1>1, <2>1, TokensLocked DEF RowTokens, NoToken
<1> QED
    BY <1>2, <1>3 DEF initiateCheckout, initiateBulkCheckout, checkoutWithWallet,
       bulkCheckoutWithWallet, checkoutWithExternalProvider, bulkCheckoutWithExternalProvider

LEMMA TokensPaymentEvent ==
    ASSUME TypeOK, TypeOK', TokensInv, NEW e \in sent, applyPaymentEvent(e)
    PROVE  TokensInv' /\ NoneReturns
<1> DEFINE B == {b \in e.to : txn[b] # "SUCCESS"}
<1>1. applyBookingPaymentEvent(B, e.outcome) /\ UNCHANGED <<ops, used>>
    BY DEF applyPaymentEvent, scanVars
<1>2. \A b \in Bookings : /\ row[b] \in Row /\ minted[b] \in Nat /\ RowTokens(b)
                          /\ row[b].checkin \in Nat /\ row[b].checkin <= minted[b]
    BY DEF TypeOK, TokensInv, RowTokens, Row
<1> HIDE DEF B
<1>3. CASE confirmBookings(B)
  <2>1. /\ \A b \in Bookings : b \notin B => row'[b] = row[b] /\ minted'[b] = minted[b]
        /\ \A b \in Bookings : b \in B =>
              minted'[b] = Fresh(b)
                /\ row'[b] = [row[b] EXCEPT !.status = "CONFIRMED", !.paid = 1, !.checkin = Fresh(b)]
      BY <1>3 DEF confirmBookings, Mint
  <2>2. \A b \in Bookings : b \in B => row'[b].status = "CONFIRMED" /\ row'[b].checkin = Fresh(b)
      BY <1>2, <2>1 DEF Row
  <2>3. \A b \in Bookings : /\ minted[b] <= minted'[b] /\ row'[b].checkin <= minted'[b]
                            /\ row'[b] = row[b] \/ (/\ row'[b].status = "CONFIRMED"
                                                    /\ row'[b].checkin = Fresh(b))
    <3> SUFFICES ASSUME NEW b \in Bookings
                 PROVE  /\ minted[b] <= minted'[b] /\ row'[b].checkin <= minted'[b]
                        /\ row'[b] = row[b] \/ (row'[b].status = "CONFIRMED" /\ row'[b].checkin = Fresh(b))
        OBVIOUS
    <3>1. CASE b \in B
      <4>1. /\ minted'[b] = Fresh(b)
            /\ row'[b].status = "CONFIRMED" /\ row'[b].checkin = Fresh(b)
          BY <2>1, <2>2, <3>1
      <4> QED
          BY <1>2, <4>1 DEF Fresh
    <3>2. CASE b \notin B
      <4>1. row'[b] = row[b]
          BY <2>1, <3>2
      <4>2. minted'[b] = minted[b]
          BY <2>1, <3>2
      <4> QED
          BY <1>2, <4>1, <4>2
    <3> QED
        BY <3>1, <3>2
  <2> QED
      BY <1>1, <2>3, TokensLocked
<1>4. CASE failBookings(B)
  <2>1. /\ UNCHANGED minted /\ \A b \in Bookings : b \notin B => row'[b] = row[b]
        /\ \A b \in Bookings : b \in B =>
              row'[b] = [row[b] EXCEPT !.status = "PAYMENT_FAILED", !.paid = 0]
      BY <1>4 DEF failBookings
  <2>2. \A b \in Bookings : b \in B =>
           row'[b].status = "PAYMENT_FAILED" /\ row'[b].checkin = row[b].checkin
      BY <1>2, <2>1 DEF Row
  <2>3. \A b \in Bookings : /\ minted[b] <= minted'[b] /\ row[b].checkin <= minted'[b]
                            /\ row'[b] = row[b] \/ (/\ row'[b].status = "PAYMENT_FAILED"
                                                    /\ row'[b].checkin = row[b].checkin)
    <3> SUFFICES ASSUME NEW b \in Bookings
                 PROVE  /\ minted[b] <= minted'[b] /\ row[b].checkin <= minted'[b]
                        /\ row'[b] = row[b] \/ (/\ row'[b].status = "PAYMENT_FAILED"
                                                /\ row'[b].checkin = row[b].checkin)
        OBVIOUS
    <3>1. CASE b \in B
      <4>1. /\ minted'[b] = minted[b]
            /\ row'[b].status = "PAYMENT_FAILED" /\ row'[b].checkin = row[b].checkin
          BY <2>1, <2>2, <3>1
      <4> QED
          BY <1>2, <4>1
    <3>2. CASE b \notin B
      <4>1. row'[b] = row[b]
          BY <2>1, <3>2
      <4>2. minted'[b] = minted[b]
          BY <2>1
      <4> QED
          BY <1>2, <4>1, <4>2
    <3> QED
        BY <3>1, <3>2
  <2> QED
      BY <1>1, <2>3, TokensLocked
<1> QED
    BY <1>1, <1>3, <1>4 DEF applyBookingPaymentEvent

LEMMA TokensScan ==
    ASSUME TypeOK, TypeOK', TokensInv, NEW b \in Bookings, qrCheckin(b) \/ qrCheckout(b)
    PROVE  TokensInv' /\ NoneReturns
<1>1. \A x \in Bookings : row[x] \in Row /\ minted[x] \in Nat /\ RowTokens(x)
    BY DEF TypeOK, TokensInv
<1>2. \A x \in Bookings \ {b} : row'[x] = row[x] /\ minted'[x] = minted[x] /\ used'[x] = used[x]
    BY DEF qrCheckin, qrCheckout, Mint, TypeOK
<1>3. CASE qrCheckin(b)
  <2>1. /\ UNCHANGED ops /\ minted'[b] = Fresh(b) /\ used'[b] = used[b] \union {row[b].checkin}
        /\ row'[b].status = "IN_SERVICE" /\ row'[b].checkin = NoToken
    BY <1>1, <1>3 DEF qrCheckin, Mint, TypeOK, Row
  <2> QED
    BY <1>1, <1>2, <2>1, TokensLocked DEF RowTokens, Fresh, NoToken
<1>4. CASE qrCheckout(b)
  <2>1. /\ UNCHANGED <<ops, minted, used>>
        /\ row'[b].status = "DONE" /\ row'[b].checkin = row[b].checkin
    BY <1>1, <1>4 DEF qrCheckout, TypeOK, Row
  <2> QED
    BY <1>1, <1>2, <2>1, TokensLocked DEF RowTokens
<1> QED
    BY <1>3, <1>4

LEMMA TokensHandle ==
    ASSUME TypeOK, TypeOK', TokensInv, NEW h \in Handlers, Handle(h)
    PROVE  TokensInv' /\ ReturnsAlone
<1>1. CASE \E b \in Bookings, slot \in Slots : reschedule(h, b, slot)
    BY <1>1, TokensReschedule, NoReturn
<1>2. ASSUME NEW B \in SUBSET Bookings, NEW kind \in {"lazyNoShow", "markExpired"},
             Read(h, kind, {b \in B : Expired(row[b])}, NoShowRows), UNCHANGED minted
      PROVE  TokensInv' /\ NoneReturns
  <2>1. NoShowRows = [b \in Bookings |-> [row[b] EXCEPT !.status = Leaves(kind)]]
      BY DEF NoShowRows, Leaves
  <2>2. kind \in Kinds \ {"reschedule"} /\ Leaves(kind) = "NO_SHOW"
      BY DEF Kinds, Leaves
  <2>3. {b \in B : Expired(row[b])} \in SUBSET Bookings
      OBVIOUS
  <2> QED
      BY <1>2, <2>1, <2>2, <2>3, TokensRead
<1>3. ASSUME NEW B \in SUBSET Bookings, NEW kind \in {"cancel", "cancelStale"},
             Read(h, kind, B, CancelledRows), UNCHANGED minted
      PROVE  TokensInv' /\ NoneReturns
  <2>1. CancelledRows = [b \in Bookings |-> [row[b] EXCEPT !.status = Leaves(kind)]]
      BY DEF CancelledRows, Leaves
  <2>2. kind \in Kinds \ {"reschedule"} /\ Leaves(kind) = "CANCELLED"
      BY DEF Kinds, Leaves
  <2> QED
      BY <1>3, <2>1, <2>2, TokensRead
<1>4. CASE \E b \in Bookings : cancel(h, b)
    BY <1>3, <1>4, NoReturn DEF cancel
<1>5. CASE \/ \E b \in Bookings : findOne(h, b)
           \/ \E client \in Clients : userBookingsByStatus(h, client)
           \/ \E page \in SUBSET Bookings : findByProvider(h, page)
  <2>1. \E B \in SUBSET Bookings : markMissed(h, B)
    <3>1. \A client \in Clients : UNION {c \in Carts : ClientOf[c] = client} \in SUBSET Bookings
        BY ConstantsAssumption DEF ConstantsAssumption
    <3> QED
        BY <1>5, <3>1 DEF findOne, userBookingsByStatus, findByProvider
  <2> QED
      BY <1>2, <2>1, NoReturn DEF markMissed
<1>6. CASE markExpiredConfirmedBookings(h)
    BY <1>2, <1>6, NoReturn DEF markExpiredConfirmedBookings
<1>7. CASE cancelStalePendingBookings(h)
  <2>1. {x \in Bookings : StalePending(x)} \in SUBSET Bookings
      OBVIOUS
  <2> QED
      BY <1>3, <1>7, <2>1, NoReturn DEF cancelStalePendingBookings
<1> QED
    BY <1>1, <1>4, <1>5, <1>6, <1>7, TokensDiff, TokensUpdate, NoReturn DEF Handle

LEMMA TokensCrash ==
    ASSUME TypeOK, TokensInv, crash
    PROVE  TokensInv' /\ NoneReturns
    BY DEF crash, TypeOK, TokensInv, RowTokens, HeldTokens, Idle, NoRows, NoRow, NoToken, scanVars,
       NoneReturns, UsedTokenOpens

LEMMA TokensStep ==
    ASSUME TypeOK, TokensInv, [Next]_vars
    PROVE  TokensInv' /\ ReturnsAlone
<1>1. TypeOK'
    BY TypeStep
<1>2. CASE Checkout
  <2>1. PICK c \in Carts :
           \/ \E slot \in [c -> Slots] :
                 initiateCheckout(c, slot) \/ initiateBulkCheckout(c, slot)
           \/ storeExternalPaymentId(c)
           \/ initiationEnds(c)
           \/ \E to \in {c} \union {{b} : b \in c}, outcome \in {"succeeded", "failed"} :
                 providerReports(c, to, outcome)
      BY <1>2 DEF Checkout
  <2> QED
      BY <1>1, <2>1, TokensCheckout, TokensKept, NoReturn
         DEF storeExternalPaymentId, initiationEnds, providerReports, scanVars
<1>3. CASE \E e \in sent : applyPaymentEvent(e)
    BY <1>1, <1>3, TokensPaymentEvent, NoReturn
<1>4. CASE \E b \in Bookings : qrCheckin(b) \/ qrCheckout(b)
    BY <1>1, <1>4, TokensScan, NoReturn
<1>5. CASE \E b \in Bookings : applyCredit(b) \/ applyCreditFails(b) \/ reconcileBookingCredits(b)
    BY <1>5, TokensKept, NoReturn DEF applyCredit, applyCreditFails, reconcileBookingCredits, scanVars
<1>6. CASE \E h \in Handlers : Handle(h)
    BY <1>1, <1>6, TokensHandle
<1>7. CASE tick \/ UNCHANGED vars
    BY <1>7, TokensKept, NoReturn DEF tick, vars, scanVars
<1> QED
    BY <1>2, <1>3, <1>4, <1>5, <1>6, <1>7, TokensCrash, NoReturn DEF Next, Run

\* Whatever handlers are in flight and whatever stale rows they write back, in whatever
\* order the scans, webhooks and restarts come, a token that has started a service opens
\* the door again only if a handler that marks the booking missed or cancelled saves it
\* alone: its status was in the row when it compared.
THEOREM UsedTokensStayOut == Spec => UsedTokenStaysOut
<1>1. TypeOK /\ TokensInv /\ [Next]_vars => TokensInv' /\ ReturnsAlone
    BY TokensStep
<1>2. [ReturnsAlone]_vars => [\A b \in Bookings :
          UsedTokenOpens(b)' /\ ~UsedTokenOpens(b) =>
              \E h \in Handlers :
                  /\ Kind[h] # "reschedule"
                  /\ ops[h].phase = "diffed" /\ ops' # ops
                  /\ "checkin" \in ops[h].cols[b] /\ "status" \notin ops[h].cols[b]]_vars
    BY DEF ReturnsAlone
<1> QED
    BY <1>1, <1>2, TokensInit, TypeInvariant, PTL DEF Spec, UsedTokenStaysOut

-------------------------------------------------------------------------------
(***************************************************************************)
(* A finished booking is not confirmed again.  Only a single checkout      *)
(* stores an id over the status of its transaction.  Any other booking is  *)
(* served, and held as served by a handler, only while its transaction     *)
(* says SUCCESS, and that is never taken back.                             *)
(***************************************************************************)
Single(b) == \E c \in Carts : Cardinality(c) = 1 /\ b \in c

PaidForGood(b) ==
    /\ row[b].status \in Served => txn[b] = "SUCCESS"
    /\ row[b].status = "NONE" => txn[b] = "NONE"
    /\ \A h \in Handlers :
          /\ ops[h].snap[b].status \in Served => txn[b] = "SUCCESS"
          /\ ops[h].snap[b].status = "NONE" => ops[h].cols[b] = {}

PaidInv == \A b \in Bookings : ~Single(b) => PaidForGood(b)

LEMMA PaidInit == Init => PaidInv
    BY DEF Init, PaidInv, PaidForGood, Served, Idle, NoRows, NoRow

\* What a step that leaves the handlers alone may do.
LEMMA PaidLocked ==
    ASSUME PaidInv, UNCHANGED ops,
           \A b \in Bookings : ~Single(b) =>
               /\ txn[b] = "SUCCESS" => txn'[b] = "SUCCESS"
               /\ row'[b].status \in Served => row[b].status \in Served \/ txn'[b] = "SUCCESS"
               /\ row'[b].status = "NONE" => row[b].status = "NONE" /\ txn'[b] = txn[b]
    PROVE  PaidInv'
<1> SUFFICES ASSUME NEW b \in Bookings, ~Single(b) PROVE PaidForGood(b)'
    BY DEF PaidInv, Single
<1>1. PaidForGood(b)
    BY DEF PaidInv
<1> QED
    BY <1>1 DEF PaidForGood

LEMMA PaidCheckout ==
    ASSUME TypeOK, PaidInv, Checkout
    PROVE  PaidInv'
<1>1. PICK c \in Carts :
         \/ \E slot \in [c -> Slots] :
               initiateCheckout(c, slot) \/ initiateBulkCheckout(c, slot)
         \/ storeExternalPaymentId(c)
         \/ initiationEnds(c)
         \/ \E to \in {c} \union {{b} : b \in c}, outcome \in {"succeeded", "failed"} :
               providerReports(c, to, outcome)
    BY DEF Checkout
<1>2. \A b \in Bookings : PaidForGood(b) \/ Single(b)
    BY DEF PaidInv
<1>3. ASSUME NEW slot \in [c -> Slots], initiateCheckout(c, slot) \/ initiateBulkCheckout(c, slot)
      PROVE  PaidInv'
  <2>1. UNCHANGED ops /\ NotBooked(c)
      BY <1>3 DEF initiateCheckout, initiateBulkCheckout, checkoutWithWallet, bulkCheckoutWithWallet,
                  checkoutWithExternalProvider, bulkCheckoutWithExternalProvider, bookFromWallet, bookPending
  <2>2. \A b \in Bookings : b \notin c => row'[b] = row[b] /\ txn'[b] = txn[b]
      BY <1>3 DEF initiateCheckout, initiateBulkCheckout, checkoutWithWallet, bulkCheckoutWithWallet,
                  checkoutWithExternalProvider, bulkCheckoutWithExternalProvider, bookFromWallet, bookPending
  <2>3. \A b \in Bookings : b \in c =>
           \/ row'[b].status = "CONFIRMED" /\ txn'[b] = "SUCCESS"
           \/ row'[b].status = "PENDING_PAYMENT" /\ txn'[b] = "PENDING"
    <3>1. PICK bulk \in BOOLEAN : bookFromWallet(c, slot, bulk) \/ bookPending(c, slot, bulk)
        BY <1>3 DEF initiateCheckout, initiateBulkCheckout, checkoutWithWallet, bulkCheckoutWithWallet,
                    checkoutWithExternalProvider, bulkCheckoutWithExternalProvider
    <3>2. CASE bookFromWallet(c, slot, bulk)
        BY <3>2 DEF bookFromWallet, NewRow
    <3>3. CASE bookPending(c, slot, bulk)
        BY <3>3 DEF bookPending, NewRow
    <3> QED
        BY <3>1, <3>2, <3>3
  <2>4. \A b \in Bookings : b \in c => row[b].status = "NONE"
      BY <2>1 DEF NotBooked
  <2> QED
      BY <1>2, <2>1, <2>2, <2>3, <2>4, PaidLocked DEF PaidForGood, Served
<1>4. CASE storeExternalPaymentId(c)
  <2>1. UNCHANGED <<row, ops>> /\ \A b \in Bookings : ~Single(b) => txn'[b] = txn[b]
      BY <1>4 DEF storeExternalPaymentId, Single, TypeOK
  <2> QED
      BY <2>1, PaidLocked
<1>5. CASE \/ initiationEnds(c)
           \/ \E to \in {c} \union {{b} : b \in c}, outcome \in {"succeeded", "failed"} :
                 providerReports(c, to, outcome)
    BY <1>5, PaidLocked DEF initiationEnds, providerReports
<1> QED
    BY <1>1, <1>3, <1>4, <1>5

LEMMA PaidPaymentEvent ==
    ASSUME TypeOK, PaidInv, NEW e \in sent, applyPaymentEvent(e)
    PROVE  PaidInv'
<1> DEFINE B == {b \in e.to : txn[b] # "SUCCESS"}
<1>1. applyBookingPaymentEvent(B, e.outcome) /\ UNCHANGED ops
    BY DEF applyPaymentEvent
<1>2. \A b \in Bookings : b \in B => txn[b] # "SUCCESS"
    OBVIOUS
<1> HIDE DEF B
<1>3. \A b \in Bookings : b \notin B => row'[b] = row[b] /\ txn'[b] = txn[b]
    BY <1>1 DEF applyBookingPaymentEvent, confirmBookings, failBookings
<1>4. \A b \in Bookings : b \in B =>
         \/ row'[b].status = "CONFIRMED" /\ txn'[b] = "SUCCESS"
         \/ row'[b].status = "PAYMENT_FAILED"
  <2>1. \A b \in Bookings : row[b] \in Row
      BY DEF TypeOK
  <2>2. CASE confirmBookings(B)
    <3>1. \A b \in Bookings : b \in B =>
             /\ row'[b] = [row[b] EXCEPT !.status = "CONFIRMED", !.paid = 1, !.checkin = Fresh(b)]
             /\ txn'[b] = "SUCCESS"
        BY <2>2 DEF confirmBookings
    <3> QED
        BY <2>1, <3>1 DEF Row
  <2>3. CASE failBookings(B)
    <3>1. \A b \in Bookings : b \in B =>
             row'[b] = [row[b] EXCEPT !.status = "PAYMENT_FAILED", !.paid = 0]
        BY <2>3 DEF failBookings
    <3> QED
        BY <2>1, <3>1 DEF Row
  <2> QED
      BY <1>1, <2>2, <2>3 DEF applyBookingPaymentEvent
<1> QED
    BY <1>1, <1>2, <1>3, <1>4, PaidLocked DEF Served

LEMMA PaidScan ==
    ASSUME TypeOK, PaidInv, NEW b \in Bookings, qrCheckin(b) \/ qrCheckout(b)
    PROVE  PaidInv'
<1>1. UNCHANGED <<ops, txn>> /\ row[b].status \in Served
    BY DEF qrCheckin, qrCheckout, paymentVars, Served
<1>2. row'[b].status \in {"IN_SERVICE", "DONE"}
  <2>1. row[b] \in Row
      BY DEF TypeOK
  <2>2. CASE qrCheckin(b)
      BY <2>1, <2>2 DEF qrCheckin, TypeOK, Row
  <2>3. CASE qrCheckout(b)
      BY <2>1, <2>3 DEF qrCheckout, TypeOK, Row
  <2> QED
      BY <2>2, <2>3
<1>3. \A x \in Bookings : x # b => row'[x] = row[x]
    BY DEF qrCheckin, qrCheckout, TypeOK
<1> QED
    BY <1>1, <1>2, <1>3, PaidLocked

\* What a handler reads and changes is served only if the row was.
LEMMA PaidRead ==
    ASSUME TypeOK, PaidInv, NEW h \in Handlers, NEW kind, NEW B \in SUBSET Bookings, NEW changed,
           Read(h, kind, B, changed),
           \A b \in B : changed[b].status \in Served => row[b].status \in Served
    PROVE  PaidInv'
<1> SUFFICES ASSUME NEW b \in Bookings, ~Single(b) PROVE PaidForGood(b)'
    BY DEF PaidInv, Single
<1>1. PaidForGood(b) /\ UNCHANGED <<row, txn>>
    BY DEF PaidInv, Read, paymentVars
<1>2. \A g \in Handlers \ {h} : ops'[g] = ops[g]
    BY DEF Read, TypeOK
<1>3. ops'[h].cols[b] = {} /\ ops'[h].snap[b] = IF b \in B THEN changed[b] ELSE NoRow
    BY DEF Read, TypeOK
<1>4. ops'[h].snap[b].status \in Served => txn[b] = "SUCCESS"
    BY <1>1, <1>3 DEF PaidForGood, NoRow, Served
<1> QED
    BY <1>1, <1>2, <1>3, <1>4 DEF PaidForGood

\* A save compares what was read and writes of it the status, if there is one.
LEMMA PaidSave ==
    ASSUME TypeOK, PaidInv, NEW h \in Handlers, saveDiff(h) \/ saveUpdate(h)
    PROVE  PaidInv'
<1> SUFFICES ASSUME NEW b \in Bookings, ~Single(b) PROVE PaidForGood(b)'
    BY DEF PaidInv, Single
<1>1. PaidForGood(b) /\ UNCHANGED txn /\ row[b] \in Row
    BY DEF PaidInv, saveDiff, saveUpdate, paymentVars, TypeOK
<1>2. \A g \in Handlers \ {h} : ops'[g] = ops[g]
    BY DEF saveDiff, saveUpdate, TypeOK
<1>3. CASE saveDiff(h)
  <2> DEFINE differing == [x \in Bookings |->
                            IF ops[h].snap[x].status = "NONE" THEN {}
                            ELSE {c \in Columns : ops[h].snap[x][c] # row[x][c]}]
  <2>1. ops[h] \in Op /\ UNCHANGED row
        /\ ops'[h] = [[ops[h] EXCEPT !.phase = "diffed"] EXCEPT !.cols = differing]
      BY <1>3 DEF saveDiff, TypeOK
  <2>2. ops[h].snap[b].status = "NONE" => differing[b] = {}
      OBVIOUS
  <2> HIDE DEF differing
  <2>3. ops'[h].snap = ops[h].snap /\ ops'[h].cols = differing
      BY <2>1 DEF Op
  <2> QED
      BY <1>1, <1>2, <2>1, <2>2, <2>3 DEF PaidForGood
<1>4. CASE saveUpdate(h)
  <2>1. row'[b] = Merge(row[b], ops[h].snap[b], ops[h].cols[b]) /\ ops'[h] = Idle
      BY <1>4 DEF saveUpdate, TypeOK
  <2>2. row'[b].status = IF "status" \in ops[h].cols[b] THEN ops[h].snap[b].status ELSE row[b].status
      BY <1>1, <2>1 DEF Merge, Row
  <2>3. ops'[h].snap[b].status = "NONE" /\ ops'[h].cols[b] = {}
      BY <2>1 DEF Idle, NoRows, NoRow
  <2> QED
      BY <1>1, <1>2, <2>2, <2>3 DEF PaidForGood, Served
<1> QED
    BY <1>3, <1>4

LEMMA PaidHandle ==
    ASSUME TypeOK, PaidInv, NEW h \in Handlers, Handle(h)
    PROVE  PaidInv'
<1>1. ASSUME NEW b \in Bookings, NEW slot \in Slots, reschedule(h, b, slot)
      PROVE  PaidInv'
  <2> DEFINE changed == [x \in Bookings |-> Rescheduled(row[x], slot, Fresh(x))]
  <2>1. changed[b].status = IF row[b].status = "NO_SHOW" THEN "CONFIRMED" ELSE row[b].status
      BY DEF Rescheduled, TypeOK, Row
  <2>2. Read(h, "reschedule", {b}, changed)
      BY <1>1 DEF reschedule
  <2> HIDE DEF changed
  <2> QED
      BY <2>1, <2>2, PaidRead DEF Served
<1>2. ASSUME NEW B \in SUBSET Bookings, NEW kind, Read(h, kind, B, CancelledRows)
      PROVE  PaidInv'
  <2>1. \A b \in Bookings : CancelledRows[b].status = "CANCELLED"
      BY DEF CancelledRows, TypeOK, Row
  <2> QED
      BY <1>2, <2>1, PaidRead DEF Served
<1>3. ASSUME NEW B \in SUBSET Bookings, NEW kind, Read(h, kind, {b \in B : Expired(row[b])}, NoShowRows)
      PROVE  PaidInv'
  <2>1. \A b \in {x \in B : Expired(row[x])} : row[b].status \in Served
      BY DEF Expired, Served
  <2>2. {b \in B : Expired(row[b])} \in SUBSET Bookings
      OBVIOUS
  <2> QED
      BY <1>3, <2>1, <2>2, PaidRead
<1>4. CASE \E b \in Bookings : cancel(h, b)
    BY <1>2, <1>4 DEF cancel
<1>5. CASE \/ \E b \in Bookings : findOne(h, b)
           \/ \E client \in Clients : userBookingsByStatus(h, client)
           \/ \E page \in SUBSET Bookings : findByProvider(h, page)
  <2>1. \E B \in SUBSET Bookings : markMissed(h, B)
    <3>1. \A client \in Clients : UNION {c \in Carts : ClientOf[c] = client} \in SUBSET Bookings
        BY ConstantsAssumption DEF ConstantsAssumption
    <3> QED
        BY <1>5, <3>1 DEF findOne, userBookingsByStatus, findByProvider
  <2> QED
      BY <1>3, <2>1 DEF markMissed
<1>6. CASE markExpiredConfirmedBookings(h)
    BY <1>3, <1>6 DEF markExpiredConfirmedBookings
<1>7. CASE cancelStalePendingBookings(h)
    BY <1>2, <1>7 DEF cancelStalePendingBookings
<1> QED
    BY <1>1, <1>4, <1>5, <1>6, <1>7, PaidSave DEF Handle

LEMMA PaidCrash ==
    ASSUME PaidInv, crash
    PROVE  PaidInv'
<1> SUFFICES ASSUME NEW b \in Bookings, ~Single(b) PROVE PaidForGood(b)'
    BY DEF PaidInv, Single
<1>1. PaidForGood(b)
    BY DEF PaidInv
<1> QED
    BY <1>1 DEF PaidForGood, crash, Idle, NoRows, NoRow, Served

LEMMA PaidStep ==
    ASSUME TypeOK, PaidInv, [Next]_vars
    PROVE  PaidInv'
<1>1. CASE \E b \in Bookings : applyCredit(b) \/ applyCreditFails(b) \/ reconcileBookingCredits(b)
    BY <1>1, PaidLocked DEF applyCredit, applyCreditFails, reconcileBookingCredits, paymentVars
<1>2. CASE tick \/ UNCHANGED vars
    BY <1>2, PaidLocked DEF tick, vars, paymentVars
<1> QED
    BY <1>1, <1>2, PaidCheckout, PaidPaymentEvent, PaidScan, PaidHandle, PaidCrash DEF Next, Run

\* The step itself: what takes a row from DONE to CONFIRMED is a save that holds the
\* status, or an event for a transaction that is not SUCCESS.
LEMMA ReconfirmedBy ==
    ASSUME TypeOK, PaidInv, [Next]_vars, NEW b \in Bookings,
           row[b].status = "DONE", row'[b].status = "CONFIRMED"
    PROVE  \/ \E h \in Handlers : ops[h].phase = "diffed" /\ "status" \in ops[h].cols[b] /\ ops' # ops
           \/ txn[b] # "SUCCESS" /\ Single(b)
<1>1. row'[b] # row[b]
    OBVIOUS
<1>2. CASE Checkout
  <2>1. \A c \in Carts : b \in c => ~NotBooked(c)
      BY DEF NotBooked
  <2>2. ASSUME NEW c \in Carts, NEW slot \in [c -> Slots],
               initiateCheckout(c, slot) \/ initiateBulkCheckout(c, slot)
        PROVE  row'[b] = row[b]
    <3>1. b \notin c
        BY <2>1, <2>2 DEF initiateCheckout, initiateBulkCheckout
    <3> QED
        BY <2>2, <3>1
        DEF initiateCheckout, initiateBulkCheckout, checkoutWithWallet, bulkCheckoutWithWallet,
            checkoutWithExternalProvider, bulkCheckoutWithExternalProvider, bookFromWallet, bookPending
  <2> QED
      BY <1>1, <1>2, <2>2 DEF Checkout, storeExternalPaymentId, initiationEnds, providerReports
<1>3. CASE \E e \in sent : applyPaymentEvent(e)
  <2>1. txn[b] # "SUCCESS"
      BY <1>1, <1>3 DEF applyPaymentEvent, applyBookingPaymentEvent, confirmBookings, failBookings
  <2> QED
      BY <2>1 DEF PaidInv, PaidForGood, Served
<1>4. CASE \E x \in Bookings : qrCheckin(x) \/ qrCheckout(x)
  <2>1. PICK x \in Bookings : qrCheckin(x) \/ qrCheckout(x)
      BY <1>4
  <2>2. row'[x].status \in {"IN_SERVICE", "DONE"} /\ \A y \in Bookings : y # x => row'[y] = row[y]
      BY <2>1 DEF qrCheckin, qrCheckout, TypeOK, Row
  <2> QED
      BY <1>1, <2>2
<1>5. ASSUME NEW h \in Handlers, saveUpdate(h)
      PROVE  ops[h].phase = "diffed" /\ "status" \in ops[h].cols[b] /\ ops' # ops
  <2>1. row'[b] = Merge(row[b], ops[h].snap[b], ops[h].cols[b]) /\ row[b] \in Row
      BY <1>5 DEF saveUpdate, TypeOK
  <2>2. row'[b].status = IF "status" \in ops[h].cols[b] THEN ops[h].snap[b].status ELSE row[b].status
      BY <2>1 DEF Merge, Row
  <2>3. ops[h].phase = "diffed" /\ ops'[h].phase = "idle"
      BY <1>5 DEF saveUpdate, TypeOK, Idle
  <2> QED
      BY <2>2, <2>3
<1>6. ASSUME NEW h \in Handlers, Handle(h), ~saveUpdate(h)
      PROVE  FALSE
    BY <1>1, <1>6 DEF Handle, reschedule, cancel, findOne, userBookingsByStatus, findByProvider, markMissed,
                      markExpiredConfirmedBookings, cancelStalePendingBookings, saveDiff, Read
<1>7. CASE \/ \E x \in Bookings : applyCredit(x) \/ applyCreditFails(x) \/ reconcileBookingCredits(x)
           \/ tick \/ crash \/ UNCHANGED vars
    BY <1>1, <1>7 DEF applyCredit, applyCreditFails, reconcileBookingCredits, tick, crash, vars
<1> QED
    BY <1>2, <1>3, <1>4, <1>5, <1>6, <1>7 DEF Next, Run

\* However often a success is delivered, and whatever else is under way, a finished
\* booking is confirmed again only by the save of a row that was read earlier, or
\* where a single checkout stored the provider's id over a payment that had succeeded.
THEOREM FinishedStaysFinished == Spec => DoneNotReconfirmed
<1>1. ASSUME TypeOK, PaidInv, [Next]_vars
      PROVE  \A b \in Bookings :
               row[b].status = "DONE" /\ row'[b].status = "CONFIRMED" =>
                   \/ \E h \in Handlers : ops[h].phase = "diffed" /\ "status" \in ops[h].cols[b] /\ ops' # ops
                   \/ txn[b] # "SUCCESS" /\ \E c \in Carts : Cardinality(c) = 1 /\ b \in c
    BY <1>1, ReconfirmedBy DEF Single
<1> QED
    BY <1>1, PaidInit, PaidStep, TypeInvariant, PTL DEF Spec, DoneNotReconfirmed

-------------------------------------------------------------------------------
(***************************************************************************)
(* With the job that frees workers: it reads without a lock and writes     *)
(* beside every other handler, yet what the lifecycle guarantees alone it  *)
(* guarantees with the job.                                                *)
(***************************************************************************)

\* To the bookings a step of the job is a stutter, or an UPDATE of workers.status.
LEMMA JobTouchesWorkers ==
    ASSUME TypeOK, releaseStaleBusyWorkers
    PROVE  /\ UNCHANGED <<row, paymentVars, now, minted, used, finished, ops, payoutVars, faults>>
           /\ worker' \in [Workers -> BOOLEAN]
<1>1. CASE readBusyWorkers \/ readServices
    BY <1>1 DEF readBusyWorkers, readServices, vars, scanVars, TypeOK
<1>2. CASE freeStaleWorkers
    BY <1>2 DEF freeStaleWorkers, TypeOK
<1> QED
    BY <1>1, <1>2 DEF releaseStaleBusyWorkers

\* A step of the composition is one of the bookings, or one of the job.
LEMMA ReleaseSteps ==
    ASSUME [ReleaseNext]_allVars
    PROVE  [Next]_vars \/ releaseStaleBusyWorkers
    BY DEF ReleaseNext, Next, allVars

LEMMA ReleaseTypeStep ==
    ASSUME TypeOK, [ReleaseNext]_allVars
    PROVE  TypeOK'
<1>1. CASE releaseStaleBusyWorkers
    BY <1>1, JobTouchesWorkers DEF TypeOK, paymentVars, payoutVars
<1> QED
    BY <1>1, ReleaseSteps, TypeStep

LEMMA ReleaseEscrowStep ==
    ASSUME TypeOK, EscrowInv, [ReleaseNext]_allVars
    PROVE  EscrowInv'
<1>1. CASE releaseStaleBusyWorkers
    BY <1>1, JobTouchesWorkers DEF EscrowInv, ServedOnlyIfCharged, paymentVars, payoutVars
<1> QED
    BY <1>1, ReleaseSteps, EscrowStep

\* The job carries ids from one query to the next, never an empty list.
LEMMA SweepStep ==
    ASSUME SweepTypeOK, [ReleaseNext]_allVars
    PROVE  SweepTypeOK'
<1>1. CASE UNCHANGED sweep
    BY <1>1 DEF SweepTypeOK
<1>2. CASE sweep' = NoSweep
    BY <1>2 DEF SweepTypeOK, NoSweep, Phase
<1>3. CASE readBusyWorkers
    BY <1>3 DEF readBusyWorkers, SweepTypeOK, Phase
<1>4. CASE readServices
    BY <1>4 DEF readServices, SweepTypeOK, NoSweep, Phase
<1> QED
    BY <1>1, <1>2, <1>3, <1>4 DEF ReleaseNext, releaseStaleBusyWorkers, freeStaleWorkers, allVars

\* With the job too, the state of the bookings is of its type.
THEOREM ReleaseTypes == ReleaseSpec => []TypeOK
    BY TypeInit, ReleaseTypeStep, PTL DEF ReleaseSpec, ReleaseInit

\* The job writes no entry and no balance: the ledger balances beside it too.
THEOREM ReleaseKeepsLedger == ReleaseSpec => []LedgerBalances
<1>1. ASSUME TypeOK, LedgerInv, [ReleaseNext]_allVars
      PROVE  LedgerInv'
  <2>1. CASE releaseStaleBusyWorkers
      BY <1>1, <2>1, JobTouchesWorkers, LedgerKept DEF payoutVars
  <2> QED
      BY <1>1, <2>1, ReleaseSteps, LedgerStep
<1>2. TypeOK /\ LedgerInv => LedgerBalances
    BY EntriesAreDue DEF LedgerInv, LedgerBalances
<1> QED
    BY <1>1, <1>2, LedgerInit, ReleaseTypes, PTL DEF ReleaseSpec, ReleaseInit

\* Neither of the job's queries, nor its UPDATE, is made for an empty list of ids, and
\* they are ids of workers, wherever a restart cuts the job off.
THEOREM SweepTypes == ReleaseSpec => []SweepTypeOK
<1>1. ReleaseInit => SweepTypeOK
    BY DEF ReleaseInit, SweepTypeOK, NoSweep, Phase
<1> QED
    BY <1>1, SweepStep, PTL DEF ReleaseSpec

\* The job undoes nothing of the invariant of the lifecycle: no booking is served
\* unpaid, and a credit waits only for a finished service.
THEOREM ReleaseKeepsEscrow == ReleaseSpec => []EscrowInv
    BY EscrowInit, ReleaseEscrowStep, ReleaseTypes, PTL DEF ReleaseSpec, ReleaseInit

\* The bookings and the job together implement the escrow: a worker freed too early
\* or too late moves no money.
THEOREM ReleaseImplementsEscrow == ReleaseSpec => ImplementsEscrow
<1>1. ASSUME TypeOK, EscrowInv, [ReleaseNext]_allVars
      PROVE  [E!Next]_(E!escrowVars)
    <2>1. CASE releaseStaleBusyWorkers
        BY <1>1, <2>1, JobTouchesWorkers, EscrowStutters DEF paymentVars, payoutVars
    <2> QED
        BY <1>1, <2>1, ReleaseSteps, EscrowSimulation
<1> QED
    BY <1>1, EscrowStartsEmpty, ReleaseTypes, ReleaseKeepsEscrow, PTL
       DEF ReleaseSpec, ReleaseInit, ImplementsEscrow, E!Spec
=============================================================================
