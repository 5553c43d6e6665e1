SPECIFICATION MCSpec
CONSTANTS
    deposit = deposit
    subscription = subscription
    m1 = m1
    m2 = m2
    m3 = m3
    Payments = {deposit, subscription, m1, m2, m3}
    Motif <- MCMotif
    Groups <- MCCart
    Provider <- WidgetAndPaygate
    MaxFaults = 1
INVARIANTS
    GrantInv
    BulkTogether
    OrdersFollowPayments
PROPERTIES
    PaidSettles
CHECK_DEADLOCK FALSE
