SPECIFICATION FairSpec
CONSTANTS
    deposit = deposit
    subscription = subscription
    m1 = m1
    m2 = m2
    Payments = {m1, m2}
    Motif <- MCMotif
    Groups <- MCCart
    Provider <- MCPaygate
    MaxFaults = 0
PROPERTIES
    PaidIsConfirmed
CHECK_DEADLOCK FALSE
