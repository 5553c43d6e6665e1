SPECIFICATION Spec
CONSTANTS
    deposit = deposit
    subscription = subscription
    m1 = m1
    m2 = m2
    Payments = {deposit}
    Motif <- MCMotif
    Groups <- MCAlone
    Provider <- MCPaygate
    MaxFaults = 0
INVARIANTS
    RepeatedSuccessIsSafe
CHECK_DEADLOCK FALSE
