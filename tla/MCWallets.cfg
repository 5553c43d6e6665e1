SPECIFICATION MCSpec
CONSTANTS
    alice = alice
    bob = bob
    shop = shop
    Clients = {alice, bob}
    Shops = {shop}
    System = system
    Refs = {1, 2}
    Amounts = {1}
    Opening <- MCOpening
    Calls = {k1, k2}
    Admins = {m1}
    Nobody = nobody
    MaxFaults = 1
INVARIANTS
    TypeOK
    LedgerExplainsBalance
PROPERTIES
    MoneyFollowsStatus
    WithdrawalFinal
CHECK_DEADLOCK FALSE
