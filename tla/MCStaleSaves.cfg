SPECIFICATION Spec
CONSTANTS
    b1 = b1
    b2 = b2
    b3 = b3
    shop = shop
    client = client
    w1 = w1
    none = none
    purse = 19
    Bookings = {b1, b2, b3}
    Carts <- MCCarts
    Paygate <- MCCarts
    Handlers = {"reschedule1", "lazyNoShow1", "markExpired", "cancel", "cancelStale"}
    MaxTime = 3
    LastCheckout = 0
    MaxTokens = 3
    MaxCalls = 2
    MaxFaults = 1
    Slots = {0, 1}
    DURATION = 1
    CHECKIN_GRACE = 0
    NO_SHOW_GRACE = 0
    PENDING_GRACE = 1
    MAX_AGE = 2
    Shops = {shop}
    ShopOf <- MCShopOf
    Amount <- MCAmount
    Clients = {client}
    ClientOf <- MCClientOf
    Total <- MCTotal
    Funds <- MCFunds
    Workers = {w1}
    WorkerOf <- MCWorkerOf
    NoWorker = none
    Kind <- MCKind
CONSTRAINT Bound
INVARIANTS
    EscrowInv
    ServedOnlyIfCharged
PROPERTIES
    ImplementsEscrow
    DoneNotReconfirmed
    UsedTokenStaysOut
CHECK_DEADLOCK FALSE
