SPECIFICATION ReleaseFairSpec
CONSTANTS
    b1 = b1
    b2 = b2
    shop = shop
    client = client
    w1 = w1
    none = none
    Bookings = {b1, b2}
    Carts <- MCCarts
    Paygate = {}
    Handlers = {}
    Kind <- MCKind
    MaxTime = 3
    LastCheckout = 0
    MaxTokens = 2
    MaxCalls = 2
    MaxFaults = 1
    Slots = {0}
    DURATION = 1
    CHECKIN_GRACE = 0
    NO_SHOW_GRACE = 0
    PENDING_GRACE = 1
    MAX_AGE = 2
    STALE_IN_SERVICE_GRACE = 0
    Shops = {shop}
    ShopOf <- MCShopOf
    Amount <- MCAmount
    Clients = {client}
    ClientOf <- MCClientOf
    Total <- MCTotal
    Funds <- MCFunds
    Workers = {w1}
    WorkerOf <- MCWorkerOf
    NoWorker = none
INVARIANTS
    TypeOK
    LedgerBalances
    SweepTypeOK
PROPERTIES
    BusyWorkerIsFreed
CHECK_DEADLOCK FALSE
