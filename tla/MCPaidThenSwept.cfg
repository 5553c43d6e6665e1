SPECIFICATION Spec
CONSTANTS
    b1 = b1
    b2 = b2
    shop = shop
    client = client
    w1 = w1
    none = none
    purse = 19
    Bookings = {b1}
    Carts <- MCSingle
    Paygate <- MCSingle
    Handlers = {"cancelStale"}
    MaxTime = 3
    LastCheckout = 0
    MaxTokens = 2
    MaxCalls = 1
    MaxFaults = 0
    Slots = {1}
    DURATION = 1
    CHECKIN_GRACE = 0
    NO_SHOW_GRACE = 0
    PENDING_GRACE = 1
    MAX_AGE = 2
    Shops = {shop}
    ShopOf <- MCShopOf
    Amount <- MCAmount
    Clients = {client}
    ClientOf <- MCClientOf
    Total <- MCTotal
    Funds <- MCFunds
    Workers = {w1}
    WorkerOf <- MCWorkerOf
    NoWorker = none
    Kind <- MCKind
PROPERTIES
    SweepSparesConfirmed
CHECK_DEADLOCK FALSE
