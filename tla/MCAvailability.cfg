SPECIFICATION MCSpec
CONSTANTS
    w1 = w1
    owner = owner
    b1 = b1
    b2 = b2
    p1 = p1
    k1 = k1
    k2 = k2
    Workers = {w1}
    Owner = owner
    Services = {1, 2}
    Duration <- MCDuration
    Buffer <- MCBuffer
    DEFAULT_BUFFER = 1
    Step = 2
    Day = 8
    Windows <- MCWindows
    Bookings = {b1, b2}
    BusyPeriods = {p1}
    Calls = {k1, k2}
    MaxEdits = 2
INVARIANTS
    TypeOK
    KnownBookingsKeptApart
    KnownBusyKeptFree
PROPERTIES
    OffersMatchReference
CHECK_DEADLOCK FALSE
