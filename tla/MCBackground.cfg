SPECIFICATION MCSpec
CONSTANTS
    Appointments = {b1}
    Instances = {i1, i2}
    Runs = {r1, r2}
    REMINDER_MINUTES_BEFORE = 1
    CLAIM_TTL = 3
    DAY = 4
    UtcOffset = 1
    AppointmentTimes = {0, 4}
    MaxRun = 1
    LastMinute = 7
    MaxOutages = 1
    Shops = {s1}
    Editors = {e1}
    StatusRuns = {j1, j2}
    GradePoints = 10
    MaxEdits = 2
    MaxTurns = 1
    MaxAborts = 1
    Offers = {o1}
    Houses = {h1}
    HouseOf <- MCHouseOf
    Readers = {q1}
    Writers = {w1, w2}
    MaxVersions = 2
    MaxRedisFaults = 1
INVARIANTS
    TypeOK
    RemindedOnce
    RemindedInTime
    CacheStaleOnlyIfRaced
PROPERTIES
    AutoSettles
CHECK_DEADLOCK FALSE
