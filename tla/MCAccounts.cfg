SPECIFICATION MCSpec
CONSTANTS
    k1 = k1
    k2 = k2
    s1 = s1
    s2 = s2
    Calls = {k1, k2}
    Servers = {s1, s2}
    ServerOf <- MCServerOf
    Tokens = {1, 2, 3}
    Secrets = {1, 2, 3}
    Passwords = {1, 2}
    FirstPassword = 1
    DeviceRows = {1, 2}
    MaxLogins = 2
    MaxLogouts = 1
    MaxFaults = 1
INVARIANTS
    TypeOK
    RenewalIsCurrent
    LogoutRevokesAll
    LatestResetCodeWorks
PROPERTIES
    LoginIsEarned
    ReplacedStaysOut
CHECK_DEADLOCK FALSE
