-------------------------------- MODULE Accounts --------------------------------
(***************************************************************************)
(* One e-mail address: its account, the password, the single active        *)
(* session, the refresh tokens that renew it, a trusted device, the codes  *)
(* sent by mail and the reset of a forgotten password.                     *)
(*                                                                         *)
(* Every handler reads, awaits and writes without a transaction: a call is *)
(* suspended between the steps below.  Codes live in Redis, which may be   *)
(* unreachable; those of a reset also in the memory of the server that     *)
(* handled the request.                                                    *)
(***************************************************************************)
EXTENDS Integers, FiniteSets

CONSTANTS
    Calls,          \* handlers in flight
    Servers,
    ServerOf,       \* the server that handles a call
    Tokens,         \* bound: refresh tokens, in the order of their insertion
    Secrets,        \* bound: codes, device and reset tokens, in their order
    Passwords,      \* what a user may choose; the account begins with FirstPassword
    FirstPassword,
    DeviceRows,     \* bound: rows of trusted_devices for one device
    MaxLogins,      \* bound
    MaxLogouts,     \* bound
    MaxFaults       \* bound: restarts and changes of Redis' state

None == 0

ASSUME AccountsAssumption ==
    /\ ServerOf \in [Calls -> Servers]
    /\ Tokens \subseteq Nat \ {None}
    /\ Secrets \subseteq Nat \ {None}
    /\ DeviceRows \subseteq Nat \ {None}
    /\ Passwords \subseteq Nat \ {None}
    /\ FirstPassword \in Passwords
    /\ MaxLogins \in Nat /\ MaxLogouts \in Nat /\ MaxFaults \in Nat

Purposes == {"unused", "register", "login", "device", "reset", "resetToken"}
TokenState == {"unused", "valid", "revoked", "expired"}
Token == [state : TokenState, sid : Nat, minted : Nat]

Steps == {"idle", "rehash", "issue", "device", "touch", "signed", "findDevice", "saveDevice",
          "insertDevice", "consume", "create", "insert", "readUser", "rotate", "mint",
          "clear", "revoke", "save", "storeOtp", "mailOtp", "fallback", "deleteOtp", "forgetOtp",
          "storeToken", "reset", "drop", "forgetToken"}

\* What a suspended call knows.
Call == [step : Steps,
         then : Steps,              \* where it goes on
         secret : Secrets \union {None},
         pass : Passwords \union {None},
         token : Tokens \union {None},
         sid : Nat,                 \* the session it will name
         since : Nat,               \* history: the logins before it began
         row : DeviceRows \union {None}]
Idle == [step |-> "idle", then |-> "idle", secret |-> None, pass |-> None, token |-> None,
         sid |-> None, since |-> 0, row |-> None]

VARIABLES
    accounts,   \* rows of users under the address
    password,   \* the account's password and whether it is stored as plain text
    legacy,     \* history: whether it was, at the start
    active,     \* active_session_id
    logins,     \* session ids handed out
    token,      \* refresh_tokens, with the session id of the access token they came with
    device,     \* trusted_devices: the token of a row
    redis,      \* the code under each key, and the reset tokens
    up,         \* Redis answers
    memory,     \* each server's resetOtps and resetTokens
    call,
    purpose,    \* history: what a secret was issued for
    logouts,    \* history: completed logouts
    replaced,   \* history: passwords that another one has replaced
    latest,     \* history: the reset code mailed last, until it is used, expires or a
                \* new one is requested
    asked,      \* history: the code of a request under way that overlaps no other
    disturbed,  \* history: Redis has failed, or a newer code was deleted with an older
    faults

sessionVars == <<active, logins, token, logouts>>
codeVars == <<redis, memory, purpose, latest, asked, disturbed>>
passwordVars == <<password, replaced, legacy>>
vars == <<accounts, passwordVars, sessionVars, device, codeVars, up, call, faults>>

Store == [login : Secrets \union {None}, register : Secrets \union {None},
          reset : Secrets \union {None}, tokens : SUBSET Secrets]
Memory == [reset : Secrets \union {None}, tokens : SUBSET Secrets]

TypeOK ==
    /\ accounts \in Nat
    /\ password \in [value : Passwords, plain : BOOLEAN]
    /\ legacy \in BOOLEAN
    /\ active \in 0..logins /\ logins \in Nat
    /\ token \in [Tokens -> Token]
    /\ device \in [DeviceRows -> Secrets \union {None}]
    /\ redis \in Store
    /\ up \in BOOLEAN
    /\ memory \in [Servers -> Memory]
    /\ call \in [Calls -> Call]
    /\ \A k \in Calls : call[k].step = "mint" => /\ call[k].token # None
                                                /\ token[call[k].token].state = "revoked"
    /\ purpose \in [Secrets -> Purposes]
    /\ logouts \in Nat
    /\ replaced \subseteq Passwords
    /\ latest \in Secrets \union {None}
    /\ asked \in Secrets \union {None}
    /\ disturbed \in BOOLEAN
    /\ faults \in Nat

\* The address is free, or its account old enough for a password in plain text.
Init ==
    /\ accounts \in {0, 1}
    /\ legacy \in BOOLEAN
    /\ password = [value |-> FirstPassword, plain |-> legacy]
    /\ active = None /\ logins = 0 /\ logouts = 0
    /\ token = [t \in Tokens |-> [state |-> "unused", sid |-> None, minted |-> 0]]
    /\ device = [d \in DeviceRows |-> None]
    /\ redis = [login |-> None, register |-> None, reset |-> None, tokens |-> {}]
    /\ up = TRUE
    /\ memory = [s \in Servers |-> [reset |-> None, tokens |-> {}]]
    /\ call = [k \in Calls |-> Idle]
    /\ purpose = [c \in Secrets |-> "unused"]
    /\ replaced = {} /\ latest = None /\ asked = None /\ disturbed = FALSE
    /\ faults = 0

-------------------------------------------------------------------------------
(* Steps of a call.                                                        *)

At(k, step) == call[k].step = step
Begin(k, known) == At(k, "idle") /\ call' = [call EXCEPT ![k] = known]
Go(k, step) == call' = [call EXCEPT ![k].step = step]
End(k) == call' = [call EXCEPT ![k] = Idle]

Registered == accounts > 0
Fresh(c, use) ==
    /\ purpose[c] = "unused"
    /\ \A d \in Secrets : d < c => purpose[d] # "unused"
    /\ purpose' = [purpose EXCEPT ![c] = use]

-------------------------------------------------------------------------------
(* Sign-up.                                                                *)

\* Nobody has the address at this moment; the column is not unique.
create(k) ==
    /\ accounts = 0
    /\ Begin(k, [Idle EXCEPT !.step = "insert"])
    /\ UNCHANGED <<accounts, passwordVars, sessionVars, device, codeVars, up, faults>>

insert(k) ==
    /\ At(k, "insert")
    /\ accounts' = accounts + 1
    /\ End(k)
    /\ UNCHANGED <<passwordVars, sessionVars, device, codeVars, up, faults>>

\* setex replaces an older code; without Redis nothing is stored.
generateAuthOtp(c, use) ==
    /\ Fresh(c, use)
    /\ redis' = IF up THEN [redis EXCEPT ![use] = c] ELSE redis
    /\ UNCHANGED <<memory, latest, asked, disturbed>>

requestRegisterOtp(c) ==
    /\ accounts = 0
    /\ generateAuthOtp(c, "register")
    /\ UNCHANGED <<accounts, passwordVars, sessionVars, device, up, call, faults>>

\* Mutated form: one key for the codes of sign-up and login.
StoredAnyCode(use) ==
    IF ~up THEN None
    ELSE IF use = "login" /\ redis.register # None THEN redis.register ELSE redis[use]

Stored(use) == IF up THEN redis[use] ELSE None

\* The stored code is read and equals the one that was typed in.
readAuthOtp(k, c, use) ==
    /\ c # None
    /\ Stored(use) = c
    /\ Begin(k, [Idle EXCEPT !.step = "consume", !.secret = c, !.since = logins,
                             !.then = IF use = "login" THEN "issue" ELSE "create"])
    /\ UNCHANGED <<accounts, passwordVars, sessionVars, device, codeVars, up, faults>>

verifyRegisterOtpAndCreate(k, c) == readAuthOtp(k, c, "register")

\* The rest of consumeAuthOtp: the key is deleted, if Redis answers.
consumeAuthOtp(k) ==
    /\ At(k, "consume")
    /\ redis' = IF ~up THEN redis
                ELSE [redis EXCEPT ![IF call[k].then = "issue" THEN "login" ELSE "register"] = None]
    /\ IF call[k].then = "create" /\ accounts > 0
       THEN End(k)
       ELSE Go(k, IF call[k].then = "create" THEN "insert" ELSE "issue")
    /\ UNCHANGED <<accounts, passwordVars, sessionVars, device, memory, purpose, latest, asked,
                   disturbed, up, faults>>

-------------------------------------------------------------------------------
(* Login.                                                                  *)

\* Mutated form: every login saves the row that it read.
validateAndSave(k, p, then) ==
    /\ Registered
    /\ p = password.value
    /\ Begin(k, [Idle EXCEPT !.step = "rehash", !.then = then, !.pass = p, !.since = logins])
    /\ UNCHANGED <<accounts, passwordVars, sessionVars, device, codeVars, up, faults>>

\* The password is right; if it was stored as plain text it will be hashed.
validateCredentials(k, p, then) ==
    /\ Registered
    /\ p = password.value
    /\ Begin(k, [Idle EXCEPT !.step = IF password.plain THEN "rehash" ELSE then,
                             !.then = then, !.pass = p, !.since = logins])
    /\ UNCHANGED <<accounts, passwordVars, sessionVars, device, codeVars, up, faults>>

SetPassword(p) ==
    /\ password' = [value |-> p, plain |-> FALSE]
    /\ replaced' = IF p = password.value THEN replaced ELSE replaced \union {password.value}
    /\ UNCHANGED legacy

\* The row is saved with the password it was read with, now hashed.
rehash(k) ==
    /\ At(k, "rehash")
    /\ SetPassword(call[k].pass)
    /\ Go(k, call[k].then)
    /\ UNCHANGED <<accounts, sessionVars, device, codeVars, up, faults>>

signin(k, p) == validateCredentials(k, p, "issue")
requestLoginOtp(k, p) == validateCredentials(k, p, "device")

\* Not trusted: a code is sent.
sendLoginOtp(k, c) ==
    /\ At(k, "device")
    /\ generateAuthOtp(c, "login")
    /\ End(k)
    /\ UNCHANGED <<accounts, passwordVars, sessionVars, device, up, faults>>

isDeviceTrusted(k, d) ==
    /\ At(k, "device")
    /\ device[d] # None
    /\ call' = [call EXCEPT ![k].step = "touch", ![k].row = d, ![k].secret = device[d]]
    /\ UNCHANGED <<accounts, passwordVars, sessionVars, device, codeVars, up, faults>>

\* lastUsedAt is saved, with the token hash that was read.
touchDevice(k) ==
    /\ At(k, "touch")
    /\ device' = [device EXCEPT ![call[k].row] = call[k].secret]
    /\ Go(k, "issue")
    /\ UNCHANGED <<accounts, passwordVars, sessionVars, codeVars, up, faults>>

verifyLoginOtp(k, c) == Registered /\ readAuthOtp(k, c, "login")

\* The new session supersedes the one before.
issueSession(k) ==
    /\ At(k, "issue")
    /\ logins < MaxLogins
    /\ logins' = logins + 1
    /\ active' = logins + 1
    /\ call' = [call EXCEPT ![k].step = "signed", ![k].sid = logins + 1]
    /\ UNCHANGED <<accounts, passwordVars, token, logouts, device, codeVars, up, faults>>

Insert(t, sid) ==
    /\ token[t].state = "unused"
    /\ \A u \in Tokens : u < t => token[u].state # "unused"
    /\ token' = [token EXCEPT ![t] = [state |-> "valid", sid |-> sid, minted |-> logouts]]

\* The refresh token that goes with a new session; the device is remembered if the
\* user wants it, and only after a code.
issueRefreshToken(k, t, remember) ==
    /\ At(k, "signed")
    /\ Insert(t, call[k].sid)
    /\ IF remember /\ call[k].then = "issue" /\ call[k].secret # None
       THEN Go(k, "findDevice") ELSE End(k)
    /\ UNCHANGED <<accounts, passwordVars, active, logins, logouts, device, codeVars, up, faults>>

rememberDevice(k) ==
    /\ At(k, "findDevice")
    /\ \/ \E d \in DeviceRows :
             /\ device[d] # None
             /\ call' = [call EXCEPT ![k].step = "saveDevice", ![k].row = d]
       \/ /\ \A d \in DeviceRows : device[d] = None
          /\ Go(k, "insertDevice")
    /\ UNCHANGED <<accounts, passwordVars, sessionVars, device, codeVars, up, faults>>

saveDevice(k, d, c) ==
    /\ \/ At(k, "saveDevice") /\ call[k].row = d
       \/ At(k, "insertDevice") /\ device[d] = None
    /\ Fresh(c, "device")
    /\ device' = [device EXCEPT ![d] = c]
    /\ End(k)
    /\ UNCHANGED <<accounts, passwordVars, sessionVars, redis, memory, latest, asked, disturbed, up,
                   faults>>

-------------------------------------------------------------------------------
(* Renewal and logout.                                                     *)

refreshAccessToken(k, t) ==
    /\ token[t].state = "valid"
    /\ Begin(k, [Idle EXCEPT !.step = "readUser", !.token = t, !.since = logins])
    /\ UNCHANGED <<accounts, passwordVars, sessionVars, device, codeVars, up, faults>>

\* Mutated form: the session id the old pair was issued with is used again.
readOldSession(k) ==
    /\ At(k, "readUser")
    /\ call' = [call EXCEPT ![k].step = "rotate", ![k].sid = token[call[k].token].sid]
    /\ UNCHANGED <<accounts, passwordVars, sessionVars, device, codeVars, up, faults>>

readUser(k) ==
    /\ At(k, "readUser")
    /\ call' = [call EXCEPT ![k].step = "rotate", ![k].sid = active]
    /\ UNCHANGED <<accounts, passwordVars, sessionVars, device, codeVars, up, faults>>

\* Mutated form: the new pair is issued first.
rotateLater(k) ==
    /\ At(k, "rotate")
    /\ Go(k, "mint")
    /\ UNCHANGED <<accounts, passwordVars, sessionVars, device, codeVars, up, faults>>

\* The token that was presented is revoked, whatever became of it since.
rotate(k) ==
    /\ At(k, "rotate")
    /\ token' = [token EXCEPT ![call[k].token].state = "revoked"]
    /\ Go(k, "mint")
    /\ UNCHANGED <<accounts, passwordVars, active, logins, logouts, device, codeVars, up, faults>>

mint(k, t) ==
    /\ At(k, "mint")
    /\ Insert(t, call[k].sid)
    /\ End(k)
    /\ UNCHANGED <<accounts, passwordVars, active, logins, logouts, device, codeVars, up, faults>>

tokenExpires(t) ==
    /\ token[t].state = "valid"
    /\ token' = [token EXCEPT ![t].state = "expired"]
    /\ UNCHANGED <<accounts, passwordVars, active, logins, logouts, device, codeVars, up, call, faults>>

\* The caller names his session, or none at all.
clearSession(k, sid) ==
    /\ Registered
    /\ logouts < MaxLogouts
    /\ sid = None \/ sid = active
    /\ Begin(k, [Idle EXCEPT !.step = "clear", !.sid = sid])
    /\ UNCHANGED <<accounts, passwordVars, sessionVars, device, codeVars, up, faults>>

\* By now the active session may be another one.
clearActive(k) ==
    /\ At(k, "clear")
    /\ active' = None
    /\ Go(k, "revoke")
    /\ UNCHANGED <<accounts, passwordVars, logins, token, logouts, device, codeVars, up, faults>>

Revoked == [t \in Tokens |-> IF token[t].state \in {"valid", "expired"}
                             THEN [token[t] EXCEPT !.state = "revoked"] ELSE token[t]]

\* Mutated form: only the tokens of the session that is left are revoked.
revokeOwnRefreshTokens(k) ==
    /\ At(k, "revoke")
    /\ token' = [t \in Tokens |-> IF token[t].sid = call[k].sid THEN Revoked[t] ELSE token[t]]
    /\ logouts' = logouts + 1
    /\ End(k)
    /\ UNCHANGED <<accounts, passwordVars, active, logins, device, codeVars, up, faults>>

revokeAllRefreshTokens(k) ==
    /\ At(k, "revoke")
    /\ token' = Revoked
    /\ logouts' = logouts + 1
    /\ End(k)
    /\ UNCHANGED <<accounts, passwordVars, active, logins, device, codeVars, up, faults>>

-------------------------------------------------------------------------------
(* Passwords.                                                              *)

\* bcrypt fails on a password in plain text.
changePassword(k, current, new) ==
    /\ Registered
    /\ password = [value |-> current, plain |-> FALSE]
    /\ Begin(k, [Idle EXCEPT !.step = "save", !.pass = new])
    /\ UNCHANGED <<accounts, passwordVars, sessionVars, device, codeVars, up, faults>>

\* Set for a user by his id: resetPassword, and update when it has a password.
resetPassword(k, new) ==
    /\ Registered
    /\ Begin(k, [Idle EXCEPT !.step = "save", !.pass = new])
    /\ UNCHANGED <<accounts, passwordVars, sessionVars, device, codeVars, up, faults>>

savePassword(k) ==
    /\ At(k, "save")
    /\ SetPassword(call[k].pass)
    /\ End(k)
    /\ UNCHANGED <<accounts, sessionVars, device, codeVars, up, faults>>

AskingReset(k) == call[k].step \in {"storeOtp", "mailOtp"}

\* The code goes to the memory of the server, then to Redis, then to the user.
requestPasswordReset(k, c) ==
    /\ Registered
    /\ Fresh(c, "reset")
    /\ Begin(k, [Idle EXCEPT !.step = "storeOtp", !.secret = c])
    /\ memory' = [memory EXCEPT ![ServerOf[k]].reset = c]
    /\ latest' = None
    /\ asked' = IF \E j \in Calls : AskingReset(j) THEN None ELSE c
    /\ UNCHANGED <<accounts, passwordVars, sessionVars, device, redis, disturbed, up, faults>>

\* Mutated form: a code that is still there is not replaced.
storeFirstOtp(k) ==
    /\ At(k, "storeOtp")
    /\ redis' = IF up /\ redis.reset = None THEN [redis EXCEPT !.reset = call[k].secret] ELSE redis
    /\ Go(k, "mailOtp")
    /\ UNCHANGED <<accounts, passwordVars, sessionVars, device, memory, purpose, latest, asked,
                   disturbed, up, faults>>

storeResetOtp(k) ==
    /\ At(k, "storeOtp")
    /\ redis' = IF up THEN [redis EXCEPT !.reset = call[k].secret] ELSE redis
    /\ Go(k, "mailOtp")
    /\ UNCHANGED <<accounts, passwordVars, sessionVars, device, memory, purpose, latest, asked,
                   disturbed, up, faults>>

\* A code that could not be sent stays where it is stored.
mailResetOtp(k, sent) ==
    LET c == call[k].secret IN
    /\ At(k, "mailOtp")
    /\ latest' = IF sent /\ asked = c THEN c ELSE latest
    /\ asked' = IF asked = c THEN None ELSE asked
    /\ End(k)
    /\ UNCHANGED <<accounts, passwordVars, sessionVars, device, redis, memory, purpose, disturbed,
                   up, faults>>

\* Redis is read first; if it has no code, this server's memory.
verifyResetOtp(k, c) ==
    /\ c # None
    /\ Stored("reset") \in {c, None}
    /\ Begin(k, [Idle EXCEPT !.step = IF Stored("reset") = c THEN "deleteOtp" ELSE "fallback",
                             !.secret = c])
    /\ UNCHANGED <<accounts, passwordVars, sessionVars, device, codeVars, up, faults>>

readOwnMemory(k) ==
    /\ At(k, "fallback")
    /\ IF memory[ServerOf[k]].reset = call[k].secret THEN Go(k, "deleteOtp") ELSE End(k)
    /\ UNCHANGED <<accounts, passwordVars, sessionVars, device, codeVars, up, faults>>

\* Whatever code is there by now is deleted, in Redis and then in memory.
deleteResetOtp(k) ==
    LET c == call[k].secret IN
    /\ At(k, "deleteOtp")
    /\ redis' = IF up THEN [redis EXCEPT !.reset = None] ELSE redis
    /\ latest' = IF latest = c THEN None ELSE latest
    /\ asked' = IF asked = c THEN None ELSE asked
    /\ disturbed' = (disturbed \/ redis.reset \notin {None, c})
    /\ Go(k, "forgetOtp")
    /\ UNCHANGED <<accounts, passwordVars, sessionVars, device, memory, purpose, up, faults>>

forgetResetOtp(k, rt) ==
    LET s == ServerOf[k] IN
    /\ At(k, "forgetOtp")
    /\ Fresh(rt, "resetToken")
    /\ memory' = [memory EXCEPT ![s] = [reset |-> None, tokens |-> memory[s].tokens \union {rt}]]
    /\ call' = [call EXCEPT ![k].step = "storeToken", ![k].secret = rt]
    /\ UNCHANGED <<accounts, passwordVars, sessionVars, device, redis, latest, asked, disturbed,
                   up, faults>>

storeResetToken(k) ==
    /\ At(k, "storeToken")
    /\ redis' = IF up THEN [redis EXCEPT !.tokens = @ \union {call[k].secret}] ELSE redis
    /\ End(k)
    /\ UNCHANGED <<accounts, passwordVars, sessionVars, device, memory, purpose, latest, asked,
                   disturbed, up, faults>>

Redeemable(s, rt) == (up /\ rt \in redis.tokens) \/ rt \in memory[s].tokens

\* The user has the token from the answer of the call that made it.
resetPasswordWithToken(k, rt, new) ==
    /\ \A j \in Calls : At(j, "storeToken") => call[j].secret # rt
    /\ Redeemable(ServerOf[k], rt)
    /\ Begin(k, [Idle EXCEPT !.step = "reset", !.secret = rt, !.pass = new])
    /\ UNCHANGED <<accounts, passwordVars, sessionVars, device, codeVars, up, faults>>

saveReset(k) ==
    /\ At(k, "reset")
    /\ SetPassword(call[k].pass)
    /\ Go(k, "drop")
    /\ UNCHANGED <<accounts, sessionVars, device, codeVars, up, faults>>

dropResetToken(k) ==
    /\ At(k, "drop")
    /\ redis' = IF up THEN [redis EXCEPT !.tokens = @ \ {call[k].secret}] ELSE redis
    /\ Go(k, "forgetToken")
    /\ UNCHANGED <<accounts, passwordVars, sessionVars, device, memory, purpose, latest, asked,
                   disturbed, up, faults>>

forgetResetToken(k) ==
    /\ At(k, "forgetToken")
    /\ memory' = [memory EXCEPT ![ServerOf[k]].tokens = @ \ {call[k].secret}]
    /\ End(k)
    /\ UNCHANGED <<accounts, passwordVars, sessionVars, device, redis, purpose, latest, asked,
                   disturbed, up, faults>>

-------------------------------------------------------------------------------
(* Time and faults.                                                        *)

\* The lifetime of a code or token in Redis and in memory is the same.
secretExpires(c) ==
    /\ purpose[c] # "unused"
    /\ redis' = [login |-> IF redis.login = c THEN None ELSE redis.login,
                 register |-> IF redis.register = c THEN None ELSE redis.register,
                 reset |-> IF redis.reset = c THEN None ELSE redis.reset,
                 tokens |-> redis.tokens \ {c}]
    /\ memory' = [s \in Servers |-> [reset |-> IF memory[s].reset = c THEN None ELSE memory[s].reset,
                                     tokens |-> memory[s].tokens \ {c}]]
    /\ latest' = IF latest = c THEN None ELSE latest
    /\ asked' = IF asked = c THEN None ELSE asked
    /\ device' = [d \in DeviceRows |-> IF device[d] = c THEN None ELSE device[d]]
    /\ UNCHANGED <<accounts, passwordVars, sessionVars, purpose, disturbed, up, call, faults>>

redisChanges ==
    /\ faults < MaxFaults
    /\ faults' = faults + 1
    /\ up' = ~up
    /\ disturbed' = TRUE
    /\ UNCHANGED <<accounts, passwordVars, sessionVars, device, redis, memory, purpose, latest, asked,
                   call>>

restart(s) ==
    /\ faults < MaxFaults
    /\ faults' = faults + 1
    /\ memory' = [memory EXCEPT ![s] = [reset |-> None, tokens |-> {}]]
    /\ call' = [k \in Calls |-> IF ServerOf[k] = s THEN Idle ELSE call[k]]
    /\ UNCHANGED <<accounts, passwordVars, sessionVars, device, redis, purpose, latest, asked, disturbed,
                   up>>

-------------------------------------------------------------------------------
SignUp ==
    \E k \in Calls :
        \/ create(k)
        \/ insert(k)
        \/ \E c \in Secrets : requestRegisterOtp(c) \/ verifyRegisterOtpAndCreate(k, c)

Login ==
    \E k \in Calls :
        \/ \E p \in Passwords : signin(k, p)
        \/ rehash(k)
        \/ issueSession(k)
        \/ \E t \in Tokens, remember \in BOOLEAN : issueRefreshToken(k, t, remember)

CodeLogin ==
    \E k \in Calls :
        \/ \E p \in Passwords : requestLoginOtp(k, p)
        \/ \E c \in Secrets : sendLoginOtp(k, c) \/ verifyLoginOtp(k, c)
        \/ consumeAuthOtp(k)
        \/ \E d \in DeviceRows : isDeviceTrusted(k, d)
        \/ touchDevice(k)
        \/ rememberDevice(k)
        \/ \E d \in DeviceRows, c \in Secrets : saveDevice(k, d, c)

Renewal ==
    \E k \in Calls :
        \/ \E t \in Tokens : refreshAccessToken(k, t) \/ mint(k, t)
        \/ readUser(k)
        \/ rotate(k)
        \/ \E sid \in 0..logins : clearSession(k, sid)
        \/ clearActive(k)
        \/ revokeAllRefreshTokens(k)
        \/ \E t \in Tokens : tokenExpires(t)

PasswordChange ==
    \E k \in Calls :
        \/ \E p, q \in Passwords : changePassword(k, p, q)
        \/ \E p \in Passwords : resetPassword(k, p)
        \/ savePassword(k)

Reset ==
    \E k \in Calls :
        \/ \E c \in Secrets :
              requestPasswordReset(k, c) \/ verifyResetOtp(k, c) \/ forgetResetOtp(k, c)
        \/ storeResetOtp(k)
        \/ \E sent \in BOOLEAN : mailResetOtp(k, sent)
        \/ readOwnMemory(k)
        \/ deleteResetOtp(k)
        \/ storeResetToken(k)
        \/ \E c \in Secrets, p \in Passwords : resetPasswordWithToken(k, c, p)
        \/ saveReset(k)
        \/ dropResetToken(k)
        \/ forgetResetToken(k)

Environment ==
    \/ \E c \in Secrets : secretExpires(c)
    \/ redisChanges
    \/ \E s \in Servers : restart(s)

Next == SignUp \/ Login \/ CodeLogin \/ Renewal \/ PasswordChange \/ Reset \/ Environment

Spec == Init /\ [][Next]_vars

-------------------------------------------------------------------------------
(* Properties.                                                             *)

\* What a session is issued for: the password, or a secret sent or given to the
\* account's owner at an earlier login.
Earned(k) ==
    IF call[k].secret = None THEN call[k].pass # None
    ELSE purpose[call[k].secret] \in {"login", "device"}

\* A code sent to verify a free address never opens a session, whichever code is
\* stored, expired or replaced meanwhile, and although an account with the address
\* may be created in between.
LoginIsEarned == [][\A k \in Calls : At(k, "issue") /\ At(k, "signed")' => Earned(k)]_vars

\* A renewed access token names a session at least as new as the newest when the
\* renewal began, or none: a device that renews after a login elsewhere is not sent
\* back to a session that this login has superseded.
RenewalIsCurrent ==
    \A k \in Calls :
        call[k].step \in {"rotate", "mint"} =>
            call[k].sid = None \/ call[k].sid >= call[k].since

\* No refresh token outlives a logout, on whichever device it was issued: one that
\* is valid was inserted since.
LogoutRevokesAll == \A t \in Tokens : token[t].state = "valid" => token[t].minted = logouts

\* A password that was replaced comes back only if the user chooses it again, or,
\* if the account was old enough, when a login that had read it as plain text saves
\* its row: any other handler that saves the user keeps the password that is there.
ReplacedStaysOut ==
    [][password'.value # password.value /\ password'.value \in replaced =>
          \E k \in Calls :
              /\ ~At(k, call'[k].step)
              /\ call[k].step \in {"save", "reset"} \/ (legacy /\ At(k, "rehash"))
              /\ call[k].pass = password'.value]_vars

\* What a verification that begins now compares the typed code with.
StoredReset(s) == IF Stored("reset") # None THEN Stored("reset") ELSE memory[s].reset

\* The reset code mailed last works on every server until it is used, expires or a
\* new one is requested, however many were requested before and whichever of them
\* were mailed, verified or cut off by a restart.  Excepted are a code whose request
\* overlapped another one (what is stored last need not be what is mailed last), a
\* failure of Redis, and the verification of an older code that deletes this one.
LatestResetCodeWorks ==
    latest # None /\ ~disturbed => \A s \in Servers : StoredReset(s) = latest
===============================================================================
