----------------------------- MODULE Accounts_proofs -----------------------------
(***************************************************************************)
(* Proofs about an account, for any number of handlers, servers, tokens    *)
(* and codes.                                                              *)
(***************************************************************************)
EXTENDS Accounts, TLAPS

\* A session that is active is the newest, and no call began after more logins than
\* there are; what a renewal and a logout promise is inductive with it.
SessionInv ==
    /\ active \in {None, logins}
    /\ \A k \in Calls :
          /\ call[k].since <= logins
          /\ call[k].step \in {"readUser", "rotate"} => call[k].token # None
    /\ RenewalIsCurrent
    /\ LogoutRevokesAll

\* Where a secret is kept says what it was issued for.
KeptAsIssued ==
    /\ redis.login # None => purpose[redis.login] = "login"
    /\ \A d \in DeviceRows : device[d] # None => purpose[device[d]] = "device"

\* A call on its way to a session has the password, or the secret it read.
OnItsWay(k) ==
    /\ At(k, "issue") => Earned(k)
    /\ At(k, "touch") => call[k].secret # None /\ purpose[call[k].secret] = "device"
    /\ At(k, "consume") =>
          /\ call[k].secret # None
          /\ \/ call[k].then = "create"
             \/ call[k].then = "issue" /\ purpose[call[k].secret] = "login"
    /\ call[k].step \in {"rehash", "device"} => call[k].secret = None /\ call[k].pass # None
    /\ At(k, "rehash") => call[k].then \in {"issue", "device"}
    /\ call[k].step \in {"save", "reset"} => call[k].pass # None
    /\ call[k].step \in {"storeOtp", "storeToken"} => call[k].secret # None

EvidenceInv == KeptAsIssued /\ \A k \in Calls : OnItsWay(k)

IInv == TypeOK /\ SessionInv /\ EvidenceInv

LEMMA InvInit == Init => IInv
<1> SUFFICES ASSUME Init PROVE IInv
    OBVIOUS
<1>1. Idle \in Call
    BY DEF Idle, Call, Steps, None
<1>2. call = [k \in Calls |-> Idle] /\ call \in [Calls -> Call]
    BY <1>1 DEF Init
<1>3. password \in [value : Passwords, plain : BOOLEAN]
    BY AccountsAssumption DEF Init
<1>4. token \in [Tokens -> Token] /\ \A t \in Tokens : token[t].state = "unused"
    BY DEF Init, Token, TokenState, None
<1>5. redis \in Store /\ memory \in [Servers -> Memory]
    BY DEF Init, Store, Memory, None
<1>6. purpose \in [Secrets -> Purposes] /\ device \in [DeviceRows -> Secrets \union {None}]
    BY DEF Init, Purposes, None
<1>7. \A k \in Calls : call[k].step = "idle"
    BY <1>2 DEF Idle
<1>8. TypeOK
    <2>1. \A k \in Calls : call[k].step # "mint"
        BY <1>7
    <2>2. /\ accounts \in Nat /\ active \in 0..logins /\ logins \in Nat
          /\ logouts \in Nat /\ latest \in Secrets \union {None} /\ faults \in Nat
          /\ asked \in Secrets \union {None}
        BY DEF Init, None
    <2>3. legacy \in BOOLEAN /\ up \in BOOLEAN /\ disturbed \in BOOLEAN
        BY DEF Init
    <2>4. replaced \subseteq Passwords
        BY DEF Init
    <2> QED
        BY <2>1, <2>2, <2>3, <2>4, <1>2, <1>3, <1>4, <1>5, <1>6 DEF TypeOK
<1>9. SessionInv
    BY <1>2, <1>4, <1>7 DEF Init, SessionInv, RenewalIsCurrent, LogoutRevokesAll, Idle
<1>10. EvidenceInv
    BY <1>7 DEF Init, EvidenceInv, KeptAsIssued, OnItsWay, At, None
<1> QED
    BY <1>8, <1>9, <1>10 DEF IInv

\* What a call knows, at another step.
LEMMA CallWith ==
    /\ Idle \in Call
    /\ \A r \in Call, step \in Steps :
          /\ [r EXCEPT !.step = step] \in Call
          /\ \A sid \in Nat : [r EXCEPT !.step = step, !.sid = sid] \in Call
          /\ \A d \in DeviceRows, c \in Secrets \union {None} :
                [r EXCEPT !.step = step, !.row = d, !.secret = c] \in Call
<1>1. Idle \in Call
    BY DEF Idle, Call, Steps, None
<1> QED
    BY <1>1 DEF Call

LEMMA createKeeps ==
    ASSUME IInv, NEW k \in Calls, create(k)
    PROVE  IInv'
<1>1. TypeOK'
    BY DEF create, Begin, Idle, TypeOK, IInv, Call, Steps, None, sessionVars, codeVars,
       passwordVars
<1>2. SessionInv'
    BY DEF create, Begin, Idle, TypeOK, IInv, SessionInv, RenewalIsCurrent, sessionVars,
       codeVars, LogoutRevokesAll
<1>3. EvidenceInv'
    BY DEF create, Begin, At, IInv, EvidenceInv, KeptAsIssued, OnItsWay, Earned, codeVars
<1> QED
    BY <1>1, <1>2, <1>3 DEF IInv

LEMMA insertKeeps ==
    ASSUME IInv, NEW k \in Calls, insert(k)
    PROVE  IInv'
<1>1. TypeOK'
    BY DEF insert, End, TypeOK, IInv, Call, Steps, Idle, None, sessionVars, codeVars,
       passwordVars
<1>2. SessionInv'
    BY DEF insert, End, TypeOK, IInv, Idle, SessionInv, RenewalIsCurrent, sessionVars,
       codeVars, LogoutRevokesAll
<1>3. EvidenceInv'
    BY DEF insert, At, End, IInv, Idle, EvidenceInv, KeptAsIssued, OnItsWay, Earned, codeVars
<1> QED
    BY <1>1, <1>2, <1>3 DEF IInv

LEMMA requestRegisterOtpKeeps ==
    ASSUME IInv, NEW c \in Secrets, requestRegisterOtp(c)
    PROVE  IInv'
<1>1. TypeOK'
    BY DEF requestRegisterOtp, generateAuthOtp, Fresh, TypeOK, IInv, Store, Purposes,
       passwordVars, sessionVars, codeVars
<1>2. SessionInv'
    BY DEF requestRegisterOtp, generateAuthOtp, Fresh, IInv, SessionInv, RenewalIsCurrent,
       sessionVars, codeVars, LogoutRevokesAll
<1>3. EvidenceInv'
    BY DEF requestRegisterOtp, generateAuthOtp, Fresh, IInv, EvidenceInv, KeptAsIssued,
       OnItsWay, Earned, At
<1> QED
    BY <1>1, <1>2, <1>3 DEF IInv

LEMMA verifyRegisterOtpAndCreateKeeps ==
    ASSUME IInv, NEW k \in Calls, NEW c \in Secrets, verifyRegisterOtpAndCreate(k, c)
    PROVE  IInv'
<1>1. TypeOK'
    BY DEF verifyRegisterOtpAndCreate, readAuthOtp, Begin, TypeOK, IInv, Call, Steps, Idle,
       None, passwordVars, sessionVars, codeVars
<1>2. SessionInv'
    BY DEF verifyRegisterOtpAndCreate, readAuthOtp, Begin, TypeOK, IInv, SessionInv,
       RenewalIsCurrent, sessionVars, codeVars, LogoutRevokesAll
<1>3. EvidenceInv'
    BY DEF verifyRegisterOtpAndCreate, readAuthOtp, Begin, At, IInv, EvidenceInv,
       KeptAsIssued, OnItsWay, Earned, codeVars
<1> QED
    BY <1>1, <1>2, <1>3 DEF IInv

LEMMA signinKeeps ==
    ASSUME IInv, NEW k \in Calls, NEW p \in Passwords, signin(k, p)
    PROVE  IInv'
<1>1. TypeOK'
    BY DEF signin, validateCredentials, Begin, TypeOK, IInv, Call, Steps, Idle, None,
       passwordVars, sessionVars, codeVars
<1>2. SessionInv'
    BY DEF signin, validateCredentials, Begin, TypeOK, IInv, SessionInv, RenewalIsCurrent,
       sessionVars, codeVars, LogoutRevokesAll
<1>3. EvidenceInv'
    BY AccountsAssumption DEF signin, validateCredentials, Begin, At, IInv, Idle,
       EvidenceInv, KeptAsIssued, OnItsWay, Earned, codeVars
<1> QED
    BY <1>1, <1>2, <1>3 DEF IInv

LEMMA rehashKeeps ==
    ASSUME IInv, NEW k \in Calls, rehash(k)
    PROVE  IInv'
<1>4. call[k].pass \in Passwords /\ call[k].then \in {"issue", "device"}
    BY DEF IInv, TypeOK, Call, EvidenceInv, OnItsWay, At, rehash, None
<1>1. TypeOK'
    <2>4. {"issue", "device"} \subseteq Steps
        BY DEF Steps
    <2>1. call' \in [Calls -> Call]
        BY <2>4, <1>4 DEF rehash, SetPassword, Go, At, IInv, TypeOK, Call, Idle
    <2>2. \A x \in Calls : call'[x].step = "mint" =>
             call'[x].token # None /\ token'[call'[x].token].state = "revoked"
        BY <2>1, <1>4 DEF rehash, SetPassword, Go, IInv, TypeOK, SessionInv, sessionVars,
           codeVars
    <2> QED
        BY <2>1, <2>2, <1>4 DEF rehash, SetPassword, IInv, TypeOK, codeVars, sessionVars
<1>2. SessionInv'
    BY <1>4 DEF rehash, SetPassword, Go, IInv, SessionInv, RenewalIsCurrent, sessionVars,
       codeVars, LogoutRevokesAll
<1>3. EvidenceInv'
    BY <1>4 DEF rehash, SetPassword, Go, At, IInv, EvidenceInv, KeptAsIssued, OnItsWay,
       Earned, codeVars
<1> QED
    BY <1>1, <1>2, <1>3 DEF IInv

LEMMA issueSessionKeeps ==
    ASSUME IInv, NEW k \in Calls, issueSession(k)
    PROVE  IInv'
<1>1. TypeOK'
    <2>4. {"signed"} \subseteq Steps
        BY DEF Steps
    <2>6. call[k] \in Call /\ "signed" \in Steps
        BY <2>4 DEF IInv, TypeOK
    <2>7. logins + 1 \in Nat
        BY DEF IInv, TypeOK
    <2>5. [call[k] EXCEPT !.step = "signed", !.sid = logins + 1] \in Call
        BY <2>6, CallWith, <2>7
    <2>1. call' \in [Calls -> Call]
        BY <2>5 DEF issueSession, At, IInv, TypeOK
    <2>2. \A x \in Calls : call'[x].step = "mint" =>
             call'[x].token # None /\ token'[call'[x].token].state = "revoked"
        BY <2>1 DEF issueSession, At, IInv, TypeOK, SessionInv, sessionVars
    <2> QED
        BY <2>1, <2>2 DEF issueSession, IInv, TypeOK, codeVars, passwordVars
<1>2. SessionInv'
    BY DEF issueSession, TypeOK, IInv, Call, SessionInv, RenewalIsCurrent, codeVars,
       LogoutRevokesAll
<1>3. EvidenceInv'
    BY DEF issueSession, At, TypeOK, IInv, EvidenceInv, KeptAsIssued, OnItsWay, Earned, codeVars
<1> QED
    BY <1>1, <1>2, <1>3 DEF IInv

LEMMA issueRefreshTokenKeeps ==
    ASSUME IInv, NEW k \in Calls, NEW t \in Tokens, NEW remember \in BOOLEAN,
           issueRefreshToken(k, t, remember)
    PROVE  IInv'
<1>4. PICK r \in Call : /\ call' = [call EXCEPT ![k] = r]
                     /\ r.step \in {"idle", "findDevice"} /\ r.since <= call[k].since
    <2>1. /\ Idle \in Call /\ call[k] \in Call
          /\ {"idle", "findDevice", "saveDevice", "insertDevice", "insert", "issue"} \subseteq Steps
        BY DEF IInv, TypeOK, Idle, Call, Steps, None
    <2> QED
        BY <2>1 DEF issueRefreshToken, Insert, Go, End, IInv, TypeOK, Call, Idle
<1>1. TypeOK'
    <2>1. call' \in [Calls -> Call]
        BY <1>4 DEF IInv, TypeOK
    <2>3. token' \in [Tokens -> Token]
        BY DEF issueRefreshToken, Insert, IInv, TypeOK, Token, TokenState, Call
    <2>2. \A x \in Calls : call'[x].step = "mint" =>
             call'[x].token # None /\ token'[call'[x].token].state = "revoked"
        BY <2>1, <1>4 DEF issueRefreshToken, Insert, IInv, TypeOK, SessionInv
    <2> QED
        BY <2>1, <2>2, <2>3, <1>4 DEF issueRefreshToken, Insert, IInv, TypeOK, passwordVars,
           codeVars
<1>2. SessionInv'
    BY <1>4 DEF issueRefreshToken, Insert, TypeOK, IInv, Call, SessionInv, RenewalIsCurrent,
       codeVars, LogoutRevokesAll
<1>3. EvidenceInv'
    BY <1>4 DEF issueRefreshToken, Insert, At, IInv, EvidenceInv, KeptAsIssued, OnItsWay,
       Earned, codeVars
<1> QED
    BY <1>1, <1>2, <1>3 DEF IInv

LEMMA requestLoginOtpKeeps ==
    ASSUME IInv, NEW k \in Calls, NEW p \in Passwords, requestLoginOtp(k, p)
    PROVE  IInv'
<1>1. TypeOK'
    <2>4. {"rehash", "device"} \subseteq Steps
        BY DEF Steps
    <2>1. call' \in [Calls -> Call]
        BY <2>4 DEF requestLoginOtp, validateCredentials, Begin, IInv, TypeOK, Call, Idle, None
    <2>2. \A x \in Calls : call'[x].step = "mint" =>
             call'[x].token # None /\ token'[call'[x].token].state = "revoked"
        BY <2>1 DEF requestLoginOtp, validateCredentials, Begin, IInv, TypeOK, SessionInv,
           sessionVars, codeVars
    <2> QED
        BY <2>1, <2>2 DEF requestLoginOtp, validateCredentials, IInv, TypeOK, passwordVars,
           sessionVars, codeVars
<1>2. SessionInv'
    BY DEF requestLoginOtp, validateCredentials, Begin, TypeOK, IInv, SessionInv,
       RenewalIsCurrent, sessionVars, codeVars, LogoutRevokesAll
<1>3. EvidenceInv'
    BY AccountsAssumption DEF requestLoginOtp, validateCredentials, Begin, At, IInv, Idle,
       EvidenceInv, KeptAsIssued, OnItsWay, Earned, codeVars
<1> QED
    BY <1>1, <1>2, <1>3 DEF IInv

LEMMA sendLoginOtpKeeps ==
    ASSUME IInv, NEW k \in Calls, NEW c \in Secrets, sendLoginOtp(k, c)
    PROVE  IInv'
<1>1. TypeOK'
    BY DEF sendLoginOtp, generateAuthOtp, Fresh, End, TypeOK, IInv, Call, Steps, Idle, Store,
       Purposes, None, passwordVars, sessionVars, codeVars
<1>2. SessionInv'
    BY DEF sendLoginOtp, generateAuthOtp, Fresh, End, TypeOK, IInv, Idle, SessionInv,
       RenewalIsCurrent, sessionVars, codeVars, LogoutRevokesAll
<1>3. EvidenceInv'
    BY DEF sendLoginOtp, generateAuthOtp, Fresh, End, At, TypeOK, IInv, Idle, EvidenceInv,
       KeptAsIssued, OnItsWay, Earned
<1> QED
    BY <1>1, <1>2, <1>3 DEF IInv

LEMMA verifyLoginOtpKeeps ==
    ASSUME IInv, NEW k \in Calls, NEW c \in Secrets, verifyLoginOtp(k, c)
    PROVE  IInv'
<1>1. TypeOK'
    BY DEF verifyLoginOtp, readAuthOtp, Begin, TypeOK, IInv, Call, Steps, Idle, None,
       passwordVars, sessionVars, codeVars
<1>2. SessionInv'
    BY DEF verifyLoginOtp, readAuthOtp, Begin, TypeOK, IInv, SessionInv, RenewalIsCurrent,
       sessionVars, codeVars, LogoutRevokesAll
<1>3. EvidenceInv'
    BY DEF verifyLoginOtp, readAuthOtp, Stored, Begin, At, IInv, EvidenceInv, KeptAsIssued,
       OnItsWay, Earned, codeVars
<1> QED
    BY <1>1, <1>2, <1>3 DEF IInv

LEMMA consumeAuthOtpKeeps ==
    ASSUME IInv, NEW k \in Calls, consumeAuthOtp(k)
    PROVE  IInv'
<1>4. call[k].then \in {"create", "issue"} /\ (call[k].then = "issue" => Earned(k))
    BY DEF IInv, EvidenceInv, OnItsWay, Earned, At, consumeAuthOtp
<1>5. PICK r \in Call : /\ call' = [call EXCEPT ![k] = r] /\ r.since <= call[k].since /\ r.step # "mint"
                     /\ \/ r.step \in {"idle", "insert"}
                        \/ call[k].then = "issue" /\ r = [call[k] EXCEPT !.step = "issue"]
    <2>1. /\ Idle \in Call /\ call[k] \in Call
          /\ {"idle", "findDevice", "saveDevice", "insertDevice", "insert", "issue"} \subseteq Steps
        BY DEF IInv, TypeOK, Idle, Call, Steps, None
    <2> QED
        BY <2>1, <1>4 DEF consumeAuthOtp, Go, End, At, IInv, TypeOK, Call, Idle
<1>1. TypeOK'
    <2>1. call' \in [Calls -> Call]
        BY <1>5 DEF IInv, TypeOK
    <2>2. \A x \in Calls : call'[x].step = "mint" =>
             call'[x].token # None /\ token'[call'[x].token].state = "revoked"
        BY <2>1, <1>4, <1>5 DEF consumeAuthOtp, IInv, TypeOK, SessionInv, sessionVars
    <2> QED
        BY <2>1, <2>2, <1>4, <1>5 DEF consumeAuthOtp, IInv, TypeOK, Store, codeVars,
           passwordVars, sessionVars
<1>2. SessionInv'
    BY <1>4, <1>5 DEF consumeAuthOtp, TypeOK, IInv, Call, SessionInv, RenewalIsCurrent,
       sessionVars, codeVars, LogoutRevokesAll
<1>3. EvidenceInv'
    BY <1>4, <1>5 DEF consumeAuthOtp, At, IInv, Call, EvidenceInv, KeptAsIssued, OnItsWay,
       Earned
<1> QED
    BY <1>1, <1>2, <1>3 DEF IInv

LEMMA isDeviceTrustedKeeps ==
    ASSUME IInv, NEW k \in Calls, NEW d \in DeviceRows, isDeviceTrusted(k, d)
    PROVE  IInv'
<1>1. TypeOK'
    <2>4. {"touch"} \subseteq Steps
        BY DEF Steps
    <2>6. call[k] \in Call /\ "touch" \in Steps
        BY <2>4 DEF IInv, TypeOK
    <2>5. [call[k] EXCEPT !.step = "touch", !.row = d, !.secret = device[d]] \in Call
        BY <2>6, CallWith DEF IInv, TypeOK, SessionInv, None
    <2>1. call' \in [Calls -> Call]
        BY <2>5 DEF isDeviceTrusted, At, IInv, TypeOK
    <2>2. \A x \in Calls : call'[x].step = "mint" =>
             call'[x].token # None /\ token'[call'[x].token].state = "revoked"
        BY <2>1 DEF isDeviceTrusted, At, IInv, TypeOK, SessionInv, sessionVars
    <2> QED
        BY <2>1, <2>2 DEF isDeviceTrusted, IInv, TypeOK, sessionVars, codeVars, passwordVars
<1>2. SessionInv'
    BY DEF isDeviceTrusted, TypeOK, IInv, SessionInv, RenewalIsCurrent, sessionVars,
       codeVars, LogoutRevokesAll
<1>3. EvidenceInv'
    BY DEF isDeviceTrusted, At, TypeOK, IInv, EvidenceInv, KeptAsIssued, OnItsWay, Earned,
       codeVars
<1> QED
    BY <1>1, <1>2, <1>3 DEF IInv

LEMMA touchDeviceKeeps ==
    ASSUME IInv, NEW k \in Calls, touchDevice(k)
    PROVE  IInv'
<1>4. call[k].secret \in Secrets
    BY DEF IInv, TypeOK, Call, EvidenceInv, OnItsWay, At, touchDevice, None
<1>1. TypeOK'
    <2>4. {"issue"} \subseteq Steps
        BY DEF Steps
    <2>1. call' \in [Calls -> Call]
        BY <2>4, <1>4 DEF touchDevice, Go, At, IInv, TypeOK, Call, Idle, None
    <2>2. \A x \in Calls : call'[x].step = "mint" =>
             call'[x].token # None /\ token'[call'[x].token].state = "revoked"
        BY <2>1, <1>4 DEF touchDevice, Go, IInv, TypeOK, SessionInv, sessionVars
    <2> QED
        BY <2>1, <2>2, <1>4 DEF touchDevice, IInv, TypeOK, sessionVars, codeVars, passwordVars
<1>2. SessionInv'
    BY <1>4 DEF touchDevice, Go, IInv, SessionInv, RenewalIsCurrent, sessionVars, codeVars,
       LogoutRevokesAll
<1>3. EvidenceInv'
    BY <1>4 DEF touchDevice, Go, At, IInv, EvidenceInv, KeptAsIssued, OnItsWay, Earned, codeVars
<1> QED
    BY <1>1, <1>2, <1>3 DEF IInv

LEMMA rememberDeviceKeeps ==
    ASSUME IInv, NEW k \in Calls, rememberDevice(k)
    PROVE  IInv'
<1>4. PICK r \in Call : /\ call' = [call EXCEPT ![k] = r]
                     /\ r.step \in {"saveDevice", "insertDevice"} /\ r.since = call[k].since
    <2>1. /\ Idle \in Call /\ call[k] \in Call
          /\ {"idle", "findDevice", "saveDevice", "insertDevice", "insert", "issue"} \subseteq Steps
        BY DEF IInv, TypeOK, Idle, Call, Steps, None
    <2> QED
        BY <2>1 DEF rememberDevice, Go, At, IInv, TypeOK, Call, Idle
<1>5. UNCHANGED <<device, codeVars>>
    BY DEF rememberDevice
<1>1. TypeOK'
    <2>1. call' \in [Calls -> Call]
        BY <1>4 DEF IInv, TypeOK
    <2>2. \A x \in Calls : call'[x].step = "mint" =>
             call'[x].token # None /\ token'[call'[x].token].state = "revoked"
        BY <2>1, <1>4 DEF rememberDevice, IInv, TypeOK, SessionInv, sessionVars
    <2> QED
        BY <2>1, <2>2, <1>4 DEF rememberDevice, IInv, TypeOK, sessionVars, codeVars,
           passwordVars
<1>2. SessionInv'
    BY <1>4, <1>5 DEF rememberDevice, IInv, SessionInv, RenewalIsCurrent, sessionVars,
       codeVars, LogoutRevokesAll
<1>3. EvidenceInv'
    BY <1>4, <1>5 DEF At, IInv, EvidenceInv, KeptAsIssued, OnItsWay, Earned, codeVars
<1> QED
    BY <1>1, <1>2, <1>3 DEF IInv

LEMMA saveDeviceKeeps ==
    ASSUME IInv, NEW k \in Calls, NEW d \in DeviceRows, NEW c \in Secrets, saveDevice(k, d, c)
    PROVE  IInv'
<1>1. TypeOK'
    BY DEF saveDevice, Fresh, End, TypeOK, IInv, Call, Steps, Idle, Purposes, None,
       passwordVars, sessionVars, codeVars
<1>2. SessionInv'
    BY DEF saveDevice, Fresh, End, TypeOK, IInv, Idle, SessionInv, RenewalIsCurrent,
       sessionVars, codeVars, LogoutRevokesAll
<1>3. EvidenceInv'
    BY DEF saveDevice, Fresh, End, At, TypeOK, IInv, Idle, EvidenceInv, KeptAsIssued,
       OnItsWay, Earned
<1> QED
    BY <1>1, <1>2, <1>3 DEF IInv

LEMMA refreshAccessTokenKeeps ==
    ASSUME IInv, NEW k \in Calls, NEW t \in Tokens, refreshAccessToken(k, t)
    PROVE  IInv'
<1>1. TypeOK'
    BY DEF refreshAccessToken, Begin, TypeOK, IInv, Call, Steps, Idle, None, codeVars,
       passwordVars, sessionVars
<1>2. SessionInv'
    BY AccountsAssumption DEF refreshAccessToken, Begin, TypeOK, IInv, SessionInv,
       RenewalIsCurrent, sessionVars, codeVars, LogoutRevokesAll
<1>3. EvidenceInv'
    BY DEF refreshAccessToken, Begin, At, IInv, EvidenceInv, KeptAsIssued, OnItsWay, Earned,
       codeVars
<1> QED
    BY <1>1, <1>2, <1>3 DEF IInv

LEMMA mintKeeps ==
    ASSUME IInv, NEW k \in Calls, NEW t \in Tokens, mint(k, t)
    PROVE  IInv'
<1>1. TypeOK'
    BY DEF mint, Insert, End, TypeOK, IInv, Call, Steps, Idle, Token, TokenState, None,
       passwordVars, codeVars
<1>2. SessionInv'
    BY DEF mint, Insert, End, TypeOK, IInv, Idle, SessionInv, RenewalIsCurrent, codeVars,
       LogoutRevokesAll
<1>3. EvidenceInv'
    BY DEF mint, Insert, End, At, IInv, Idle, EvidenceInv, KeptAsIssued, OnItsWay, Earned,
       codeVars
<1> QED
    BY <1>1, <1>2, <1>3 DEF IInv

LEMMA readUserKeeps ==
    ASSUME IInv, NEW k \in Calls, readUser(k)
    PROVE  IInv'
<1>1. TypeOK'
    <2>4. {"rotate"} \subseteq Steps
        BY DEF Steps
    <2>6. call[k] \in Call /\ "rotate" \in Steps
        BY <2>4 DEF IInv, TypeOK
    <2>5. [call[k] EXCEPT !.step = "rotate", !.sid = active] \in Call
        BY <2>6, CallWith DEF IInv, TypeOK, SessionInv, None
    <2>1. call' \in [Calls -> Call]
        BY <2>5 DEF readUser, At, IInv, TypeOK
    <2>2. \A x \in Calls : call'[x].step = "mint" =>
             call'[x].token # None /\ token'[call'[x].token].state = "revoked"
        BY <2>1 DEF readUser, At, IInv, TypeOK, SessionInv, Idle, sessionVars
    <2> QED
        BY <2>1, <2>2 DEF readUser, IInv, TypeOK, passwordVars, sessionVars, codeVars
<1>2. SessionInv'
    BY DEF readUser, At, TypeOK, IInv, SessionInv, RenewalIsCurrent, LogoutRevokesAll,
       sessionVars, codeVars
<1>3. EvidenceInv'
    BY DEF readUser, At, TypeOK, IInv, EvidenceInv, KeptAsIssued, OnItsWay, Earned, codeVars
<1> QED
    BY <1>1, <1>2, <1>3 DEF IInv

LEMMA rotateKeeps ==
    ASSUME IInv, NEW k \in Calls, rotate(k)
    PROVE  IInv'
<1>4. call[k].token \in Tokens
    BY DEF IInv, TypeOK, Call, SessionInv, At, rotate, None
<1>1. TypeOK'
    <2>4. {"mint"} \subseteq Steps
        BY DEF Steps
    <2>1. call' \in [Calls -> Call]
        BY <2>4, <1>4 DEF rotate, Go, At, IInv, TypeOK, Call, Idle, None
    <2>2. \A x \in Calls : call'[x].step = "mint" =>
             call'[x].token # None /\ token'[call'[x].token].state = "revoked"
        BY <2>1, <1>4 DEF rotate, Go, At, IInv, TypeOK, SessionInv, sessionVars
    <2> QED
        BY <2>1, <2>2, <1>4 DEF rotate, IInv, TypeOK, Token, TokenState, codeVars, passwordVars
<1>2. SessionInv'
    BY <1>4 DEF rotate, Go, At, IInv, SessionInv, RenewalIsCurrent, codeVars, LogoutRevokesAll
<1>3. EvidenceInv'
    BY <1>4 DEF rotate, Go, At, IInv, EvidenceInv, KeptAsIssued, OnItsWay, Earned, codeVars
<1> QED
    BY <1>1, <1>2, <1>3 DEF IInv

LEMMA clearSessionKeeps ==
    ASSUME IInv, NEW k \in Calls, NEW sid \in 0..logins, clearSession(k, sid)
    PROVE  IInv'
<1>1. TypeOK'
    <2>4. {"clear"} \subseteq Steps
        BY DEF Steps
    <2>6. call[k] \in Call /\ "clear" \in Steps
        BY <2>4 DEF IInv, TypeOK
    <2>7. sid \in Nat
        BY DEF IInv, TypeOK
    <2>5. [Idle EXCEPT !.step = "clear", !.sid = sid] \in Call
        BY <2>6, CallWith, <2>7
    <2>1. call' \in [Calls -> Call]
        BY <2>5 DEF clearSession, Begin, At, IInv, TypeOK
    <2>2. \A x \in Calls : call'[x].step = "mint" =>
             call'[x].token # None /\ token'[call'[x].token].state = "revoked"
        BY <2>1 DEF clearSession, Begin, IInv, TypeOK, SessionInv, sessionVars
    <2> QED
        BY <2>1, <2>2 DEF clearSession, IInv, TypeOK, sessionVars, codeVars, passwordVars
<1>2. SessionInv'
    BY DEF clearSession, Begin, TypeOK, IInv, Idle, SessionInv, RenewalIsCurrent,
       sessionVars, codeVars, LogoutRevokesAll
<1>3. EvidenceInv'
    BY DEF clearSession, Begin, At, IInv, EvidenceInv, KeptAsIssued, OnItsWay, Earned, codeVars
<1> QED
    BY <1>1, <1>2, <1>3 DEF IInv

LEMMA clearActiveKeeps ==
    ASSUME IInv, NEW k \in Calls, clearActive(k)
    PROVE  IInv'
<1>1. TypeOK'
    <2>4. {"revoke"} \subseteq Steps
        BY DEF Steps
    <2>1. call' \in [Calls -> Call]
        BY <2>4 DEF clearActive, Go, At, IInv, TypeOK, Call, Idle, None
    <2>2. \A x \in Calls : call'[x].step = "mint" =>
             call'[x].token # None /\ token'[call'[x].token].state = "revoked"
        BY <2>1 DEF clearActive, Go, At, IInv, TypeOK, SessionInv, sessionVars
    <2> QED
        BY <2>1, <2>2 DEF clearActive, IInv, TypeOK, None, codeVars, passwordVars
<1>2. SessionInv'
    BY DEF clearActive, Go, IInv, SessionInv, RenewalIsCurrent, codeVars, LogoutRevokesAll
<1>3. EvidenceInv'
    BY DEF clearActive, Go, At, IInv, EvidenceInv, KeptAsIssued, OnItsWay, Earned, codeVars
<1> QED
    BY <1>1, <1>2, <1>3 DEF IInv

LEMMA revokeAllRefreshTokensKeeps ==
    ASSUME IInv, NEW k \in Calls, revokeAllRefreshTokens(k)
    PROVE  IInv'
<1>1. TypeOK'
    BY DEF revokeAllRefreshTokens, Revoked, End, TypeOK, IInv, Call, Steps, Idle, Token,
       TokenState, None, passwordVars, codeVars
<1>2. SessionInv'
    BY DEF revokeAllRefreshTokens, Revoked, End, TypeOK, IInv, Idle, SessionInv,
       RenewalIsCurrent, codeVars, LogoutRevokesAll
<1>3. EvidenceInv'
    BY DEF revokeAllRefreshTokens, Revoked, End, At, IInv, Idle, EvidenceInv, KeptAsIssued,
       OnItsWay, Earned, codeVars
<1> QED
    BY <1>1, <1>2, <1>3 DEF IInv

LEMMA tokenExpiresKeeps ==
    ASSUME IInv, NEW t \in Tokens, tokenExpires(t)
    PROVE  IInv'
<1>1. TypeOK'
    BY DEF tokenExpires, TypeOK, IInv, Token, TokenState, codeVars, passwordVars
<1>2. SessionInv'
    BY DEF tokenExpires, IInv, SessionInv, RenewalIsCurrent, LogoutRevokesAll
<1>3. EvidenceInv'
    BY DEF tokenExpires, IInv, EvidenceInv, KeptAsIssued, OnItsWay, Earned, At, codeVars
<1> QED
    BY <1>1, <1>2, <1>3 DEF IInv

LEMMA changePasswordKeeps ==
    ASSUME IInv, NEW k \in Calls, NEW p \in Passwords, NEW q \in Passwords, changePassword(k, p,
           q)
    PROVE  IInv'
<1>1. TypeOK'
    <2>4. {"save"} \subseteq Steps
        BY DEF Steps
    <2>1. call' \in [Calls -> Call]
        BY <2>4 DEF changePassword, Begin, At, IInv, TypeOK, Call, Idle, None
    <2>2. \A x \in Calls : call'[x].step = "mint" =>
             call'[x].token # None /\ token'[call'[x].token].state = "revoked"
        BY <2>1 DEF changePassword, Begin, IInv, TypeOK, SessionInv, sessionVars
    <2> QED
        BY <2>1, <2>2 DEF changePassword, IInv, TypeOK, sessionVars, codeVars, passwordVars
<1>2. SessionInv'
    BY DEF changePassword, Begin, TypeOK, IInv, Idle, SessionInv, RenewalIsCurrent,
       sessionVars, codeVars, LogoutRevokesAll
<1>3. EvidenceInv'
    BY AccountsAssumption DEF changePassword, Begin, At, IInv, EvidenceInv, KeptAsIssued,
       OnItsWay, Earned, codeVars
<1> QED
    BY <1>1, <1>2, <1>3 DEF IInv

LEMMA resetPasswordKeeps ==
    ASSUME IInv, NEW k \in Calls, NEW p \in Passwords, resetPassword(k, p)
    PROVE  IInv'
<1>1. TypeOK'
    BY DEF resetPassword, Begin, TypeOK, IInv, Call, Steps, Idle, None, codeVars,
       passwordVars, sessionVars
<1>2. SessionInv'
    BY DEF resetPassword, Begin, TypeOK, IInv, Idle, SessionInv, RenewalIsCurrent,
       sessionVars, codeVars, LogoutRevokesAll
<1>3. EvidenceInv'
    BY AccountsAssumption DEF resetPassword, Begin, At, IInv, EvidenceInv, KeptAsIssued,
       OnItsWay, Earned, codeVars
<1> QED
    BY <1>1, <1>2, <1>3 DEF IInv

LEMMA savePasswordKeeps ==
    ASSUME IInv, NEW k \in Calls, savePassword(k)
    PROVE  IInv'
<1>4. call[k].pass \in Passwords
    BY DEF IInv, TypeOK, Call, EvidenceInv, OnItsWay, At, savePassword, None
<1>1. TypeOK'
    <2>4. {"idle"} \subseteq Steps
        BY DEF Steps
    <2>1. call' \in [Calls -> Call]
        BY <2>4, <1>4 DEF savePassword, SetPassword, End, IInv, TypeOK, Call, Idle, None
    <2>2. \A x \in Calls : call'[x].step = "mint" =>
             call'[x].token # None /\ token'[call'[x].token].state = "revoked"
        BY <2>1, <1>4 DEF savePassword, SetPassword, End, IInv, TypeOK, SessionInv, Idle,
           sessionVars, codeVars
    <2> QED
        BY <2>1, <2>2, <1>4 DEF savePassword, SetPassword, IInv, TypeOK, codeVars, sessionVars
<1>2. SessionInv'
    BY <1>4 DEF savePassword, SetPassword, End, TypeOK, IInv, Idle, SessionInv,
       RenewalIsCurrent, sessionVars, codeVars, LogoutRevokesAll
<1>3. EvidenceInv'
    BY <1>4 DEF savePassword, SetPassword, End, At, IInv, Idle, EvidenceInv, KeptAsIssued,
       OnItsWay, Earned, codeVars
<1> QED
    BY <1>1, <1>2, <1>3 DEF IInv

\* The steps of a reset change one call, codes and reset tokens, and never what a
\* session is issued for.
Quiet == {"idle", "storeOtp", "mailOtp", "fallback", "deleteOtp", "forgetOtp", "storeToken",
          "drop", "forgetToken"}

LEMMA QuietKeeps ==
    ASSUME IInv, NEW k \in Calls, NEW r \in Call, call' = [call EXCEPT ![k] = r],
           r.step \in Quiet, r.since <= logins,
           r.step \in {"storeOtp", "storeToken"} => r.secret # None,
           UNCHANGED <<accounts, password, replaced, legacy, active, logins, token, logouts,
                       device, up, faults>>,
           redis' \in Store, redis'.login = redis.login,
           memory' \in [Servers -> Memory],
           purpose' \in [Secrets -> Purposes],
           \A c \in Secrets : purpose[c] # "unused" => purpose'[c] = purpose[c],
           latest' \in Secrets \union {None}, asked' \in Secrets \union {None},
           disturbed' \in BOOLEAN
    PROVE  IInv'
<1>1. /\ call \in [Calls -> Call] /\ call' \in [Calls -> Call] /\ call'[k] = r
      /\ \A x \in Calls \ {k} : call'[x] = call[x]
    BY DEF IInv, TypeOK
<1>2. TypeOK'
    BY <1>1 DEF IInv, TypeOK, Quiet
<1>3. SessionInv'
    BY <1>1 DEF IInv, SessionInv, RenewalIsCurrent, LogoutRevokesAll, Quiet
<1>4. KeptAsIssued'
    BY DEF IInv, TypeOK, EvidenceInv, KeptAsIssued, Store
<1>5. \A x \in Calls \ {k} : OnItsWay(x)'
  <2> SUFFICES ASSUME NEW x \in Calls \ {k} PROVE OnItsWay(x)'
      OBVIOUS
  <2>1. call'[x] = call[x] /\ OnItsWay(x) /\ call[x].secret \in Secrets \union {None}
      BY <1>1 DEF IInv, EvidenceInv, Call
  <2>2. \A c \in Secrets : purpose[c] \in {"login", "device"} => purpose'[c] = purpose[c]
      OBVIOUS
  <2> QED
      BY <2>1, <2>2 DEF OnItsWay, Earned, At
<1>6. OnItsWay(k)'
    BY <1>1 DEF OnItsWay, At, Quiet
<1> QED
    BY <1>2, <1>3, <1>4, <1>5, <1>6 DEF IInv, EvidenceInv

\* What a call knows at a step of a reset.
LEMMA QuietCalls ==
    ASSUME IInv, NEW k \in Calls
    PROVE  /\ Idle \in Call /\ Idle.step = "idle" /\ Idle.since <= logins
           /\ Idle.since = 0 /\ 0 <= logins
           /\ call[k] \in Call /\ call[k].since <= logins
<1>1. call[k] \in Call /\ call[k].since <= logins /\ logins \in Nat
    BY DEF IInv, TypeOK, SessionInv
<1>2. Idle \in Call /\ Idle.step = "idle" /\ Idle.since = 0
    BY CallWith DEF Idle
<1> QED
    BY <1>1, <1>2

\* A secret is not the sign of no secret.
LEMMA SecretIsSome == \A c \in Secrets : c # None
BY AccountsAssumption DEF AccountsAssumption, None

LEMMA requestPasswordResetKeeps ==
    ASSUME IInv, NEW k \in Calls, NEW c \in Secrets, requestPasswordReset(k, c)
    PROVE  IInv'
<1> DEFINE r == [Idle EXCEPT !.step = "storeOtp", !.secret = c]
<1>1. r \in Call /\ r.step \in Quiet /\ r.since <= logins
      /\ (r.step \in {"storeOtp", "storeToken"} => r.secret # None)
    BY QuietCalls, SecretIsSome DEF Quiet, Call, Steps, Idle
<1>2. memory' \in [Servers -> Memory]
    BY AccountsAssumption DEF AccountsAssumption, requestPasswordReset, IInv, TypeOK, Memory
<1>3. /\ purpose' \in [Secrets -> Purposes]
      /\ \A d \in Secrets : purpose[d] # "unused" => purpose'[d] = purpose[d]
    BY DEF requestPasswordReset, Fresh, IInv, TypeOK, Purposes
<1>4. call' = [call EXCEPT ![k] = r]
    BY DEF requestPasswordReset, Begin
<1> HIDE DEF r
<1> QED
    BY <1>1, <1>2, <1>3, <1>4, QuietKeeps
       DEF requestPasswordReset, IInv, TypeOK, passwordVars, sessionVars

LEMMA storeResetOtpKeeps ==
    ASSUME IInv, NEW k \in Calls, storeResetOtp(k)
    PROVE  IInv'
<1> DEFINE r == [call[k] EXCEPT !.step = "mailOtp"]
<1>1. r \in Call /\ r.step \in Quiet /\ r.since <= logins
      /\ (r.step \in {"storeOtp", "storeToken"} => r.secret # None)
    BY QuietCalls, SecretIsSome DEF Quiet, Call, Steps, Idle
<1>2. redis' \in Store /\ redis'.login = redis.login
    BY QuietCalls DEF storeResetOtp, IInv, TypeOK, Store, Call
<1>3. call' = [call EXCEPT ![k] = r]
    BY DEF storeResetOtp, Go
<1> HIDE DEF r
<1> QED
    BY <1>1, <1>2, <1>3, QuietKeeps DEF storeResetOtp, IInv, TypeOK, passwordVars, sessionVars

LEMMA mailResetOtpKeeps ==
    ASSUME IInv, NEW k \in Calls, NEW sent \in BOOLEAN, mailResetOtp(k, sent)
    PROVE  IInv'
<1>1. call' = [call EXCEPT ![k] = Idle] /\ redis.login = redis'.login
    BY DEF mailResetOtp, End
<1>2. latest' \in Secrets \union {None} /\ asked' \in Secrets \union {None}
    BY QuietCalls DEF mailResetOtp, IInv, TypeOK, Call, At
<1> QED
    BY <1>1, <1>2, QuietCalls, QuietKeeps
       DEF Quiet, mailResetOtp, IInv, TypeOK, passwordVars, sessionVars

LEMMA verifyResetOtpKeeps ==
    ASSUME IInv, NEW k \in Calls, NEW c \in Secrets, verifyResetOtp(k, c)
    PROVE  IInv'
<1> DEFINE r == [Idle EXCEPT !.step = IF Stored("reset") = c THEN "deleteOtp" ELSE "fallback",
                             !.secret = c]
<1>1. r \in Call /\ r.step \in Quiet /\ r.since <= logins
      /\ (r.step \in {"storeOtp", "storeToken"} => r.secret # None)
    BY QuietCalls, SecretIsSome DEF Quiet, Call, Steps, Idle
<1>2. call' = [call EXCEPT ![k] = r]
    BY DEF verifyResetOtp, Begin
<1> HIDE DEF r
<1> QED
    BY <1>1, <1>2, QuietKeeps DEF verifyResetOtp, IInv, TypeOK, passwordVars, sessionVars, codeVars

LEMMA readOwnMemoryKeeps ==
    ASSUME IInv, NEW k \in Calls, readOwnMemory(k)
    PROVE  IInv'
<1>1. PICK r \in Call : /\ r.step \in Quiet \ {"storeOtp", "storeToken"} /\ r.since <= logins
                      /\ call' = [call EXCEPT ![k] = r]
  <2>1. [call[k] EXCEPT !.step = "deleteOtp"] \in Call
        /\ [call[k] EXCEPT !.step = "deleteOtp"].since <= logins
        /\ [call[k] EXCEPT !.step = "deleteOtp"].step \in Quiet
      BY QuietCalls, SecretIsSome DEF Quiet, Call, Steps, Idle
  <2>2. /\ Idle \in Call /\ Idle.since <= logins
        /\ Idle.step \in Quiet \ {"storeOtp", "storeToken"}
      BY QuietCalls DEF Quiet
  <2>3. \/ call' = [call EXCEPT ![k] = [call[k] EXCEPT !.step = "deleteOtp"]]
        \/ call' = [call EXCEPT ![k] = Idle]
      BY DEF readOwnMemory, Go, End
  <2>4. [call[k] EXCEPT !.step = "deleteOtp"].step \in Quiet \ {"storeOtp", "storeToken"}
      BY QuietCalls DEF Quiet, Call
  <2> QED
      BY <2>1, <2>2, <2>3, <2>4
<1> QED
    BY <1>1, QuietKeeps DEF readOwnMemory, IInv, TypeOK, passwordVars, sessionVars, codeVars

LEMMA deleteResetOtpKeeps ==
    ASSUME IInv, NEW k \in Calls, deleteResetOtp(k)
    PROVE  IInv'
<1> DEFINE r == [call[k] EXCEPT !.step = "forgetOtp"]
<1>1. r \in Call /\ r.step \in Quiet /\ r.since <= logins
      /\ (r.step \in {"storeOtp", "storeToken"} => r.secret # None)
    BY QuietCalls, SecretIsSome DEF Quiet, Call, Steps, Idle
<1>2. redis' \in Store /\ redis'.login = redis.login
    BY DEF deleteResetOtp, IInv, TypeOK, Store
<1>3. call' = [call EXCEPT ![k] = r]
    BY DEF deleteResetOtp, Go
<1>4. latest' \in Secrets \union {None} /\ asked' \in Secrets \union {None} /\ disturbed' \in BOOLEAN
    BY DEF deleteResetOtp, IInv, TypeOK
<1> HIDE DEF r
<1> QED
    BY <1>1, <1>2, <1>3, <1>4, QuietKeeps
       DEF deleteResetOtp, IInv, TypeOK, passwordVars, sessionVars

LEMMA forgetResetOtpKeeps ==
    ASSUME IInv, NEW k \in Calls, NEW c \in Secrets, forgetResetOtp(k, c)
    PROVE  IInv'
<1> DEFINE r == [call[k] EXCEPT !.step = "storeToken", !.secret = c]
<1>1. r \in Call /\ r.step \in Quiet /\ r.since <= logins
      /\ (r.step \in {"storeOtp", "storeToken"} => r.secret # None)
    BY QuietCalls, SecretIsSome DEF Quiet, Call, Steps, Idle
<1>2. memory' \in [Servers -> Memory]
    BY AccountsAssumption DEF AccountsAssumption, forgetResetOtp, IInv, TypeOK, Memory
<1>3. /\ purpose' \in [Secrets -> Purposes]
      /\ \A d \in Secrets : purpose[d] # "unused" => purpose'[d] = purpose[d]
    BY DEF forgetResetOtp, Fresh, IInv, TypeOK, Purposes
<1>4. call' = [call EXCEPT ![k] = r]
    BY DEF forgetResetOtp, IInv, TypeOK, Call
<1> HIDE DEF r
<1> QED
    BY <1>1, <1>2, <1>3, <1>4, QuietKeeps
       DEF forgetResetOtp, IInv, TypeOK, passwordVars, sessionVars

LEMMA storeResetTokenKeeps ==
    ASSUME IInv, NEW k \in Calls, storeResetToken(k) \/ dropResetToken(k)
    PROVE  IInv'
<1>1. PICK r \in Call : /\ r.step \in Quiet \ {"storeOtp", "storeToken"} /\ r.since <= logins
                      /\ call' = [call EXCEPT ![k] = r]
  <2>1. [call[k] EXCEPT !.step = "forgetToken"] \in Call
        /\ [call[k] EXCEPT !.step = "forgetToken"].since <= logins
        /\ [call[k] EXCEPT !.step = "forgetToken"].step \in Quiet
      BY QuietCalls, SecretIsSome DEF Quiet, Call, Steps, Idle
  <2>2. /\ Idle \in Call /\ Idle.since <= logins
        /\ Idle.step \in Quiet \ {"storeOtp", "storeToken"}
      BY QuietCalls DEF Quiet
  <2>3. \/ call' = [call EXCEPT ![k] = [call[k] EXCEPT !.step = "forgetToken"]]
        \/ call' = [call EXCEPT ![k] = Idle]
      BY DEF storeResetToken, dropResetToken, Go, End
  <2>4. [call[k] EXCEPT !.step = "forgetToken"].step \in Quiet \ {"storeOtp", "storeToken"}
      BY QuietCalls DEF Quiet, Call
  <2> QED
      BY <2>1, <2>2, <2>3, <2>4
<1>2. redis' \in Store /\ redis'.login = redis.login
  <2>1. CASE dropResetToken(k)
      BY <2>1 DEF dropResetToken, IInv, TypeOK, Store
  <2>2. CASE storeResetToken(k)
    <3>1. call[k].secret \in Secrets
        BY <2>2 DEF IInv, EvidenceInv, OnItsWay, storeResetToken, At, None, TypeOK, Call
    <3> QED
        BY <2>2, <3>1 DEF storeResetToken, IInv, TypeOK, Store
  <2> QED
      BY <2>1, <2>2
<1> QED
    BY <1>1, <1>2, QuietKeeps
       DEF storeResetToken, dropResetToken, IInv, TypeOK, passwordVars, sessionVars

LEMMA forgetResetTokenKeeps ==
    ASSUME IInv, NEW k \in Calls, forgetResetToken(k)
    PROVE  IInv'
<1>1. call' = [call EXCEPT ![k] = Idle] /\ redis.login = redis'.login
    BY DEF forgetResetToken, End
<1>2. memory' \in [Servers -> Memory]
    BY AccountsAssumption DEF AccountsAssumption, forgetResetToken, IInv, TypeOK, Memory
<1> QED
    BY <1>1, <1>2, QuietCalls, QuietKeeps
       DEF Quiet, forgetResetToken, IInv, TypeOK, passwordVars, sessionVars

LEMMA resetPasswordWithTokenKeeps ==
    ASSUME IInv, NEW k \in Calls, NEW c \in Secrets, NEW p \in Passwords,
           resetPasswordWithToken(k, c, p)
    PROVE  IInv'
<1>1. TypeOK'
    BY DEF resetPasswordWithToken, Redeemable, Begin, TypeOK, IInv, Call, Steps, Idle, None,
       passwordVars, sessionVars, codeVars
<1>2. SessionInv'
    BY DEF resetPasswordWithToken, Redeemable, Begin, TypeOK, IInv, Idle, SessionInv,
       RenewalIsCurrent, sessionVars, codeVars, LogoutRevokesAll
<1>3. EvidenceInv'
    BY AccountsAssumption DEF resetPasswordWithToken, Redeemable, Begin, At, IInv,
       EvidenceInv, KeptAsIssued, OnItsWay, Earned, codeVars
<1> QED
    BY <1>1, <1>2, <1>3 DEF IInv

LEMMA saveResetKeeps ==
    ASSUME IInv, NEW k \in Calls, saveReset(k)
    PROVE  IInv'
<1>4. call[k].pass \in Passwords
    BY DEF IInv, TypeOK, Call, EvidenceInv, OnItsWay, At, saveReset, None
<1>1. TypeOK'
    <2>4. {"drop"} \subseteq Steps
        BY DEF Steps
    <2>6. call[k] \in Call /\ "drop" \in Steps
        BY <2>4 DEF IInv, TypeOK
    <2>5. [call[k] EXCEPT !.step = "drop"] \in Call
        BY <2>6, CallWith, <1>4 DEF IInv, TypeOK, SessionInv, None
    <2>1. call' \in [Calls -> Call]
        BY <2>5 DEF saveReset, SetPassword, Go, At, IInv, TypeOK
    <2>2. \A x \in Calls : call'[x].step = "mint" =>
             call'[x].token # None /\ token'[call'[x].token].state = "revoked"
        BY <2>1, <1>4 DEF saveReset, SetPassword, Go, IInv, TypeOK, SessionInv, sessionVars,
           codeVars
    <2> QED
        BY <2>1, <2>2, <1>4 DEF saveReset, SetPassword, IInv, TypeOK, codeVars, sessionVars
<1>2. SessionInv'
    BY <1>4 DEF saveReset, SetPassword, Go, IInv, SessionInv, RenewalIsCurrent, sessionVars,
       codeVars, LogoutRevokesAll
<1>3. EvidenceInv'
    BY <1>4 DEF saveReset, SetPassword, Go, At, IInv, EvidenceInv, KeptAsIssued, OnItsWay,
       Earned, codeVars
<1> QED
    BY <1>1, <1>2, <1>3 DEF IInv

LEMMA secretExpiresKeeps ==
    ASSUME IInv, NEW c \in Secrets, secretExpires(c)
    PROVE  IInv'
<1>1. TypeOK'
    BY DEF secretExpires, TypeOK, IInv, Store, Memory, sessionVars, codeVars, passwordVars
<1>2. SessionInv'
    BY DEF secretExpires, IInv, SessionInv, RenewalIsCurrent, sessionVars, codeVars,
       LogoutRevokesAll
<1>3. EvidenceInv'
    BY DEF secretExpires, IInv, EvidenceInv, KeptAsIssued, OnItsWay, Earned, At
<1> QED
    BY <1>1, <1>2, <1>3 DEF IInv

LEMMA redisChangesKeeps ==
    ASSUME IInv, redisChanges
    PROVE  IInv'
<1>1. TypeOK'
    BY DEF redisChanges, TypeOK, IInv, passwordVars, sessionVars, codeVars
<1>2. SessionInv'
    BY DEF redisChanges, IInv, SessionInv, RenewalIsCurrent, sessionVars, codeVars,
       LogoutRevokesAll
<1>3. EvidenceInv'
    BY DEF redisChanges, IInv, EvidenceInv, KeptAsIssued, OnItsWay, Earned, At
<1> QED
    BY <1>1, <1>2, <1>3 DEF IInv

LEMMA restartKeeps ==
    ASSUME IInv, NEW s \in Servers, restart(s)
    PROVE  IInv'
<1>1. TypeOK'
    BY DEF restart, TypeOK, IInv, Call, Steps, Idle, Memory, None, sessionVars, codeVars,
       passwordVars
<1>2. SessionInv'
    BY DEF restart, TypeOK, IInv, Idle, SessionInv, RenewalIsCurrent, sessionVars, codeVars,
       LogoutRevokesAll
<1>3. EvidenceInv'
    BY DEF restart, IInv, Idle, EvidenceInv, KeptAsIssued, OnItsWay, Earned, At
<1> QED
    BY <1>1, <1>2, <1>3 DEF IInv

-------------------------------------------------------------------------------
LEMMA InvNext == IInv /\ [Next]_vars => IInv'
<1> SUFFICES ASSUME IInv, [Next]_vars PROVE IInv'
    OBVIOUS
<1>1. CASE SignUp
    BY <1>1, createKeeps, insertKeeps, requestRegisterOtpKeeps,
       verifyRegisterOtpAndCreateKeeps DEF SignUp
<1>2. CASE Login
    BY <1>2, signinKeeps, rehashKeeps, issueSessionKeeps, issueRefreshTokenKeeps DEF Login
<1>3. CASE CodeLogin
    BY <1>3, requestLoginOtpKeeps, sendLoginOtpKeeps, verifyLoginOtpKeeps,
       consumeAuthOtpKeeps, isDeviceTrustedKeeps, touchDeviceKeeps, rememberDeviceKeeps,
       saveDeviceKeeps DEF CodeLogin
<1>4. CASE Renewal
    BY <1>4, refreshAccessTokenKeeps, mintKeeps, readUserKeeps, rotateKeeps,
       clearSessionKeeps, clearActiveKeeps, revokeAllRefreshTokensKeeps, tokenExpiresKeeps DEF
       Renewal
<1>5. CASE PasswordChange
    BY <1>5, changePasswordKeeps, resetPasswordKeeps, savePasswordKeeps DEF PasswordChange
<1>6. CASE Reset
    BY <1>6, requestPasswordResetKeeps, storeResetOtpKeeps, mailResetOtpKeeps,
       verifyResetOtpKeeps, readOwnMemoryKeeps, deleteResetOtpKeeps, forgetResetOtpKeeps,
       storeResetTokenKeeps, resetPasswordWithTokenKeeps, saveResetKeeps,
       forgetResetTokenKeeps DEF Reset
<1>7. CASE Environment
    BY <1>7, secretExpiresKeeps, redisChangesKeeps, restartKeeps DEF Environment
<1>8. CASE UNCHANGED vars
    BY <1>8 DEF vars, sessionVars, passwordVars, codeVars, IInv, TypeOK, SessionInv,
       EvidenceInv,
       KeptAsIssued, OnItsWay, Earned, At, RenewalIsCurrent, LogoutRevokesAll
<1> QED
    BY <1>1, <1>2, <1>3, <1>4, <1>5, <1>6, <1>7, <1>8 DEF Next

LEMMA InvAlways == Spec => []IInv
    BY InvInit, InvNext, PTL DEF Spec

\* Sessions, tokens, codes and what the calls in flight know are what they are
\* declared to be: a token that is rotated is still there to be revoked.
THEOREM TypeInvariant == Spec => []TypeOK
<1>1. IInv => TypeOK
    BY DEF IInv
<1> QED
    BY <1>1, InvAlways, PTL

\* A renewed access token names no session that was superseded before the renewal
\* began (refreshAccessToken, users.service.ts).
THEOREM RenewalsCurrent == Spec => []RenewalIsCurrent
<1>1. IInv => RenewalIsCurrent
    BY DEF IInv, SessionInv
<1> QED
    BY <1>1, InvAlways, PTL

\* No refresh token outlives a logout (revokeAllRefreshTokens, users.service.ts).
THEOREM LogoutsRevoke == Spec => []LogoutRevokesAll
<1>1. IInv => LogoutRevokesAll
    BY DEF IInv, SessionInv
<1> QED
    BY <1>1, InvAlways, PTL

\* Every session is issued for the password, or for a secret that was given to the
\* owner of the account for it.
THEOREM LoginsEarned == Spec => LoginIsEarned
<1>1. IInv => [\A k \in Calls : At(k, "issue") /\ At(k, "signed")' => Earned(k)]_vars
    BY DEF IInv, EvidenceInv, OnItsWay
<1> QED
    BY <1>1, InvAlways, PTL DEF LoginIsEarned

-------------------------------------------------------------------------------
(***************************************************************************)
(* The code of a reset.  While nothing has failed, Redis has the one that  *)
(* was mailed last, and, of the only request under way, the one that will  *)
(* be mailed next, whichever server handled them.                          *)
(***************************************************************************)
Alone == \A j, k \in Calls : AskingReset(j) /\ AskingReset(k) => j = k

CodeInv ==
    ~disturbed =>
        /\ up
        /\ latest # None =>
              redis.reset = latest /\ asked = None /\ \A k \in Calls : ~AskingReset(k)
        /\ asked # None =>
              /\ Alone
              /\ \A k \in Calls : AskingReset(k) => call[k].secret = asked
              /\ \A k \in Calls : At(k, "mailOtp") => redis.reset = asked

\* No request for a code begins or goes on but by its own steps.
Steady == \A x \in Calls : call'[x].step \in {"storeOtp", "mailOtp"} => call'[x] = call[x]

LEMMA OthersSteady ==
    ASSUME IInv, Next,
           \A k \in Calls : /\ ~storeResetOtp(k)
                            /\ \A c \in Secrets : ~requestPasswordReset(k, c)
                            /\ \A sent \in BOOLEAN : ~mailResetOtp(k, sent)
    PROVE  Steady
<1> USE DEF Steady
<1>0. call \in [Calls -> Call] /\ \A k \in Calls : OnItsWay(k)
    BY DEF IInv, TypeOK, EvidenceInv
<1>1. CASE SignUp
    <2>1. ASSUME NEW k \in Calls, create(k) PROVE Steady
        BY <1>0, <2>1 DEF create, Begin, Idle, At, Call
    <2>2. ASSUME NEW k \in Calls, insert(k) PROVE Steady
        BY <1>0, <2>2 DEF insert, End, Idle, At, Call
    <2>3. ASSUME NEW c \in Secrets, requestRegisterOtp(c) PROVE Steady
        BY <1>0, <2>3 DEF requestRegisterOtp, Idle, At, Call
    <2>4. ASSUME NEW k \in Calls, NEW c \in Secrets, verifyRegisterOtpAndCreate(k, c) PROVE Steady
        BY <1>0, <2>4 DEF verifyRegisterOtpAndCreate, readAuthOtp, Begin, Idle, At, Call
    <2> QED
        BY <1>1, <2>1, <2>2, <2>3, <2>4 DEF SignUp
<1>2. CASE Login
    <2>1. ASSUME NEW k \in Calls, NEW p \in Passwords, signin(k, p) PROVE Steady
        BY <1>0, <2>1 DEF signin, validateCredentials, Begin, Idle, At, Call
    <2>2. ASSUME NEW k \in Calls, rehash(k) PROVE Steady
        BY <1>0, <2>2 DEF rehash, Go, OnItsWay, Idle, At, Call
    <2>3. ASSUME NEW k \in Calls, issueSession(k) PROVE Steady
        BY <1>0, <2>3 DEF issueSession, Idle, At, Call
    <2>4. ASSUME NEW k \in Calls, NEW t \in Tokens, NEW b \in BOOLEAN, issueRefreshToken(k, t, b)
          PROVE  Steady
        BY <1>0, <2>4 DEF issueRefreshToken, Go, End, Idle, At, Call
    <2> QED
        BY <1>2, <2>1, <2>2, <2>3, <2>4 DEF Login
<1>3. CASE CodeLogin
    <2>1. ASSUME NEW k \in Calls, NEW p \in Passwords, requestLoginOtp(k, p) PROVE Steady
        BY <1>0, <2>1 DEF requestLoginOtp, validateCredentials, Begin, Idle, At, Call
    <2>2. ASSUME NEW k \in Calls, NEW c \in Secrets, sendLoginOtp(k, c) PROVE Steady
        BY <1>0, <2>2 DEF sendLoginOtp, End, Idle, At, Call
    <2>3. ASSUME NEW k \in Calls, NEW c \in Secrets, verifyLoginOtp(k, c) PROVE Steady
        BY <1>0, <2>3 DEF verifyLoginOtp, readAuthOtp, Begin, Idle, At, Call
    <2>4. ASSUME NEW k \in Calls, consumeAuthOtp(k) PROVE Steady
        BY <1>0, <2>4 DEF consumeAuthOtp, Go, End, Idle, At, Call
    <2>5. ASSUME NEW k \in Calls, NEW d \in DeviceRows, isDeviceTrusted(k, d) PROVE Steady
        BY <1>0, <2>5 DEF isDeviceTrusted, Idle, At, Call
    <2>6. ASSUME NEW k \in Calls, touchDevice(k) PROVE Steady
        BY <1>0, <2>6 DEF touchDevice, Go, Idle, At, Call
    <2>7. ASSUME NEW k \in Calls, rememberDevice(k) PROVE Steady
        BY <1>0, <2>7 DEF rememberDevice, Go, Idle, At, Call
    <2>8. ASSUME NEW k \in Calls, NEW d \in DeviceRows, NEW c \in Secrets, saveDevice(k, d, c)
          PROVE  Steady
        BY <1>0, <2>8 DEF saveDevice, End, Idle, At, Call
    <2> QED
        BY <1>3, <2>1, <2>2, <2>3, <2>4, <2>5, <2>6, <2>7, <2>8 DEF CodeLogin
<1>4. CASE Renewal
    <2>1. ASSUME NEW k \in Calls, NEW t \in Tokens, refreshAccessToken(k, t) PROVE Steady
        BY <1>0, <2>1 DEF refreshAccessToken, Begin, Idle, At, Call
    <2>2. ASSUME NEW k \in Calls, NEW t \in Tokens, mint(k, t) PROVE Steady
        BY <1>0, <2>2 DEF mint, End, Idle, At, Call
    <2>3. ASSUME NEW k \in Calls, readUser(k) PROVE Steady
        BY <1>0, <2>3 DEF readUser, Idle, At, Call
    <2>4. ASSUME NEW k \in Calls, rotate(k) PROVE Steady
        BY <1>0, <2>4 DEF rotate, Go, Idle, At, Call
    <2>5. ASSUME NEW k \in Calls, NEW n \in 0..logins, clearSession(k, n) PROVE Steady
        BY <1>0, <2>5 DEF clearSession, Begin, Idle, At, Call
    <2>6. ASSUME NEW k \in Calls, clearActive(k) PROVE Steady
        BY <1>0, <2>6 DEF clearActive, Go, Idle, At, Call
    <2>7. ASSUME NEW k \in Calls, revokeAllRefreshTokens(k) PROVE Steady
        BY <1>0, <2>7 DEF revokeAllRefreshTokens, End, Idle, At, Call
    <2>8. ASSUME NEW t \in Tokens, tokenExpires(t) PROVE Steady
        BY <1>0, <2>8 DEF tokenExpires, Idle, At, Call
    <2> QED
        BY <1>4, <2>1, <2>2, <2>3, <2>4, <2>5, <2>6, <2>7, <2>8 DEF Renewal
<1>5. CASE PasswordChange
    <2>1. ASSUME NEW k \in Calls, NEW p \in Passwords, NEW q \in Passwords, changePassword(k, p, q)
          PROVE  Steady
        BY <1>0, <2>1 DEF changePassword, Begin, Idle, At, Call
    <2>2. ASSUME NEW k \in Calls, NEW p \in Passwords, resetPassword(k, p) PROVE Steady
        BY <1>0, <2>2 DEF resetPassword, Begin, Idle, At, Call
    <2>3. ASSUME NEW k \in Calls, savePassword(k) PROVE Steady
        BY <1>0, <2>3 DEF savePassword, End, Idle, At, Call
    <2> QED
        BY <1>5, <2>1, <2>2, <2>3 DEF PasswordChange
<1>6. CASE Reset
    <2>1. ASSUME NEW k \in Calls, NEW c \in Secrets, verifyResetOtp(k, c) PROVE Steady
        BY <1>0, <2>1 DEF verifyResetOtp, Begin, Idle, At, Call
    <2>2. ASSUME NEW k \in Calls, readOwnMemory(k) PROVE Steady
        BY <1>0, <2>2 DEF readOwnMemory, Go, End, Idle, At, Call
    <2>3. ASSUME NEW k \in Calls, deleteResetOtp(k) PROVE Steady
        BY <1>0, <2>3 DEF deleteResetOtp, Go, Idle, At, Call
    <2>4. ASSUME NEW k \in Calls, NEW c \in Secrets, forgetResetOtp(k, c) PROVE Steady
        BY <1>0, <2>4 DEF forgetResetOtp, Idle, At, Call
    <2>5. ASSUME NEW k \in Calls, storeResetToken(k) PROVE Steady
        BY <1>0, <2>5 DEF storeResetToken, End, Idle, At, Call
    <2>6. ASSUME NEW k \in Calls, NEW c \in Secrets, NEW p \in Passwords, resetPasswordWithToken(k, c, p)
          PROVE  Steady
        BY <1>0, <2>6 DEF resetPasswordWithToken, Begin, Idle, At, Call
    <2>7. ASSUME NEW k \in Calls, saveReset(k) PROVE Steady
        BY <1>0, <2>7 DEF saveReset, Go, Idle, At, Call
    <2>8. ASSUME NEW k \in Calls, dropResetToken(k) PROVE Steady
        BY <1>0, <2>8 DEF dropResetToken, Go, Idle, At, Call
    <2>9. ASSUME NEW k \in Calls, forgetResetToken(k) PROVE Steady
        BY <1>0, <2>9 DEF forgetResetToken, End, Idle, At, Call
    <2> QED
        BY <1>6, <2>1, <2>2, <2>3, <2>4, <2>5, <2>6, <2>7, <2>8, <2>9 DEF Reset
<1>7. CASE Environment
    <2>1. ASSUME NEW c \in Secrets, secretExpires(c) PROVE Steady
        BY <1>0, <2>1 DEF secretExpires, Idle, At, Call
    <2>2. ASSUME redisChanges PROVE Steady
        BY <1>0, <2>2 DEF redisChanges, Idle, At, Call
    <2>3. ASSUME NEW s \in Servers, restart(s) PROVE Steady
        BY <1>0, <2>3 DEF restart, Idle, At, Call
    <2> QED
        BY <1>7, <2>1, <2>2, <2>3 DEF Environment
<1> QED
    BY <1>1, <1>2, <1>3, <1>4, <1>5, <1>6, <1>7 DEF Next

\* Of a step that leaves requests alone, what it does to codes is left.
LEMMA SteadyKeeps ==
    ASSUME CodeInv, Steady,
           \/ disturbed'
           \/ /\ ~disturbed /\ up' = up
              /\ latest' \in {latest, None} /\ asked' \in {asked, None}
              /\ redis'.reset # redis.reset => redis.reset \notin {latest', asked'} \ {None}
    PROVE  CodeInv'
<1> SUFFICES ASSUME ~disturbed' PROVE CodeInv'
    BY DEF CodeInv
<1>1. ~disturbed /\ up /\ up' = up /\ latest' \in {latest, None} /\ asked' \in {asked, None}
    BY DEF CodeInv
<1>2. \A k \in Calls : call'[k].step \in {"storeOtp", "mailOtp"} =>
          AskingReset(k) /\ call'[k] = call[k]
    BY DEF Steady, AskingReset
<1>3. ASSUME latest' # None
      PROVE  redis'.reset = latest' /\ asked' = None /\ \A k \in Calls : ~AskingReset(k)'
    BY <1>1, <1>2, <1>3 DEF CodeInv, AskingReset
<1>4. ASSUME asked' # None
      PROVE  /\ Alone'
             /\ \A k \in Calls : AskingReset(k)' => call'[k].secret = asked'
             /\ \A k \in Calls : At(k, "mailOtp")' => redis'.reset = asked'
    BY <1>1, <1>2, <1>4 DEF CodeInv, AskingReset, Alone, At
<1> QED
    BY <1>1, <1>3, <1>4 DEF CodeInv

LEMMA CodeKept ==
    ASSUME IInv, CodeInv, [Next]_vars
    PROVE  CodeInv'
<1>0. /\ redis \in Store /\ call \in [Calls -> Call] /\ None \notin Secrets
      /\ \A k \in Calls : OnItsWay(k)
    BY AccountsAssumption DEF AccountsAssumption, IInv, TypeOK, EvidenceInv
<1>1. ASSUME NEW k \in Calls, NEW c \in Secrets, requestPasswordReset(k, c)
      PROVE  CodeInv'
    <2>1. /\ call'[k].step = "storeOtp" /\ call'[k].secret = c /\ latest' = None
          /\ \A x \in Calls \ {k} : call'[x] = call[x]
          /\ asked' = IF \E j \in Calls : AskingReset(j) THEN None ELSE c
          /\ UNCHANGED <<up, disturbed>>
        BY <1>0, <1>1 DEF requestPasswordReset, Begin, Idle
    <2>2. ASSUME asked' # None
          PROVE  \A x \in Calls : AskingReset(x)' => x = k
        BY <2>1, <2>2 DEF AskingReset
    <2> QED
        BY <2>1, <2>2 DEF CodeInv, Alone, AskingReset, At
<1>2. ASSUME NEW k \in Calls, storeResetOtp(k)
      PROVE  CodeInv'
    <2>1. /\ call'[k].step = "mailOtp" /\ call'[k].secret = call[k].secret
          /\ \A x \in Calls \ {k} : call'[x] = call[x]
          /\ AskingReset(k) /\ UNCHANGED <<up, disturbed, latest, asked>>
        BY <1>0, <1>2 DEF storeResetOtp, Go, Call, AskingReset, At
    <2>2. up => redis'.reset = call[k].secret
        BY <1>0, <1>2 DEF storeResetOtp, Store
    <2> QED
        BY <2>1, <2>2 DEF CodeInv, Alone, AskingReset, At
<1>3. ASSUME NEW k \in Calls, NEW sent \in BOOLEAN, mailResetOtp(k, sent)
      PROVE  CodeInv'
    <2>1. /\ call'[k].step = "idle" /\ \A x \in Calls \ {k} : call'[x] = call[x]
          /\ AskingReset(k) /\ At(k, "mailOtp") /\ UNCHANGED <<up, disturbed, redis>>
        BY <1>0, <1>3 DEF mailResetOtp, End, Idle, AskingReset, At
    <2>2. CASE asked = call[k].secret /\ asked # None
        <3>1. asked' = None /\ latest' \in {latest, asked}
            BY <1>3, <2>2 DEF mailResetOtp
        <3> QED
            BY <2>1, <2>2, <3>1 DEF CodeInv, Alone, AskingReset, At
    <2>3. CASE asked = None
        <3>1. asked' = None /\ latest' \in {latest, None}
            BY <1>3, <2>3 DEF mailResetOtp
        <3> QED
            BY <2>1, <2>3, <3>1 DEF CodeInv, AskingReset, At
    <2>4. CASE asked # call[k].secret /\ asked # None
        BY <1>3, <2>1, <2>4 DEF mailResetOtp, CodeInv, Alone, AskingReset, At
    <2> QED
        BY <2>2, <2>3, <2>4
<1>4. CASE UNCHANGED vars
    BY <1>4 DEF vars, codeVars, CodeInv, Alone, AskingReset, At
<1>5. CASE /\ Next
           /\ \A k \in Calls : /\ ~storeResetOtp(k)
                               /\ \A c \in Secrets : ~requestPasswordReset(k, c)
                               /\ \A sent \in BOOLEAN : ~mailResetOtp(k, sent)
    <2>0. Steady
        BY <1>5, OthersSteady
    <2>1. ASSUME UNCHANGED <<codeVars, up>> PROVE CodeInv'
        BY <2>0, <2>1, SteadyKeeps DEF codeVars
    <2>2. ASSUME UNCHANGED <<latest, asked, disturbed, up>>, redis'.reset = redis.reset PROVE CodeInv'
        BY <2>0, <2>2, SteadyKeeps
    <2>3. ASSUME NEW c \in Secrets, NEW use \in {"login", "register"}, generateAuthOtp(c, use),
                 UNCHANGED up
          PROVE  CodeInv'
        BY <1>0, <2>2, <2>3 DEF generateAuthOtp, Store
    <2>4. CASE SignUp
        BY <2>1, <2>3, <2>4 DEF SignUp, create, insert, requestRegisterOtp,
           verifyRegisterOtpAndCreate, readAuthOtp
    <2>5. CASE Login
        BY <2>1, <2>5 DEF Login, signin, validateCredentials, rehash, issueSession,
           issueRefreshToken
    <2>6. CASE CodeLogin
        <3>1. ASSUME NEW k \in Calls, consumeAuthOtp(k) PROVE CodeInv'
            BY <1>0, <2>2, <3>1 DEF consumeAuthOtp, Store
        <3>2. ASSUME NEW k \in Calls, NEW d \in DeviceRows, NEW c \in Secrets, saveDevice(k, d, c)
              PROVE  CodeInv'
            BY <2>2, <3>2 DEF saveDevice
        <3> QED
            BY <2>1, <2>3, <2>6, <3>1, <3>2 DEF CodeLogin, requestLoginOtp, validateCredentials,
               sendLoginOtp, verifyLoginOtp, readAuthOtp, isDeviceTrusted, touchDevice,
               rememberDevice
    <2>7. CASE Renewal
        BY <2>1, <2>7 DEF Renewal, refreshAccessToken, mint, readUser, rotate, clearSession,
           clearActive, revokeAllRefreshTokens, tokenExpires
    <2>8. CASE PasswordChange
        BY <2>1, <2>8 DEF PasswordChange, changePassword, resetPassword, savePassword
    <2>9. CASE Reset
        <3>1. ASSUME NEW k \in Calls, deleteResetOtp(k) PROVE CodeInv'
            <4>1. /\ disturbed' = (disturbed \/ redis.reset \notin {None, call[k].secret})
                  /\ up' = up
                  /\ latest' = IF latest = call[k].secret THEN None ELSE latest
                  /\ asked' = IF asked = call[k].secret THEN None ELSE asked
                BY <3>1 DEF deleteResetOtp
            <4>2. CASE disturbed'
                BY <2>0, <4>2, SteadyKeeps
            <4>3. CASE ~disturbed'
                <5>1. ~disturbed /\ redis.reset \in {None, call[k].secret}
                    BY <4>1, <4>3
                <5>2. redis.reset \notin {latest', asked'} \ {None}
                    BY <4>1, <5>1
                <5> QED
                    BY <2>0, <4>1, <5>1, <5>2, SteadyKeeps
            <4> QED
                BY <4>2, <4>3
        <3>2. ASSUME NEW k \in Calls,
                     (\E c \in Secrets : forgetResetOtp(k, c)) \/ storeResetToken(k)
                     \/ dropResetToken(k) \/ forgetResetToken(k)
              PROVE  CodeInv'
            BY <1>0, <2>2, <3>2 DEF forgetResetOtp, storeResetToken, dropResetToken,
               forgetResetToken, Store
        <3> QED
            BY <1>5, <2>1, <2>9, <3>1, <3>2 DEF Reset, verifyResetOtp, readOwnMemory,
               resetPasswordWithToken, saveReset
    <2>10. CASE Environment
        <3>1. ASSUME NEW c \in Secrets, secretExpires(c) PROVE CodeInv'
            <4>1. /\ UNCHANGED <<up, disturbed>>
                  /\ redis'.reset = IF redis.reset = c THEN None ELSE redis.reset
                  /\ latest' = IF latest = c THEN None ELSE latest
                  /\ asked' = IF asked = c THEN None ELSE asked
                BY <3>1 DEF secretExpires
            <4> QED
                BY <2>0, <4>1, SteadyKeeps
        <3>2. ASSUME redisChanges PROVE CodeInv'
            BY <2>0, <3>2, SteadyKeeps DEF redisChanges
        <3> QED
            BY <2>2, <2>10, <3>1, <3>2 DEF Environment, restart
    <2> QED
        BY <1>5, <2>4, <2>5, <2>6, <2>7, <2>8, <2>9, <2>10 DEF Next
<1> QED
    BY <1>1, <1>2, <1>3, <1>4, <1>5

\* The reset code mailed last works on every server (verifyResetOtp, users.service.ts),
\* for any number of servers and of requests and verifications at any of their steps,
\* but for a code whose request overlapped another, a failure of Redis and an older
\* code's verification.
THEOREM LatestCodesWork == Spec => []LatestResetCodeWorks
<1>1. Init => CodeInv
    BY DEF Init, CodeInv, Idle, AskingReset, At
<1>2. CodeInv => LatestResetCodeWorks
    BY DEF CodeInv, LatestResetCodeWorks, StoredReset, Stored
<1> QED
    BY <1>1, <1>2, InvAlways, CodeKept, PTL DEF Spec

-------------------------------------------------------------------------------
(***************************************************************************)
(* The password.  Only an account that was old enough has it in plain      *)
(* text, and only such a one has logins that save the row they read.       *)
(***************************************************************************)
PasswordInv ==
    /\ password.plain => legacy
    /\ \A k \in Calls : At(k, "rehash") => legacy

LEMMA PasswordKept ==
    ASSUME IInv, PasswordInv, [Next]_vars
    PROVE  PasswordInv'
<1> DEFINE Kept == /\ legacy' = legacy
                   /\ password'.plain => password.plain
                   /\ \A x \in Calls : At(x, "rehash")' => At(x, "rehash") \/ password.plain
<1> SUFFICES ASSUME Next PROVE Kept
    BY DEF PasswordInv, vars, passwordVars, At
<1>0. call \in [Calls -> Call] /\ \A k \in Calls : OnItsWay(k)
    BY DEF IInv, TypeOK, EvidenceInv
<1>1. CASE SignUp
    <2>1. ASSUME NEW k \in Calls, create(k) PROVE Kept
        BY <1>0, <2>1 DEF create, Begin, Idle, At, Call, passwordVars
    <2>2. ASSUME NEW k \in Calls, insert(k) PROVE Kept
        BY <1>0, <2>2 DEF insert, End, Idle, At, Call, passwordVars
    <2>3. ASSUME NEW c \in Secrets, requestRegisterOtp(c) PROVE Kept
        BY <1>0, <2>3 DEF requestRegisterOtp, At, Call, passwordVars
    <2>4. ASSUME NEW k \in Calls, NEW c \in Secrets, verifyRegisterOtpAndCreate(k, c) PROVE Kept
        BY <1>0, <2>4 DEF verifyRegisterOtpAndCreate, readAuthOtp, Begin, At, passwordVars
    <2> QED
        BY <1>1, <2>1, <2>2, <2>3, <2>4 DEF SignUp
<1>2. CASE Login
    <2>1. ASSUME NEW k \in Calls, NEW p \in Passwords, signin(k, p) PROVE Kept
        BY <1>0, <2>1 DEF signin, validateCredentials, Begin, At, passwordVars
    <2>2. ASSUME NEW k \in Calls, rehash(k) PROVE Kept
        BY <1>0, <2>2 DEF rehash, SetPassword, Go, OnItsWay, At, passwordVars
    <2>3. ASSUME NEW k \in Calls, issueSession(k) PROVE Kept
        BY <1>0, <2>3 DEF issueSession, At, Call, passwordVars
    <2>4. ASSUME NEW k \in Calls, NEW t \in Tokens, NEW remember \in BOOLEAN, issueRefreshToken(k, t, remember)
          PROVE  Kept
        BY <1>0, <2>4 DEF issueRefreshToken, Go, End, Idle, At, Call, passwordVars
    <2> QED
        BY <1>2, <2>1, <2>2, <2>3, <2>4 DEF Login
<1>3. CASE CodeLogin
    <2>1. ASSUME NEW k \in Calls, NEW p \in Passwords, requestLoginOtp(k, p) PROVE Kept
        BY <1>0, <2>1 DEF requestLoginOtp, validateCredentials, Begin, At, passwordVars
    <2>2. ASSUME NEW k \in Calls, NEW c \in Secrets, sendLoginOtp(k, c) PROVE Kept
        BY <1>0, <2>2 DEF sendLoginOtp, End, Idle, At, Call, passwordVars
    <2>3. ASSUME NEW k \in Calls, NEW c \in Secrets, verifyLoginOtp(k, c) PROVE Kept
        BY <1>0, <2>3 DEF verifyLoginOtp, readAuthOtp, Begin, At, passwordVars
    <2>4. ASSUME NEW k \in Calls, consumeAuthOtp(k) PROVE Kept
        BY <1>0, <2>4 DEF consumeAuthOtp, Go, End, Idle, At, Call, passwordVars
    <2>5. ASSUME NEW k \in Calls, NEW d \in DeviceRows, isDeviceTrusted(k, d) PROVE Kept
        BY <1>0, <2>5 DEF isDeviceTrusted, At, Call, passwordVars
    <2>6. ASSUME NEW k \in Calls, touchDevice(k) PROVE Kept
        BY <1>0, <2>6 DEF touchDevice, Go, At, Call, passwordVars
    <2>7. ASSUME NEW k \in Calls, rememberDevice(k) PROVE Kept
        BY <1>0, <2>7 DEF rememberDevice, Go, At, Call, passwordVars
    <2>8. ASSUME NEW k \in Calls, NEW d \in DeviceRows, NEW c \in Secrets, saveDevice(k, d, c)
          PROVE  Kept
        BY <1>0, <2>8 DEF saveDevice, End, Idle, At, Call, passwordVars
    <2> QED
        BY <1>3, <2>1, <2>2, <2>3, <2>4, <2>5, <2>6, <2>7, <2>8 DEF CodeLogin
<1>4. CASE Renewal
    <2>1. ASSUME NEW k \in Calls, NEW t \in Tokens, refreshAccessToken(k, t) PROVE Kept
        BY <1>0, <2>1 DEF refreshAccessToken, Begin, Idle, At, passwordVars
    <2>2. ASSUME NEW k \in Calls, NEW t \in Tokens, mint(k, t) PROVE Kept
        BY <1>0, <2>2 DEF mint, End, Idle, At, Call, passwordVars
    <2>3. ASSUME NEW k \in Calls, readUser(k) PROVE Kept
        BY <1>0, <2>3 DEF readUser, At, Call, passwordVars
    <2>4. ASSUME NEW k \in Calls, rotate(k) PROVE Kept
        BY <1>0, <2>4 DEF rotate, Go, At, Call, passwordVars
    <2>5. ASSUME NEW k \in Calls, NEW sid \in 0..logins, clearSession(k, sid) PROVE Kept
        BY <1>0, <2>5 DEF clearSession, Begin, Idle, At, Call, passwordVars
    <2>6. ASSUME NEW k \in Calls, clearActive(k) PROVE Kept
        BY <1>0, <2>6 DEF clearActive, Go, At, Call, passwordVars
    <2>7. ASSUME NEW k \in Calls, revokeAllRefreshTokens(k) PROVE Kept
        BY <1>0, <2>7 DEF revokeAllRefreshTokens, End, Idle, At, passwordVars
    <2>8. ASSUME NEW t \in Tokens, tokenExpires(t) PROVE Kept
        BY <1>0, <2>8 DEF tokenExpires, At, Call, passwordVars
    <2> QED
        BY <1>4, <2>1, <2>2, <2>3, <2>4, <2>5, <2>6, <2>7, <2>8 DEF Renewal
<1>5. CASE PasswordChange
    <2>1. ASSUME NEW k \in Calls, NEW p \in Passwords, NEW q \in Passwords, changePassword(k, p, q)
          PROVE  Kept
        BY <1>0, <2>1 DEF changePassword, Begin, Idle, At, Call, passwordVars
    <2>2. ASSUME NEW k \in Calls, NEW p \in Passwords, resetPassword(k, p) PROVE Kept
        BY <1>0, <2>2 DEF resetPassword, Begin, Idle, At, Call, passwordVars
    <2>3. ASSUME NEW k \in Calls, savePassword(k) PROVE Kept
        BY <1>0, <2>3 DEF savePassword, SetPassword, End, Idle, At
    <2> QED
        BY <1>5, <2>1, <2>2, <2>3 DEF PasswordChange
<1>6. CASE Reset
    <2>1. ASSUME NEW k \in Calls, NEW c \in Secrets, requestPasswordReset(k, c) PROVE Kept
        BY <1>0, <2>1 DEF requestPasswordReset, Begin, Idle, At, Call, passwordVars
    <2>2. ASSUME NEW k \in Calls, storeResetOtp(k) PROVE Kept
        BY <1>0, <2>2 DEF storeResetOtp, Go, Idle, At, Call, passwordVars
    <2>3. ASSUME NEW k \in Calls, NEW b \in BOOLEAN, mailResetOtp(k, b) PROVE Kept
        BY <1>0, <2>3 DEF mailResetOtp, End, Idle, At, Call, passwordVars
    <2>4. ASSUME NEW k \in Calls, NEW c \in Secrets, verifyResetOtp(k, c) PROVE Kept
        BY <1>0, <2>4 DEF verifyResetOtp, Begin, Idle, At, Call, passwordVars
    <2>5. ASSUME NEW k \in Calls, readOwnMemory(k) PROVE Kept
        BY <1>0, <2>5 DEF readOwnMemory, Go, End, Idle, At, Call, passwordVars
    <2>6. ASSUME NEW k \in Calls, deleteResetOtp(k) PROVE Kept
        BY <1>0, <2>6 DEF deleteResetOtp, Go, Idle, At, Call, passwordVars
    <2>7. ASSUME NEW k \in Calls, NEW c \in Secrets, forgetResetOtp(k, c) PROVE Kept
        BY <1>0, <2>7 DEF forgetResetOtp, Idle, At, Call, passwordVars
    <2>8. ASSUME NEW k \in Calls, storeResetToken(k) PROVE Kept
        BY <1>0, <2>8 DEF storeResetToken, End, Idle, At, Call, passwordVars
    <2>9. ASSUME NEW k \in Calls, NEW c \in Secrets, NEW p \in Passwords, resetPasswordWithToken(k, c, p)
          PROVE  Kept
        BY <1>0, <2>9 DEF resetPasswordWithToken, Begin, Idle, At, Call, passwordVars
    <2>10. ASSUME NEW k \in Calls, saveReset(k) PROVE Kept
        BY <1>0, <2>10 DEF saveReset, Go, SetPassword, Idle, At, Call, passwordVars
    <2>11. ASSUME NEW k \in Calls, dropResetToken(k) PROVE Kept
        BY <1>0, <2>11 DEF dropResetToken, Go, Idle, At, Call, passwordVars
    <2>12. ASSUME NEW k \in Calls, forgetResetToken(k) PROVE Kept
        BY <1>0, <2>12 DEF forgetResetToken, End, Idle, At, Call, passwordVars
    <2> QED
        BY <1>6, <2>1, <2>2, <2>3, <2>4, <2>5, <2>6, <2>7, <2>8, <2>9, <2>10, <2>11, <2>12 DEF Reset
<1>7. CASE Environment
    <2>1. ASSUME NEW c \in Secrets, secretExpires(c) PROVE Kept
        BY <1>0, <2>1 DEF secretExpires, At, Call, passwordVars
    <2>2. ASSUME redisChanges PROVE Kept
        BY <1>0, <2>2 DEF redisChanges, At, Call, passwordVars
    <2>3. ASSUME NEW s \in Servers, restart(s) PROVE Kept
        BY <1>0, <2>3 DEF restart, Idle, At, Call, passwordVars
    <2> QED
        BY <1>7, <2>1, <2>2, <2>3 DEF Environment
<1> QED
    BY <1>1, <1>2, <1>3, <1>4, <1>5, <1>6, <1>7 DEF Next

\* A password that was replaced comes back only by the user's choice or, if the
\* account was old enough, by a login that hashes it (validateCredentials,
\* users.service.ts).
THEOREM ReplacedPasswordsStayOut == Spec => ReplacedStaysOut
<1> DEFINE Chosen == \E k \in Calls :
                        /\ ~At(k, call'[k].step)
                        /\ call[k].step \in {"save", "reset"} \/ (legacy /\ At(k, "rehash"))
                        /\ call[k].pass = password'.value
           Back == password'.value # password.value /\ password'.value \in replaced
<1>1. Init => PasswordInv
    BY DEF Init, PasswordInv, Idle, At
<1>2. IInv /\ PasswordInv /\ [Next]_vars => [Back => Chosen]_vars
    <2> SUFFICES ASSUME IInv, PasswordInv, Next, password' # password PROVE Chosen
        BY DEF vars, passwordVars
    <2>0. call \in [Calls -> Call]
        BY DEF IInv, TypeOK
    <2>1. PICK k \in Calls : rehash(k) \/ savePassword(k) \/ saveReset(k)
        BY DEF Next, SignUp, create, insert, requestRegisterOtp, verifyRegisterOtpAndCreate,
           readAuthOtp, Login, signin, validateCredentials, issueSession, issueRefreshToken,
           CodeLogin, requestLoginOtp, sendLoginOtp, verifyLoginOtp, consumeAuthOtp,
           isDeviceTrusted, touchDevice, rememberDevice, saveDevice, Renewal,
           refreshAccessToken, mint, readUser, rotate, clearSession, clearActive,
           revokeAllRefreshTokens, tokenExpires, PasswordChange, changePassword, resetPassword,
           Reset, requestPasswordReset, storeResetOtp, mailResetOtp, verifyResetOtp,
           readOwnMemory, deleteResetOtp, forgetResetOtp, storeResetToken,
           resetPasswordWithToken, dropResetToken, forgetResetToken, Environment, secretExpires, redisChanges, restart, passwordVars,
           codeVars
    <2>2. /\ call[k].step \in {"save", "reset"} \/ (legacy /\ At(k, "rehash"))
          /\ call[k].pass = password'.value
        BY <2>1 DEF rehash, savePassword, saveReset, SetPassword, PasswordInv, At
    <2>3. ~At(k, call'[k].step)
        <3>1. CASE rehash(k)
            BY <2>0, <3>1 DEF rehash, Go, Call, At, IInv, EvidenceInv, OnItsWay
        <3>2. CASE savePassword(k)
            BY <2>0, <3>2 DEF savePassword, End, Idle, Call, At
        <3>3. CASE saveReset(k)
            BY <2>0, <3>3 DEF saveReset, Go, Call, At
        <3> QED
            BY <2>1, <3>1, <3>2, <3>3
    <2> QED
        BY <2>2, <2>3
<1> QED
    BY <1>1, <1>2, InvAlways, PasswordKept, PTL DEF Spec, ReplacedStaysOut
================================================================================
