------------------------------- MODULE MCAccounts -------------------------------
(* Two servers with a call each.  What a behaviour is about is chosen      *)
(* first: signing up and logging in with codes, renewal and logout, the    *)
(* passwords, or reset codes with failures.                                *)
EXTENDS Accounts

CONSTANTS k1, k2, s1, s2

VARIABLE topic   \* bound: the handlers that a behaviour runs

MCServerOf == [k \in {k1, k2} |-> IF k = k1 THEN s1 ELSE s2]

MCInit ==
    /\ Init
    /\ \/ topic = "codes" /\ ~legacy
       \/ topic = "renewal" /\ ~legacy /\ accounts = 1
       \/ topic = "passwords" /\ accounts = 1
       \/ topic = "forgotten" /\ accounts = 1 /\ ~legacy

MCNext ==
    /\ UNCHANGED topic
    /\ \/ topic = "codes" /\ (SignUp \/ Login \/ CodeLogin \/ Environment)
       \/ topic = "renewal" /\ (Login \/ Renewal)
       \/ topic = "passwords" /\ ((Login /\ logins' = 0) \/ PasswordChange \/ Reset)
       \/ topic = "forgotten" /\ (Reset \/ Environment)

MCSpec == MCInit /\ [][MCNext]_<<vars, topic>>
===============================================================================
