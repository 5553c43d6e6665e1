---------------------------- MODULE BookingEscrow ----------------------------
(***************************************************************************)
(* What the booking system promises about money, without rows, tokens,     *)
(* webhooks or handlers: a client is charged, the paid service is started, *)
(* then finished, and only then is the shop's wallet credited, once, with  *)
(* the price less the platform's commission.                               *)
(***************************************************************************)
EXTENDS Integers

CONSTANTS
    Bookings,   \* the bookings clients may make
    Shops,      \* the shops (providers) that serve them
    ShopOf,     \* the shop a booking is made with
    Amount      \* the price of a booking, in XOF

VARIABLES
    charged,    \* bookings whose client has been charged
    started,    \* bookings whose service was started by a check-in scan
    finished,   \* bookings whose service was ended by a check-out scan
    paidOut,    \* bookings whose price was credited to the shop
    balance     \* the shops' wallet balances

escrowVars == <<charged, started, finished, paidOut, balance>>

\* Math.round(gross * 0.10): the product of a whole number and 0.10 is never
\* rounded below a half, so halves go up.
Commission(gross) == (gross + 5) \div 10
NetAmount(gross) == gross - Commission(gross)

Init ==
    /\ charged = {}
    /\ started = {}
    /\ finished = {}
    /\ paidOut = {}
    /\ balance = [s \in Shops |-> 0]

Charge(B) ==
    /\ charged' = charged \union B
    /\ UNCHANGED <<started, finished, paidOut, balance>>

Start(b) ==
    /\ b \in charged
    /\ started' = started \union {b}
    /\ UNCHANGED <<charged, finished, paidOut, balance>>

Finish(b) ==
    /\ b \in started
    /\ finished' = finished \union {b}
    /\ UNCHANGED <<charged, started, paidOut, balance>>

PayOut(b) ==
    /\ b \in finished \ paidOut
    /\ paidOut' = paidOut \union {b}
    /\ balance' = [balance EXCEPT ![ShopOf[b]] = @ + NetAmount(Amount[b])]
    /\ UNCHANGED <<charged, started, finished>>

Next ==
    \/ \E B \in SUBSET Bookings : Charge(B)
    \/ \E b \in Bookings : Start(b) \/ Finish(b) \/ PayOut(b)

Spec == Init /\ [][Next]_escrowVars
==============================================================================
