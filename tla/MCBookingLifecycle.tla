-------------------------- MODULE MCBookingLifecycle --------------------------
(* Small instances of BookingLifecycle for TLC. *)
EXTENDS BookingLifecycle

CONSTANTS b1, b2, shop, client, w1, none, purse

\* Handler ids, named for what they run.
MCKind == [h \in Handlers |->
             CASE h \in {"reschedule1", "reschedule2"} -> "reschedule"
               [] h \in {"lazyNoShow1", "lazyNoShow2"} -> "lazyNoShow"
               [] OTHER -> h]
MCShopOf == [b \in Bookings |-> shop]
MCWorkerOf ==
    [b \in Bookings |-> IF \E c \in Carts : b \in c /\ Cardinality(c) > 1 THEN none ELSE w1]
MCClientOf == [c \in Carts |-> client]
MCTotal == [c \in Carts |-> MapThenSumSet(LAMBDA b : Amount[b], c)]
MCAmount == [b \in Bookings |-> IF b = b1 THEN 15 ELSE 4]
MCFunds == [c \in Clients |-> purse]

MCSingle == {{b1}}
===============================================================================
