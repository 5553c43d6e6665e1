------------------------------ MODULE MCStaleSaves ------------------------------
(* The unlocked handlers, for TLC.  A behaviour is about one booking with a      *)
(* reschedule and a read endpoint, about one with two handlers that mark it      *)
(* missed besides, or about a cart of two with a cancellation and the hourly     *)
(* job.                                                                          *)
EXTENDS MCBookingLifecycle

CONSTANT b3

MCCarts == {{b1}, {b2, b3}}

Unused(B, H) ==
    /\ \A b \in B : row[b] = NoRow
    /\ \A h \in H : ops[h] = Idle

AboutOne == Unused({b2, b3}, {"cancel", "cancelStale", "markExpired"}) /\ now < MaxTime

\* The booking is paid from the wallet and found missed twice.
AboutToken ==
    /\ Unused({b2, b3}, {"cancel", "cancelStale"})
    /\ billed = {} /\ finished = {} /\ faults = 0 /\ now < MaxTime

\* The bookings of the cart are alike, and the one that is cancelled is b2.
AboutCart ==
    /\ Unused({b1}, {"reschedule1", "lazyNoShow1", "markExpired"})
    /\ faults = 0
    /\ ops["cancel"].snap[b3] = NoRow
    /\ \A b \in {b2, b3} : credits[b] <= 1 /\ row[b].slot = 0

\* Bound: the cart and the handlers that a behaviour runs; for the cart of two one
\* slot, one credit at a time and no restart.
Bound == AboutOne \/ AboutToken \/ AboutCart
===============================================================================
