----------------------------- MODULE MCAvailability -----------------------------
(* A worker and the owner of a shop, two services and a day of eight units.  *)
(* What a behaviour is about is chosen first: the hours that are edited, the *)
(* bookings of a worker who follows the shop's hours, or his busy periods.   *)
EXTENDS Availability

CONSTANTS w1, owner, b1, b2, p1, k1, k2

VARIABLE topic   \* bound: the handlers that a behaviour runs

MCDuration == [s \in {1, 2} |-> s + 1]
MCBuffer == [w \in {w1, owner} |-> IF w = w1 THEN 0 ELSE 1]
MCWindows == {[start |-> 1, end |-> 7], [start |-> 3, end |-> 8]}

MCInit ==
    /\ Init
    /\ \/ topic = "hours"
       \/ topic = "bookings" /\ shop = [state |-> "open", hours |-> [start |-> 1, end |-> 7]] /\ rows[w1] = Hired
       \/ topic = "busy" /\ shop.state = "open" /\ rows[w1] = Hired

Hours ==
    /\ Request \/ Staff
    /\ call'[k2].step \in {"idle", "saveSchedules"}
    /\ call'[k1].todo # {owner} \/ call'[k1].service = 1

\* In a shop that is open to the end of the day a service may end at midnight.
MCService == IF shop.hours.end = Day THEN 2 ELSE 1

\* While nothing they read is edited these steps commute with those of the others.
Urgent == {k \in Calls : call[k].step \in {"worker", "shop", "busy"}}

\* A client who was not offered a time takes the last of the day, with the first row.
Booked ==
    /\ call'[k2] # Idle => call[k1] # Idle \/ call[k2] # Idle
    /\ \A k \in Calls : call'[k].todo \subseteq {w1} /\ (call'[k] # Idle => call'[k].service = MCService)
    /\ booking'[b2] # NoBooking => booking[b1] # NoBooking
    /\ \A b \in Bookings :
          \/ booking'[b] \in {booking[b], [NoBooking EXCEPT !.status = "over"]}
          \/ booking'[b].start = booking[b].start
          \/ \E k \in Calls : At(k, "offered") /\ call'[k] = Idle
          \/ b = b1 /\ booking'[b].worker = w1 /\ booking'[b].service = MCService /\ booking'[b].start = 5

MCNext ==
    /\ UNCHANGED topic
    /\ \/ topic = "hours" /\ Hours
       \/ topic = "bookings" /\ IF Urgent = {} THEN (Request \/ Client) /\ Booked
                                ELSE Request /\ \E k \in Urgent : call'[k] # call[k]
       \/ topic = "busy" /\ (Request \/ Client \/ Staff) /\ Booked /\ edits' = 0
          /\ call'[k2] = Idle /\ booking'[b2] = NoBooking

MCSpec == MCInit /\ [][MCNext]_<<vars, topic>>
===============================================================================
