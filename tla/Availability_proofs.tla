---------------------------- MODULE Availability_proofs ----------------------------
(***************************************************************************)
(* Proofs about the slots, for any workers, services, hours and requests:  *)
(* what a booking made from an offer owes to what the offer knew.          *)
(***************************************************************************)
EXTENDS Availability, TLAPS

\* A row that is not over and keeps the worker, service and time it was stored with.
Unmoved(b) == booking[b].status # "over" /\ ~booking[b].moved

\* A slot of worker w for service s is apart from what was known of w.
FreeSlot(w, s, t, known) ==
    /\ \A a \in known \intersect Bookings :
          Unmoved(a) /\ booking[a].worker = w /\ EndOf(a) < Day =>
              \/ t + Duration[s] <= booking[a].start
              \/ EndOf(a) + bufferMinutes(w) <= t
    /\ \A p \in known \intersect BusyPeriods :
          busy[p].worker = w =>
              Minutes(busy[p].window) \intersect (t..((t + Duration[s]) - 1)) = {}

\* What is known is stored.
KnownStored(known) ==
    /\ \A a \in known \intersect Bookings : booking[a].status # "none"
    /\ \A p \in known \intersect BusyPeriods : busy[p].state # "none"

\* A request knows nothing of the workers it has still to ask, but the bookings of the
\* one it is asking, whose windows it holds.
AskedInTurn(c) ==
    /\ c.step \in {"shop", "bookings", "busy"} => c.worker \in c.todo
    /\ \A a \in c.known \intersect Bookings :
          Unmoved(a) /\ booking[a].worker \in c.todo =>
              c.step = "busy" /\ booking[a].worker = c.worker /\ BookingWindow(a) \in c.blocked
    /\ \A p \in c.known \intersect BusyPeriods : busy[p].worker \notin c.todo

Offered(c) ==
    \A slot \in c.offer :
        /\ slot[1] \notin c.todo
        /\ slot[2] + Duration[c.service] <= Day
        /\ FreeSlot(slot[1], c.service, slot[2], c.known)

CallInv(k) == KnownStored(call[k].known) /\ AskedInTurn(call[k]) /\ Offered(call[k])

EndStored(b) ==
    Unmoved(b) /\ booking[b].status # "none" =>
        booking[b].end = (booking[b].start + Duration[booking[b].service]) % Day

BookingInv(b) ==
    /\ EndStored(b)
    /\ KnownStored(booking[b].known)
    /\ FreeSlot(booking[b].worker, booking[b].service, booking[b].start, booking[b].known)

SlotsInv == (\A k \in Calls : CallInv(k)) /\ (\A b \in Bookings : BookingInv(b))

-------------------------------------------------------------------------------
(* Types.                                                                  *)

LEMMA ConstantTypes ==
    /\ Day \in Nat /\ Day >= 1 /\ Step \in Nat /\ Step >= 1
    /\ Windows \subseteq Window
    /\ Owner \in Everyone /\ Workers \subseteq Everyone
    /\ AnyService \in Services
    /\ \A s \in Services : Duration[s] \in Nat /\ 1 <= Duration[s] /\ Duration[s] <= Day
    /\ \A w \in Everyone : bufferMinutes(w) \in Nat
    /\ NoWindow \in Window
    BY AvailabilityAssumption DEF AvailabilityAssumption, Everyone, AnyService, bufferMinutes,
                                  NoWindow, Window, Times

LEMMA EmptyTypes ==
    /\ NoRows \in Rows /\ NoException \in Exception
    /\ Idle \in Call /\ NoBooking \in Booking /\ NoBusy \in Busy
<1>1. NoRows \in Rows /\ NoException \in Exception
    BY ConstantTypes DEF NoRows, Rows, Weekly, NoException, Exception
<1>2. Idle \in Call
    BY <1>1, ConstantTypes DEF Idle, Call
<1>3. NoBooking \in Booking
    BY ConstantTypes DEF NoBooking, Booking, BookingStatus
<1> QED
    BY <1>1, <1>2, <1>3, ConstantTypes DEF NoBusy, Busy

LEMMA HoursType ==
    ASSUME NEW r \in Rows, NEW x \in Exception, NEW day \in ShopDay
    PROVE  getWorkingHours(r, x, day) \in Window
<1>1. ASSUME NEW own \in Window
      PROVE  Within(own, day) \in Window
    BY ConstantTypes DEF Within, _clampHours, Later, Earlier, ShopDay, Window, Times
<1> QED
    BY <1>1, ConstantTypes DEF getWorkingHours, Rows, Exception, ShopDay

LEMMA AnsweredType ==
    ASSUME NEW c \in Call, NEW slots \in SUBSET Times
    PROVE  /\ Answered(c, slots) \in Call
           /\ Answered(c, slots).step \in {"offered", "worker"}
           /\ Answered(c, slots).todo = c.todo \ {c.worker}
           /\ Answered(c, slots).service = c.service
           /\ Answered(c, slots).known = c.known
           /\ Answered(c, slots).offer = c.offer \union {<<c.worker, t>> : t \in slots}
<1>1. NoRows \in Rows /\ NoException \in Exception /\ NoWindow \in Window /\ Owner \in Everyone
    BY EmptyTypes, ConstantTypes
<1>2. {<<c.worker, t>> : t \in slots} \subseteq Everyone \X Times
    BY DEF Call
<1> QED
    BY <1>1, <1>2 DEF Answered, Call

-------------------------------------------------------------------------------
(* Requests.                                                               *)

LEMMA OneCall ==
    ASSUME call \in [Calls -> Call], NEW k \in Calls, NEW new \in Call,
           call' = [call EXCEPT ![k] = new]
    PROVE  /\ call' \in [Calls -> Call]
           /\ call'[k] = new
           /\ \A j \in Calls \ {k} : call'[j] = call[j]
    OBVIOUS

\* A request that goes on, while bookings and busy periods stay as they are.
LEMMA SlotsOneCall ==
    ASSUME TypeOK, SlotsInv, NEW k \in Calls, NEW new \in Call,
           call' = [call EXCEPT ![k] = new], UNCHANGED <<busy, booking>>,
           KnownStored(new.known), AskedInTurn(new), Offered(new)
    PROVE  SlotsInv'
<1>1. call'[k] = new /\ \A j \in Calls \ {k} : call'[j] = call[j]
    BY OneCall DEF TypeOK
<1>2. CallInv(k)'
    BY <1>1 DEF CallInv, KnownStored, AskedInTurn, Offered, FreeSlot, Unmoved, EndOf, BookingWindow
<1>3. ASSUME NEW j \in Calls \ {k}
      PROVE  CallInv(j)'
    <2>1. CallInv(j) /\ call'[j] = call[j]
        BY <1>1, <1>3 DEF SlotsInv
    <2> QED
        BY <2>1 DEF CallInv, KnownStored, AskedInTurn, Offered, FreeSlot, Unmoved, EndOf, BookingWindow
<1>4. ASSUME NEW b \in Bookings
      PROVE  BookingInv(b)'
    <2>1. BookingInv(b)
        BY DEF SlotsInv
    <2> QED
        BY <2>1 DEF BookingInv, EndStored, KnownStored, FreeSlot, Unmoved, EndOf
<1> QED
    BY <1>2, <1>3, <1>4 DEF SlotsInv

LEMMA NothingKnown ==
    ASSUME NEW c, c.known = {}, c.offer = {}, c.step \notin {"shop", "bookings", "busy"}
    PROVE  KnownStored(c.known) /\ AskedInTurn(c) /\ Offered(c)
    BY DEF KnownStored, AskedInTurn, Offered

LEMMA IdleKeeps ==
    ASSUME TypeOK, SlotsInv, NEW k \in Calls, call' = [call EXCEPT ![k] = Idle],
           UNCHANGED <<busy, booking>>
    PROVE  SlotsInv'
<1>1. Idle.known = {} /\ Idle.offer = {} /\ Idle.step \notin {"shop", "bookings", "busy"}
    BY DEF Idle
<1> QED
    BY <1>1, NothingKnown, EmptyTypes, SlotsOneCall

LEMMA StepAsked ==
    ASSUME TypeOK, SlotsInv, NEW k \in Calls,
           \/ \E w \in Everyone, s \in Services : getAvailability(k, w, s)
           \/ \E s \in Services : getShopAvailability(k, s)
    PROVE  TypeOK' /\ SlotsInv'
<1>1. PICK todo \in SUBSET Everyone, s \in Services :
          call' = [call EXCEPT ![k] = [Idle EXCEPT !.step = "worker", !.todo = todo, !.service = s]]
    <2>1. findByShop \subseteq Everyone
        BY ConstantTypes DEF findByShop
    <2> QED
        BY <2>1 DEF getAvailability, getShopAvailability, Begin
<1> DEFINE new == [Idle EXCEPT !.step = "worker", !.todo = todo, !.service = s]
<1>2. new \in Call /\ new.known = {} /\ new.offer = {} /\ new.step = "worker"
    <2>1. Idle \in Call /\ Idle.known = {} /\ Idle.offer = {}
        BY EmptyTypes DEF Idle
    <2> QED
        BY <2>1, <1>1 DEF Call
<1>3. call' = [call EXCEPT ![k] = new] /\ UNCHANGED <<shop, rows, busy, booking, edits>>
    BY <1>1 DEF getAvailability, getShopAvailability
<1> HIDE DEF new
<1>4. SlotsInv'
    BY <1>2, <1>3, NothingKnown, SlotsOneCall
<1>5. call' \in [Calls -> Call]
    BY <1>2, <1>3, OneCall DEF TypeOK
<1> QED
    BY <1>3, <1>4, <1>5 DEF TypeOK

LEMMA StepFindOne ==
    ASSUME TypeOK, SlotsInv, NEW k \in Calls, NEW w \in Everyone, findOne(k, w)
    PROVE  TypeOK' /\ SlotsInv'
<1> DEFINE c == call[k]
<1>1. c \in Call /\ c.step = "worker" /\ w \in c.todo /\ CallInv(k)
      /\ UNCHANGED <<shop, rows, busy, booking, edits>>
    BY DEF TypeOK, SlotsInv, findOne, At
<1>2. CASE call' = [call EXCEPT ![k] = Idle]
    <2>1. call' \in [Calls -> Call]
        BY <1>2, OneCall, EmptyTypes DEF TypeOK
    <2> QED
        BY <1>1, <1>2, <2>1, IdleKeeps DEF TypeOK
<1>3. ASSUME NEW r \in Rows, NEW x \in Exception,
             call' = [call EXCEPT ![k] = [@ EXCEPT !.step = "shop", !.worker = w, !.rows = r, !.exception = x]]
      PROVE  TypeOK' /\ SlotsInv'
    <2> DEFINE new == [c EXCEPT !.step = "shop", !.worker = w, !.rows = r, !.exception = x]
    <2>1. new \in Call /\ new.step = "shop" /\ new.worker = w /\ new.todo = c.todo
          /\ new.known = c.known /\ new.offer = c.offer /\ new.service = c.service
        BY <1>1 DEF Call
    <2>2. call' = [call EXCEPT ![k] = new]
        BY <1>3 DEF TypeOK
    <2> HIDE DEF new, c
    <2>3. KnownStored(new.known) /\ AskedInTurn(new) /\ Offered(new)
        BY <1>1, <2>1 DEF CallInv, AskedInTurn, Offered, c
    <2>4. call' \in [Calls -> Call] /\ SlotsInv'
        BY <1>1, <2>1, <2>2, <2>3, OneCall, SlotsOneCall DEF TypeOK
    <2> QED
        BY <1>1, <2>4 DEF TypeOK
<1>4. \/ call' = [call EXCEPT ![k] = Idle]
      \/ \E r \in Rows, x \in Exception :
            call' = [call EXCEPT ![k] = [@ EXCEPT !.step = "shop", !.worker = w, !.rows = r, !.exception = x]]
    <2>1. /\ NoRows \in Rows /\ NoException \in Exception
          /\ w # Owner => rows[w] \in Rows
          /\ \A r \in Rows : r.exceptions \subseteq Exception
        BY EmptyTypes DEF TypeOK, Everyone, Rows
    <2> QED
        BY <2>1 DEF findOne
<1> QED
    BY <1>2, <1>3, <1>4

LEMMA StepReadShop ==
    ASSUME TypeOK, SlotsInv, NEW k \in Calls, readShop(k)
    PROVE  TypeOK' /\ SlotsInv'
<1> DEFINE c == call[k]
           hours == getWorkingHours(c.rows, c.exception, shop)
<1>1. c \in Call /\ c.step = "shop" /\ CallInv(k) /\ UNCHANGED <<shop, rows, busy, booking, edits>>
    BY DEF TypeOK, SlotsInv, readShop, At
<1>2. PICK new \in Call :
          /\ call' = [call EXCEPT ![k] = new]
          /\ new.step \in {"offered", "worker", "bookings"}
          /\ new.step = "bookings" => new.worker = c.worker /\ new.todo = c.todo
          /\ new.todo \subseteq c.todo
          /\ new.service = c.service /\ new.known = c.known /\ new.offer = c.offer
    <2>1. CASE hours = NoWindow
        <3>1. call' = [call EXCEPT ![k] = Answered(c, {})]
            BY <2>1 DEF readShop, TypeOK
        <3>2. {<<c.worker, t>> : t \in {}} = {}
            OBVIOUS
        <3>3. /\ Answered(c, {}) \in Call
              /\ Answered(c, {}).step \in {"offered", "worker"}
              /\ Answered(c, {}).todo = c.todo \ {c.worker}
              /\ Answered(c, {}).service = c.service
              /\ Answered(c, {}).known = c.known
              /\ Answered(c, {}).offer = c.offer \union {<<c.worker, t>> : t \in {}}
            BY <1>1, AnsweredType
        <3> QED
            BY <3>1, <3>2, <3>3
    <2>2. CASE hours # NoWindow
        <3>1. call' = [call EXCEPT ![k] = [c EXCEPT !.step = "bookings", !.hours = hours]]
            BY <2>2 DEF readShop, TypeOK
        <3>2. hours \in Window
            BY <1>1, HoursType DEF TypeOK, Call
        <3> HIDE DEF hours
        <3>3. [c EXCEPT !.step = "bookings", !.hours = hours] \in Call
            BY <1>1, <3>2 DEF Call
        <3> QED
            BY <1>1, <3>1, <3>3 DEF Call
    <2> QED
        BY <2>1, <2>2
<1> HIDE DEF c
<1>3. KnownStored(new.known) /\ AskedInTurn(new) /\ Offered(new)
    BY <1>1, <1>2 DEF CallInv, AskedInTurn, Offered, c
<1> QED
    BY <1>1, <1>2, <1>3, OneCall, SlotsOneCall DEF TypeOK

LEMMA StepReadBookings ==
    ASSUME TypeOK, SlotsInv, NEW k \in Calls, readBookings(k)
    PROVE  TypeOK' /\ SlotsInv'
<1> DEFINE c == call[k]
           blocked == {BookingWindow(b) : b \in getWorkerBookingsForDate(c.worker)}
           known == c.known \union LiveBookings(c.worker)
           new == [c EXCEPT !.step = "busy", !.blocked = blocked, !.known = known]
<1>1. c \in Call /\ c.step = "bookings" /\ UNCHANGED <<shop, rows, busy, booking, edits>>
      /\ call' = [call EXCEPT ![k] = new]
    BY DEF TypeOK, readBookings, At
<1>2. KnownStored(c.known) /\ AskedInTurn(c) /\ Offered(c)
    BY DEF SlotsInv, CallInv
<1>3. blocked \subseteq Window
    BY ConstantTypes DEF BookingWindow, getWorkerBookingsForDate, TypeOK, Booking, Window, Times
<1>4. \A a \in LiveBookings(c.worker) :
          /\ a \in Bookings /\ a \notin BusyPeriods
          /\ booking[a].status # "none" /\ booking[a].worker = c.worker
          /\ BookingWindow(a) \in blocked
    BY AvailabilityAssumption DEF AvailabilityAssumption, LiveBookings, Live, getWorkerBookingsForDate
<1> HIDE DEF blocked
<1>5. new \in Call /\ new.step = "busy" /\ new.worker = c.worker /\ new.todo = c.todo
      /\ new.service = c.service /\ new.offer = c.offer /\ new.known = known /\ new.blocked = blocked
    BY <1>1, <1>3, <1>4 DEF Call
<1> HIDE DEF new, c
<1>6. KnownStored(new.known)
    BY <1>2, <1>4, <1>5 DEF KnownStored
<1>7. AskedInTurn(new)
    BY <1>1, <1>2, <1>4, <1>5 DEF AskedInTurn
<1>8. Offered(new)
    <2> SUFFICES ASSUME NEW slot \in c.offer
                 PROVE  FreeSlot(slot[1], c.service, slot[2], known)
        BY <1>2, <1>5 DEF Offered
    <2>1. slot[1] # c.worker /\ FreeSlot(slot[1], c.service, slot[2], c.known)
        BY <1>1, <1>2 DEF Offered, AskedInTurn
    <2> QED
        BY <1>4, <2>1 DEF FreeSlot
<1> QED
    BY <1>1, <1>5, <1>6, <1>7, <1>8, OneCall, SlotsOneCall DEF TypeOK

\* The slots of a worker are apart from whatever is known of him.
LEMMA SlotsApart ==
    ASSUME TypeOK, SlotsInv, NEW c \in Call, KnownStored(c.known), AskedInTurn(c), c.step = "busy",
           NEW t \in generateSlots(c.hours, Duration[c.service], bufferMinutes(c.worker),
                                   c.blocked \union {busy[p].window : p \in getBusyRangesForDate(c.worker)})
    PROVE  /\ t \in Times /\ t + Duration[c.service] <= Day
           /\ FreeSlot(c.worker, c.service, t, c.known \union StoredPeriods(c.worker))
<1> DEFINE windows == c.blocked \union {busy[p].window : p \in getBusyRangesForDate(c.worker)}
           w == c.worker
           d == Duration[c.service]
<1>1. c.hours \in Window /\ w \in Everyone /\ d \in Nat /\ 1 <= d /\ bufferMinutes(w) \in Nat
      /\ Day \in Nat /\ w \in c.todo
    BY ConstantTypes DEF Call, AskedInTurn
<1>2. t \in c.hours.start..c.hours.end /\ t + d <= c.hours.end
      /\ ~hasCollision(t, t + d, bufferMinutes(w), windows)
    BY DEF generateSlots
<1>3. t \in Times /\ t \in Int /\ t + d <= Day
    BY <1>1, <1>2 DEF Window, Times
<1>4. \A window \in windows : ~(t < window.end + bufferMinutes(w) /\ t + d > window.start)
    BY <1>2 DEF hasCollision
<1>5. ASSUME NEW a \in (c.known \union StoredPeriods(w)) \intersect Bookings,
             Unmoved(a), booking[a].worker = w, EndOf(a) < Day
      PROVE  t + d <= booking[a].start \/ EndOf(a) + bufferMinutes(w) <= t
    <2>1. a \in c.known
        BY <1>5, AvailabilityAssumption DEF AvailabilityAssumption, StoredPeriods
    <2>2. BookingWindow(a) \in windows /\ booking[a].status # "none"
        BY <1>1, <1>5, <2>1 DEF AskedInTurn, KnownStored
    <2>3. booking[a] \in Booking /\ booking[a].start \in Nat /\ Duration[booking[a].service] \in Nat
        BY ConstantTypes DEF TypeOK, Booking
    <2>4. booking[a].end = EndOf(a) /\ EndOf(a) \in Nat
        <3>1. booking[a].end = EndOf(a) % Day
            BY <1>5, <2>2 DEF SlotsInv, BookingInv, EndStored, EndOf
        <3>2. EndOf(a) \in Nat
            BY <2>3 DEF EndOf
        <3> QED
            BY <1>1, <1>5, <3>1, <3>2
    <2>5. ~(t < booking[a].end + bufferMinutes(w) /\ t + d > booking[a].start)
        BY <1>4, <2>2 DEF BookingWindow
    <2> QED
        BY <1>1, <1>3, <2>3, <2>4, <2>5
<1>6. ASSUME NEW p \in (c.known \union StoredPeriods(w)) \intersect BusyPeriods, busy[p].worker = w
      PROVE  Minutes(busy[p].window) \intersect (t..((t + d) - 1)) = {}
    <2>1. p \in getBusyRangesForDate(w)
        BY <1>1, <1>6 DEF AskedInTurn, StoredPeriods, getBusyRangesForDate
    <2>2. busy[p].window \in Window
        BY DEF TypeOK, Busy
    <2>3. ~(t < busy[p].window.end + bufferMinutes(w) /\ t + d > busy[p].window.start)
        BY <1>4, <2>1
    <2> QED
        BY <1>1, <1>3, <2>2, <2>3 DEF Minutes, Window, Times
<1> QED
    BY <1>3, <1>5, <1>6 DEF FreeSlot

LEMMA StepReadBusy ==
    ASSUME TypeOK, SlotsInv, NEW k \in Calls, readBusy(k)
    PROVE  TypeOK' /\ SlotsInv'
<1> DEFINE c == call[k]
           w == c.worker
           slots == generateSlots(c.hours, Duration[c.service], bufferMinutes(w),
                                  c.blocked \union {busy[p].window : p \in getBusyRangesForDate(w)})
           known == c.known \union StoredPeriods(w)
           informed == [c EXCEPT !.known = known]
           new == Answered(informed, slots)
<1>1. c \in Call /\ c.step = "busy" /\ UNCHANGED <<shop, rows, busy, booking, edits>>
      /\ call' = [call EXCEPT ![k] = new]
    BY DEF TypeOK, readBusy, At
<1>2. KnownStored(c.known) /\ AskedInTurn(c) /\ Offered(c)
    BY DEF SlotsInv, CallInv
<1>3. \A t \in slots : /\ t \in Times /\ t + Duration[c.service] <= Day
                       /\ FreeSlot(w, c.service, t, known)
    BY <1>1, <1>2, SlotsApart
<1>4. \A p \in StoredPeriods(w) :
          /\ p \in BusyPeriods /\ p \notin Bookings /\ busy[p].worker = w /\ busy[p].state # "none"
    BY AvailabilityAssumption DEF AvailabilityAssumption, StoredPeriods
<1>5. w \in c.todo
    BY <1>1, <1>2 DEF AskedInTurn
<1> HIDE DEF slots
<1>6. informed \in Call /\ informed.worker = w /\ informed.todo = c.todo
      /\ informed.service = c.service /\ informed.offer = c.offer /\ informed.known = known
    BY <1>1, <1>4 DEF Call
<1> HIDE DEF informed
<1>7. /\ new \in Call /\ new.step \in {"offered", "worker"} /\ new.todo = c.todo \ {w}
      /\ new.service = c.service /\ new.known = known
      /\ new.offer = c.offer \union {<<w, t>> : t \in slots}
    BY <1>3, <1>6, AnsweredType
<1> HIDE DEF new, c, w
<1>8. KnownStored(new.known)
    BY <1>2, <1>4, <1>7 DEF KnownStored
<1>9. AskedInTurn(new)
    BY <1>2, <1>4, <1>7 DEF AskedInTurn, w
<1>10. Offered(new)
    <2>1. ASSUME NEW slot \in c.offer
          PROVE  slot[1] \notin new.todo /\ slot[2] + Duration[c.service] <= Day
                 /\ FreeSlot(slot[1], c.service, slot[2], known)
        <3>1. slot[1] \notin c.todo /\ slot[2] + Duration[c.service] <= Day
              /\ FreeSlot(slot[1], c.service, slot[2], c.known)
            BY <1>2 DEF Offered
        <3> QED
            BY <1>4, <1>5, <1>7, <3>1 DEF FreeSlot
    <2>2. ASSUME NEW t \in slots
          PROVE  w \notin new.todo /\ t + Duration[c.service] <= Day
                 /\ FreeSlot(w, c.service, t, known)
        BY <1>3, <1>7
    <2>3. ASSUME NEW slot \in new.offer
          PROVE  slot[1] \notin new.todo /\ slot[2] + Duration[c.service] <= Day
                 /\ FreeSlot(slot[1], c.service, slot[2], known)
        <3>1. slot \in c.offer \/ \E t \in slots : slot = <<w, t>>
            BY <1>7, <2>3
        <3>2. ASSUME NEW t \in slots, slot = <<w, t>>
              PROVE  slot[1] = w /\ slot[2] = t
            BY <3>2
        <3> QED
            BY <2>1, <2>2, <3>1, <3>2
    <2> QED
        BY <1>7, <2>3 DEF Offered
<1> QED
    BY <1>1, <1>7, <1>8, <1>9, <1>10, OneCall, SlotsOneCall DEF TypeOK

LEMMA StepForget ==
    ASSUME TypeOK, SlotsInv, NEW k \in Calls, Forget(k)
    PROVE  TypeOK' /\ SlotsInv'
<1>1. call' = [call EXCEPT ![k] = Idle] /\ UNCHANGED <<shop, rows, busy, booking, edits>>
    BY DEF Forget
<1> QED
    BY <1>1, IdleKeeps, EmptyTypes, OneCall DEF TypeOK

-------------------------------------------------------------------------------
(* Bookings and periods.                                                   *)

\* What a step may do to a stored booking that others know of: take it away, move it,
\* or leave it where it is; a stored period stays where it is.
RowsKept ==
    \A a \in Bookings : booking[a].status # "none" =>
        /\ booking'[a].status # "none"
        /\ Unmoved(a)' => /\ Unmoved(a)
                          /\ booking'[a].worker = booking[a].worker
                          /\ booking'[a].service = booking[a].service
                          /\ booking'[a].start = booking[a].start
                          /\ booking'[a].end = booking[a].end

PeriodsKept ==
    \A p \in BusyPeriods : busy[p].state # "none" =>
        /\ busy'[p].state # "none"
        /\ busy'[p].worker = busy[p].worker
        /\ busy'[p].window = busy[p].window

LEMMA StillFree ==
    ASSUME RowsKept, PeriodsKept, NEW w, NEW s, NEW t, NEW known,
           KnownStored(known), FreeSlot(w, s, t, known)
    PROVE  KnownStored(known)' /\ FreeSlot(w, s, t, known)'
    BY DEF RowsKept, PeriodsKept, KnownStored, FreeSlot, EndOf

LEMMA CallKept ==
    ASSUME RowsKept, PeriodsKept, NEW k \in Calls, CallInv(k), call'[k] = call[k]
    PROVE  CallInv(k)'
<1>1. PICK c : c = call[k] /\ c = call'[k]
    OBVIOUS
<1>2. KnownStored(c.known) /\ AskedInTurn(c) /\ Offered(c)
    BY <1>1 DEF CallInv
<1>3. KnownStored(c.known)'
    BY <1>2 DEF RowsKept, PeriodsKept, KnownStored
<1>4. AskedInTurn(c)'
    BY <1>2 DEF RowsKept, PeriodsKept, KnownStored, AskedInTurn, BookingWindow
<1>5. Offered(c)'
    BY <1>2, StillFree DEF Offered
<1> QED
    BY <1>1, <1>3, <1>4, <1>5 DEF CallInv, KnownStored, AskedInTurn, Offered, FreeSlot

\* One row changes: what it says of itself and what it knows must be in order.
LEMMA SlotsOneBooking ==
    ASSUME TypeOK, SlotsInv, NEW b \in Bookings, NEW new \in Booking,
           booking' = [booking EXCEPT ![b] = new], UNCHANGED busy,
           \A k \in Calls : call'[k] = call[k] \/ call'[k] = Idle,
           new.status # "none",
           new.status # "over" /\ ~new.moved =>
               /\ new.end = (new.start + Duration[new.service]) % Day
               /\ booking[b].status # "none" =>
                     /\ Unmoved(b)
                     /\ new.worker = booking[b].worker /\ new.service = booking[b].service
                     /\ new.start = booking[b].start /\ new.end = booking[b].end,
           KnownStored(new.known), FreeSlot(new.worker, new.service, new.start, new.known)
    PROVE  SlotsInv'
<1>1. booking'[b] = new /\ \A a \in Bookings \ {b} : booking'[a] = booking[a]
    BY DEF TypeOK
<1>2. RowsKept /\ PeriodsKept
    BY <1>1 DEF RowsKept, PeriodsKept, Unmoved
<1>3. ASSUME NEW k \in Calls
      PROVE  CallInv(k)'
    <2>1. CASE call'[k] = call[k]
        BY <1>2, <2>1, CallKept DEF SlotsInv
    <2>2. CASE call'[k] = Idle
        BY <2>2 DEF Idle, CallInv, KnownStored, AskedInTurn, Offered
    <2> QED
        BY <2>1, <2>2
<1>4. BookingInv(b)'
    <2>1. KnownStored(new.known)' /\ FreeSlot(new.worker, new.service, new.start, new.known)'
        BY <1>2, StillFree
    <2>2. EndStored(b)'
        BY <1>1 DEF EndStored, Unmoved
    <2> QED
        BY <1>1, <2>1, <2>2 DEF BookingInv, KnownStored, FreeSlot
<1>5. ASSUME NEW a \in Bookings \ {b}
      PROVE  BookingInv(a)'
    <2>1. PICK r : r = booking[a] /\ r = booking'[a]
        BY <1>1
    <2>2. KnownStored(r.known)' /\ FreeSlot(r.worker, r.service, r.start, r.known)'
        BY <1>2, <2>1, StillFree DEF SlotsInv, BookingInv
    <2>3. EndStored(a)'
        BY <2>1 DEF SlotsInv, BookingInv, EndStored, Unmoved
    <2> QED
        BY <2>1, <2>2, <2>3 DEF BookingInv, KnownStored, FreeSlot
<1> QED
    BY <1>3, <1>4, <1>5 DEF SlotsInv

LEMMA NothingOwed ==
    ASSUME NEW w, NEW s, NEW t
    PROVE  KnownStored({}) /\ FreeSlot(w, s, t, {})
    BY DEF KnownStored, FreeSlot

LEMMA StepStored ==
    ASSUME TypeOK, SlotsInv, NEW b \in Bookings, NEW w \in Everyone, NEW s \in Services, NEW t \in Times,
           NEW known \in SUBSET (Bookings \union BusyPeriods), NEW status \in Unpaid,
           t < Day, Store(b, w, s, t, known, status),
           KnownStored(known), FreeSlot(w, s, t, known),
           \A k \in Calls : call'[k] = call[k] \/ call'[k] = Idle,
           call' \in [Calls -> Call], UNCHANGED <<shop, rows, busy, edits>>
    PROVE  TypeOK' /\ SlotsInv'
<1> DEFINE end == (t + Duration[s]) % Day
           new == [status |-> status, worker |-> w, service |-> s, start |-> t, end |-> end,
                   here |-> TRUE, moved |-> FALSE, known |-> known]
<1>1. end \in 0..(Day - 1) /\ t \in 0..(Day - 1)
    BY ConstantTypes DEF Times
<1>2. booking' = [booking EXCEPT ![b] = new] /\ booking[b].status = "none"
    BY DEF Store
<1>3. new.end = (new.start + Duration[new.service]) % Day
    OBVIOUS
<1> HIDE DEF end
<1>4. new \in Booking /\ new.status # "none" /\ new.worker = w /\ new.service = s /\ new.start = t
      /\ new.known = known
    BY <1>1 DEF Booking, BookingStatus, Unpaid
<1> HIDE DEF new
<1>5. SlotsInv'
    BY <1>2, <1>3, <1>4, SlotsOneBooking
<1>6. booking' \in [Bookings -> Booking]
    BY <1>2, <1>4 DEF TypeOK
<1> QED
    BY <1>5, <1>6 DEF TypeOK

LEMMA StepCheckout ==
    ASSUME TypeOK, SlotsInv, NEW b \in Bookings,
           \/ \E k \in Calls, status \in Unpaid : \E slot \in call[k].offer : checkoutSlot(k, b, slot, status)
           \/ \E w \in Everyone, s \in Services, t \in Times, status \in Unpaid : checkout(b, w, s, t, status)
    PROVE  TypeOK' /\ SlotsInv'
<1>1. ASSUME NEW k \in Calls, NEW status \in Unpaid, NEW slot \in call[k].offer,
             checkoutSlot(k, b, slot, status)
      PROVE  TypeOK' /\ SlotsInv'
    <2>1. call[k] \in Call /\ slot \in Everyone \X Times
        BY DEF TypeOK, Call
    <2>2. slot[1] \in Everyone /\ slot[2] \in Times /\ call[k].service \in Services
          /\ call[k].known \in SUBSET (Bookings \union BusyPeriods)
        BY <2>1 DEF Call
    <2>3. KnownStored(call[k].known) /\ FreeSlot(slot[1], call[k].service, slot[2], call[k].known)
          /\ slot[2] + Duration[call[k].service] <= Day
        BY DEF SlotsInv, CallInv, Offered
    <2>4. slot[2] < Day
        BY <2>2, <2>3, ConstantTypes DEF Times
    <2>5. call' = [call EXCEPT ![k] = Idle] /\ UNCHANGED <<shop, rows, busy, edits>>
          /\ Store(b, slot[1], call[k].service, slot[2], call[k].known, status)
        BY <1>1 DEF checkoutSlot
    <2>6. call' \in [Calls -> Call] /\ \A j \in Calls : call'[j] = call[j] \/ call'[j] = Idle
        BY <2>5, EmptyTypes DEF TypeOK
    <2> QED
        BY <2>2, <2>3, <2>4, <2>5, <2>6, StepStored
<1>2. ASSUME NEW w \in Everyone, NEW s \in Services, NEW t \in Times, NEW status \in Unpaid,
             checkout(b, w, s, t, status)
      PROVE  TypeOK' /\ SlotsInv'
    BY <1>2, NothingOwed, StepStored DEF checkout, TypeOK
<1> QED
    BY <1>1, <1>2

LEMMA StepBooking ==
    ASSUME TypeOK, SlotsInv, NEW b \in Bookings,
           confirm(b) \/ qrCheckin(b) \/ markExpired(b) \/ leave(b)
    PROVE  TypeOK' /\ SlotsInv'
<1>1. booking[b] \in Booking /\ BookingInv(b) /\ UNCHANGED <<shop, rows, busy, call, edits>>
      /\ booking \in [Bookings -> Booking]
    BY DEF TypeOK, SlotsInv, confirm, qrCheckin, markExpired, leave
<1>2. CASE confirm(b) \/ qrCheckin(b) \/ markExpired(b)
    <2>1. PICK status \in {"CONFIRMED", "IN_SERVICE", "NO_SHOW"} :
              booking' = [booking EXCEPT ![b].status = status]
        BY <1>2 DEF confirm, qrCheckin, markExpired
    <2>2. booking[b].status \notin {"none", "over"}
        BY <1>2 DEF confirm, qrCheckin, markExpired
    <2> DEFINE new == [booking[b] EXCEPT !.status = status]
    <2>3. new \in Booking /\ new.status \notin {"none", "over"} /\ new.moved = booking[b].moved
          /\ new.worker = booking[b].worker /\ new.service = booking[b].service
          /\ new.start = booking[b].start /\ new.end = booking[b].end /\ new.known = booking[b].known
        BY <1>1 DEF Booking, BookingStatus
    <2>4. booking' = [booking EXCEPT ![b] = new]
        BY <1>1, <2>1
    <2> HIDE DEF new
    <2>5. SlotsInv'
        BY <1>1, <2>2, <2>3, <2>4, SlotsOneBooking DEF BookingInv, EndStored, Unmoved
    <2> QED
        BY <1>1, <2>3, <2>4, <2>5 DEF TypeOK
<1>3. CASE leave(b)
    <2> DEFINE new == [NoBooking EXCEPT !.status = "over"]
    <2>1. new \in Booking /\ new.status = "over" /\ new.known = {}
        BY EmptyTypes DEF Booking, BookingStatus, NoBooking
    <2>2. booking' = [booking EXCEPT ![b] = new]
        BY <1>3 DEF leave
    <2> HIDE DEF new
    <2>3. /\ new.status # "none" /\ ~(new.status # "over" /\ ~new.moved)
          /\ KnownStored(new.known) /\ FreeSlot(new.worker, new.service, new.start, new.known)
        BY <2>1, NothingOwed
    <2>4. SlotsInv'
        BY <1>1, <2>1, <2>2, <2>3, SlotsOneBooking
    <2> QED
        BY <1>1, <2>1, <2>2, <2>4 DEF TypeOK
<1> QED
    BY <1>2, <1>3

LEMMA StepReschedule ==
    ASSUME TypeOK, SlotsInv, NEW b \in Bookings, NEW t \in Times, NEW here \in BOOLEAN,
           reschedule(b, t, here)
    PROVE  TypeOK' /\ SlotsInv'
<1>1. booking[b] \in Booking /\ UNCHANGED <<shop, rows, busy, call, edits>>
      /\ booking \in [Bookings -> Booking] /\ t \in 0..(Day - 1)
    BY ConstantTypes DEF TypeOK, reschedule, Times
<1> DEFINE status == IF booking[b].status = "NO_SHOW" THEN "CONFIRMED" ELSE booking[b].status
           new == [booking[b] EXCEPT !.status = status, !.start = t, !.here = here, !.moved = TRUE,
                                     !.known = {}]
<1>2. status \in BookingStatus /\ status # "none"
    BY <1>1 DEF reschedule, Booking, BookingStatus
<1>3. booking' = [booking EXCEPT ![b] = new]
    BY <1>1 DEF reschedule
<1> HIDE DEF status
<1>4. new \in Booking /\ new.status = status /\ new.moved /\ new.known = {}
    BY <1>1, <1>2 DEF Booking
<1> HIDE DEF new
<1>5. SlotsInv'
    BY <1>1, <1>2, <1>3, <1>4, NothingOwed, SlotsOneBooking
<1> QED
    BY <1>1, <1>3, <1>4, <1>5 DEF TypeOK

-------------------------------------------------------------------------------
(* What the owner edits.                                                   *)

LEMMA SlotsEdited ==
    ASSUME TypeOK, SlotsInv, UNCHANGED booking, PeriodsKept,
           \A k \in Calls : \/ call'[k] = call[k]
                            \/ /\ call'[k].known = {} /\ call'[k].offer = {}
                               /\ call'[k].step \notin {"shop", "bookings", "busy"}
    PROVE  SlotsInv'
<1>1. RowsKept
    BY DEF RowsKept, Unmoved
<1>2. ASSUME NEW k \in Calls
      PROVE  CallInv(k)'
    <2>1. CASE call'[k] = call[k]
        BY <1>1, <2>1, CallKept DEF SlotsInv
    <2>2. CASE call'[k] # call[k]
        BY <2>2 DEF CallInv, KnownStored, AskedInTurn, Offered
    <2> QED
        BY <2>1, <2>2
<1>3. ASSUME NEW b \in Bookings
      PROVE  BookingInv(b)'
    <2>1. PICK r : r = booking[b] /\ r = booking'[b]
        OBVIOUS
    <2>2. KnownStored(r.known)' /\ FreeSlot(r.worker, r.service, r.start, r.known)'
        BY <1>1, <2>1, StillFree DEF SlotsInv, BookingInv
    <2>3. EndStored(b)'
        BY <2>1 DEF SlotsInv, BookingInv, EndStored, Unmoved
    <2> QED
        BY <2>1, <2>2, <2>3 DEF BookingInv, KnownStored, FreeSlot
<1> QED
    BY <1>2, <1>3 DEF SlotsInv

LEMMA StepHours ==
    ASSUME TypeOK, SlotsInv, NEW day \in OpenShop \union ShutShop, setWorkingHours(day)
    PROVE  TypeOK' /\ SlotsInv'
<1>1. day \in ShopDay
    BY ConstantTypes DEF OpenShop, ShutShop, ShopDay
<1>2. SlotsInv'
    BY SlotsEdited DEF setWorkingHours, PeriodsKept
<1> QED
    BY <1>1, <1>2 DEF setWorkingHours, Edit, TypeOK

\* The first half of a change of schedules: the row, and the request that goes on.
LEMMA StepSchedules ==
    ASSUME TypeOK, SlotsInv, NEW w \in Workers, NEW k \in Calls, NEW weekly \in Weekly,
           NEW hours \in Windows, create(k, w, weekly, hours) \/ update(k, w, weekly, hours)
    PROVE  TypeOK' /\ SlotsInv'
<1>1. hours \in Window
    BY ConstantTypes
<1>2. rows' \in [Workers -> Rows]
    <2>1. NoRows \in Rows /\ NoWindow \in Window
        BY EmptyTypes, ConstantTypes
    <2> QED
        BY <2>1 DEF create, update, TypeOK, Rows, Weekly
<1> DEFINE new == WithSchedule(w, weekly, hours)
<1>3. new \in Call /\ new.known = {} /\ new.offer = {} /\ new.step \notin {"shop", "bookings", "busy"}
    <2>1. [NoRows EXCEPT !.weekly = weekly, !.hours = hours] \in Rows
        BY <1>1, EmptyTypes DEF Rows
    <2>2. Idle.known = {} /\ Idle.offer = {} /\ w \in Everyone
        BY ConstantTypes DEF Idle
    <2> QED
        BY <2>1, <2>2, EmptyTypes DEF WithSchedule, Call
<1>4. (call' = call \/ call' = [call EXCEPT ![k] = new]) /\ UNCHANGED <<shop, busy, booking>>
      /\ edits' = edits + 1
    BY DEF create, update, Begin, Edit
<1> HIDE DEF new
<1>5. call' \in [Calls -> Call] /\ \A j \in Calls : call'[j] = call[j] \/ call'[j] = new
    BY <1>3, <1>4 DEF TypeOK
<1>6. SlotsInv'
    BY <1>3, <1>4, <1>5, SlotsEdited DEF PeriodsKept
<1> QED
    BY <1>2, <1>4, <1>5, <1>6 DEF TypeOK

LEMMA StepSaveSchedules ==
    ASSUME TypeOK, SlotsInv, NEW k \in Calls, saveSchedules(k)
    PROVE  TypeOK' /\ SlotsInv'
<1>1. call' = [call EXCEPT ![k] = Idle] /\ UNCHANGED <<shop, busy, booking, edits>>
    BY DEF saveSchedules
<1>2. call[k].rows \in Rows
    BY DEF TypeOK, Call
<1>3. rows' \in [Workers -> Rows]
    <2> DEFINE w == call[k].worker
               new == call[k].rows
    <2>1. \/ rows' = rows
          \/ rows' = [rows EXCEPT ![w] = [@ EXCEPT !.weekly = new.weekly, !.hours = new.hours]]
        BY DEF saveSchedules
    <2>2. \A r \in Rows : [r EXCEPT !.weekly = new.weekly, !.hours = new.hours] \in Rows
        BY <1>2 DEF Rows
    <2> HIDE DEF w, new
    <2> QED
        BY <2>1, <2>2 DEF TypeOK
<1>4. SlotsInv'
    BY <1>1, IdleKeeps
<1>5. call' \in [Calls -> Call]
    BY <1>1, EmptyTypes, OneCall DEF TypeOK
<1> QED
    BY <1>1, <1>3, <1>4, <1>5 DEF TypeOK

LEMMA StepWorkers ==
    ASSUME TypeOK, SlotsInv, NEW w \in Workers,
           \/ remove(w)
           \/ \E type \in {"day_off", "custom_hours", "no_times"}, custom \in Windows :
                 addException(w, type, custom)
           \/ \E x : removeException(w, x)
    PROVE  TypeOK' /\ SlotsInv'
<1>1. NoRows \in Rows /\ NoWindow \in Window /\ Windows \subseteq Window
    BY EmptyTypes, ConstantTypes
<1>2. rows' \in [Workers -> Rows]
    <2>1. CASE remove(w)
        BY <1>1, <2>1 DEF remove, TypeOK, Rows
    <2>2. ASSUME NEW x, removeException(w, x)
          PROVE  rows' \in [Workers -> Rows]
        BY <1>1, <2>2 DEF removeException, TypeOK, Rows
    <2>3. ASSUME NEW type \in {"day_off", "custom_hours", "no_times"}, NEW custom \in Windows,
                 addException(w, type, custom)
          PROVE  rows' \in [Workers -> Rows]
        <3> DEFINE new == [type |-> type, custom |-> IF type = "custom_hours" THEN custom ELSE NoWindow]
        <3>1. new \in Exception
            BY <1>1 DEF Exception
        <3>2. rows' = [rows EXCEPT ![w].exceptions = @ \union {new}]
            BY <2>3 DEF addException
        <3> HIDE DEF new
        <3> QED
            BY <3>1, <3>2 DEF TypeOK, Rows
    <2> QED
        BY <2>1, <2>2, <2>3
<1>3. busy' \in [BusyPeriods -> Busy] /\ PeriodsKept
    BY DEF remove, addException, removeException, TypeOK, Busy, PeriodsKept
<1>4. UNCHANGED <<shop, booking, call>> /\ edits' = edits + 1
    BY DEF remove, addException, removeException, Edit
<1>5. SlotsInv'
    BY <1>3, <1>4, SlotsEdited
<1> QED
    BY <1>2, <1>3, <1>4, <1>5 DEF TypeOK

LEMMA StepPeriods ==
    ASSUME TypeOK, SlotsInv, NEW p \in BusyPeriods,
           \/ \E w \in Workers, window \in Windows : addBusyPeriod(p, w, window)
           \/ removeBusyPeriod(p)
    PROVE  TypeOK' /\ SlotsInv'
<1>1. Workers \subseteq Everyone /\ Windows \subseteq Window
    BY ConstantTypes
<1>2. busy' \in [BusyPeriods -> Busy] /\ PeriodsKept
    BY <1>1 DEF addBusyPeriod, removeBusyPeriod, TypeOK, Busy, PeriodsKept
<1>3. UNCHANGED <<shop, rows, booking, call, edits>>
    BY DEF addBusyPeriod, removeBusyPeriod
<1>4. SlotsInv'
    BY <1>2, <1>3, SlotsEdited
<1> QED
    BY <1>2, <1>3, <1>4 DEF TypeOK

-------------------------------------------------------------------------------
LEMMA SlotsInit == Init => TypeOK /\ SlotsInv
<1> SUFFICES ASSUME Init PROVE TypeOK /\ SlotsInv
    OBVIOUS
<1>1. shop \in ShopDay
    BY ConstantTypes DEF Init, OpenShop, ShutShop, ShopDay
<1>2. rows \in [Workers -> Rows]
    <2>1. Hired \in Rows
        BY EmptyTypes DEF Hired, Rows
    <2>2. [Hired EXCEPT !.weekly = "otherDays"] \in Rows
        BY <2>1 DEF Rows, Weekly
    <2> QED
        BY <2>1, <2>2, EmptyTypes DEF Init
<1>3. \A k \in Calls : CallInv(k)
    BY DEF Init, Idle, CallInv, KnownStored, AskedInTurn, Offered
<1>4. \A b \in Bookings : BookingInv(b)
    BY DEF Init, NoBooking, BookingInv, EndStored, KnownStored, FreeSlot
<1> QED
    BY <1>1, <1>2, <1>3, <1>4, EmptyTypes DEF Init, TypeOK, SlotsInv

LEMMA SlotsStep ==
    ASSUME TypeOK, SlotsInv, [Next]_vars
    PROVE  TypeOK' /\ SlotsInv'
<1>1. CASE Request
    BY <1>1, StepAsked, StepFindOne, StepReadShop, StepReadBookings, StepReadBusy, StepForget DEF Request
<1>2. CASE Client
    BY <1>2, StepCheckout, StepBooking, StepReschedule DEF Client
<1>3. CASE Staff
    BY <1>3, StepHours, StepSchedules, StepSaveSchedules, StepWorkers, StepPeriods DEF Staff
<1>4. CASE UNCHANGED vars
    <2>1. SlotsInv'
        BY <1>4, SlotsEdited DEF vars, PeriodsKept
    <2> QED
        BY <1>4, <2>1 DEF vars, TypeOK
<1> QED
    BY <1>1, <1>2, <1>3, <1>4 DEF Next

\* The inductive invariant: what a call has read and the offers made from it bound what is
\* booked, whatever is edited, booked or cancelled between two of its queries.
THEOREM SlotsInvariant == Spec => [](TypeOK /\ SlotsInv)
<1>1. (TypeOK /\ SlotsInv) /\ [Next]_vars => (TypeOK /\ SlotsInv)'
    BY SlotsStep
<1> QED
    BY <1>1, SlotsInit, PTL DEF Spec

\* The state is of its type: a time that is stored is one of the day, since no slot is
\* offered that does not end in it.
THEOREM SlotsTypes == Spec => []TypeOK
    BY SlotsInvariant, PTL

\* Two live bookings of a worker are apart if the later was made from an offer that
\* knew the other, whatever was read, edited, booked or cancelled in between.
THEOREM BookingsKeptApart == Spec => []KnownBookingsKeptApart
<1>1. SlotsInv => KnownBookingsKeptApart
    BY DEF SlotsInv, BookingInv, FreeSlot, KnownBookingsKeptApart, Live, Unmoved, EndOf
<1> QED
    BY <1>1, SlotsInvariant, PTL

\* And it lies outside the busy periods that the offer knew.
THEOREM BusyKeptFree == Spec => []KnownBusyKeptFree
<1>1. SlotsInv => KnownBusyKeptFree
    <2> SUFFICES ASSUME SlotsInv, NEW b \in Bookings, NEW p \in booking[b].known \intersect BusyPeriods,
                        busy[p].worker = booking[b].worker
                 PROVE  Minutes(busy[p].window) \intersect (booking[b].start..(EndOf(b) - 1)) = {}
        BY DEF KnownBusyKeptFree
    <2>1. FreeSlot(booking[b].worker, booking[b].service, booking[b].start, booking[b].known)
        BY DEF SlotsInv, BookingInv
    <2> QED
        BY <2>1 DEF FreeSlot, EndOf
<1> QED
    BY <1>1, SlotsInvariant, PTL

-------------------------------------------------------------------------------
(* The computation of slots against its reference.                         *)

\* Hours, exceptions, schedules and closing days: the cascade of conditions gives the
\* minutes that the reference says are worked.
LEMMA HoursReference ==
    ASSUME NEW r \in Rows, NEW x \in Exception, NEW day \in ShopDay
    PROVE  Minutes(getWorkingHours(r, x, day)) = Worked(r, x, day)
<1>1. Minutes(NoWindow) = {}
    BY ConstantTypes DEF Minutes, NoWindow, Times
<1>2. ASSUME NEW own \in Window
      PROVE  Minutes(Within(own, day)) = {m \in Minutes(own) : day.state = "open" => m \in Minutes(day.hours)}
    <2>1. own.start \in Int /\ own.end \in Int /\ day.hours \in Window
          /\ day.hours.start \in Int /\ day.hours.end \in Int
        BY ConstantTypes DEF Window, Times, ShopDay
    <2>2. CASE day.state # "open"
        BY <2>2 DEF Within, Minutes
    <2>3. CASE day.state = "open"
        <3>1. Minutes(_clampHours(own, day.hours)) = Minutes(own) \intersect Minutes(day.hours)
            <4> DEFINE start == Later(own.start, day.hours.start)
                       end == Earlier(own.end, day.hours.end)
            <4>1. start \in Int /\ end \in Int
                  /\ \A m \in Int : /\ start <= m <=> own.start <= m /\ day.hours.start <= m
                                    /\ m < end <=> m < own.end /\ m < day.hours.end
                BY <2>1 DEF Later, Earlier
            <4> HIDE DEF start, end
            <4>2. Times \subseteq Int
                BY ConstantTypes DEF Times
            <4>3. \A m \in Times :
                     m \in Minutes(own) \intersect Minutes(day.hours) <=> start <= m /\ m < end
                BY <4>1, <4>2 DEF Minutes
            <4>4. \A m \in Times : m \in Minutes(_clampHours(own, day.hours)) <=> start <= m /\ m < end
                <5>1. CASE start >= end
                    <6>1. _clampHours(own, day.hours) = NoWindow
                        BY <5>1 DEF _clampHours, start, end
                    <6> QED
                        BY <1>1, <4>1, <4>2, <5>1, <6>1
                <5>2. CASE ~(start >= end)
                    <6>1. _clampHours(own, day.hours) = [start |-> start, end |-> end]
                        BY <5>2 DEF _clampHours, start, end
                    <6> QED
                        BY <6>1 DEF Minutes
                <5> QED
                    BY <5>1, <5>2
            <4>5. \A window : Minutes(window) \subseteq Times
                BY DEF Minutes
            <4> QED
                BY <4>3, <4>4, <4>5
        <3> QED
            BY <2>3, <3>1 DEF Within
    <2> QED
        BY <2>2, <2>3
<1>3. x.custom \in Window /\ r.hours \in Window /\ day.hours \in Window
      /\ r.weekly \in Weekly /\ day.state \in {"open", "closed", "unknown"}
    BY DEF Rows, Exception, ShopDay
<1>4. /\ \A m : m \in Minutes(Within(x.custom, day)) <=>
                   m \in Minutes(x.custom) /\ (day.state = "open" => m \in Minutes(day.hours))
      /\ \A m : m \in Minutes(Within(r.hours, day)) <=>
                   m \in Minutes(r.hours) /\ (day.state = "open" => m \in Minutes(day.hours))
      /\ \A window : Minutes(window) \subseteq Times
    BY <1>2, <1>3 DEF Minutes
<1> SUFFICES ASSUME NEW m
             PROVE  m \in Minutes(getWorkingHours(r, x, day)) <=> m \in Worked(r, x, day)
    OBVIOUS
<1>5. CASE x.type = "day_off"
    BY <1>1, <1>5 DEF getWorkingHours, Worked
<1>6. CASE x.type = "custom_hours"
    BY <1>4, <1>6 DEF getWorkingHours, Worked
<1>7. CASE x.type \notin {"day_off", "custom_hours"} /\ day.state = "closed"
    BY <1>1, <1>7 DEF getWorkingHours, Worked
<1>8. CASE x.type \notin {"day_off", "custom_hours"} /\ day.state # "closed" /\ r.weekly = "thisDay"
    BY <1>4, <1>8 DEF getWorkingHours, Worked
<1>9. CASE x.type \notin {"day_off", "custom_hours"} /\ day.state # "closed" /\ r.weekly = "none"
    BY <1>1, <1>4, <1>9 DEF getWorkingHours, Worked
<1>10. CASE x.type \notin {"day_off", "custom_hours"} /\ day.state # "closed" /\ r.weekly = "otherDays"
    BY <1>1, <1>10 DEF getWorkingHours, Worked
<1> QED
    BY <1>3, <1>5, <1>6, <1>7, <1>8, <1>9, <1>10 DEF Weekly

\* The grid of starts.
LEMMA Grid ==
    ASSUME NEW x \in Nat, NEW step \in Nat, step >= 1
    PROVE  /\ x % step = 0 => \E n \in 0..x : x = n * step
           /\ \A n \in Nat : x = n * step => x % step = 0
<1>1. ASSUME x % step = 0
      PROVE  \E n \in 0..x : x = n * step
    <2> DEFINE n == x \div step
    <2>1. n \in Int /\ x = step * n + (x % step)
        OBVIOUS
    <2>2. x = n * step
        BY <1>1, <2>1
    <2> HIDE DEF n
    <2>3. n \in 0..x
        BY <2>1, <2>2
    <2> QED
        BY <2>2, <2>3
<1>2. ASSUME NEW n \in Nat, x = n * step
      PROVE  x % step = 0
    BY <1>2
<1> QED
    BY <1>1, <1>2

\* A request leaves the shop only with the hours, and the busy periods only with slots.
LEMMA OnlyItself ==
    ASSUME TypeOK, NEW k \in Calls, [Next]_vars, call[k].step \in {"shop", "busy"}, call'[k] # call[k]
    PROVE  readShop(k) \/ readBusy(k)
<1>1. ~UNCHANGED call
    OBVIOUS
<1>2. ASSUME NEW j \in Calls, NEW new, call' = [call EXCEPT ![j] = new],
             call[j].step \notin {"shop", "busy"}
      PROVE  FALSE
    BY <1>2 DEF TypeOK
<1>3. CASE Request
    <2>1. ASSUME NEW j \in Calls, readShop(j) \/ readBusy(j), j # k
          PROVE  FALSE
        BY <2>1 DEF readShop, readBusy, TypeOK
    <2>2. ASSUME NEW j \in Calls,
                 \/ \E w \in Everyone, s \in Services : getAvailability(j, w, s)
                 \/ \E s \in Services : getShopAvailability(j, s)
                 \/ \E w \in Everyone : findOne(j, w)
                 \/ readBookings(j)
                 \/ Forget(j)
          PROVE  FALSE
        <3>1. call[j].step \notin {"shop", "busy"}
            BY <2>2 DEF getAvailability, getShopAvailability, Begin, findOne, readBookings, Forget, At
        <3>2. \E new : call' = [call EXCEPT ![j] = new]
            BY <2>2 DEF getAvailability, getShopAvailability, Begin, findOne, readBookings, Forget
        <3> QED
            BY <1>2, <3>1, <3>2
    <2> QED
        BY <1>3, <2>1, <2>2 DEF Request
<1>4. CASE Client
    <2>1. ASSUME NEW j \in Calls, NEW b, NEW slot, NEW status, checkoutSlot(j, b, slot, status)
          PROVE  FALSE
        BY <1>2, <2>1 DEF checkoutSlot, At
    <2>2. ASSUME NEW b, NEW w, NEW s, NEW t, NEW status, NEW here,
                 \/ checkout(b, w, s, t, status) \/ reschedule(b, t, here)
                 \/ confirm(b) \/ qrCheckin(b) \/ markExpired(b) \/ leave(b)
          PROVE  FALSE
        BY <1>1, <2>2 DEF checkout, confirm, qrCheckin, markExpired, leave, reschedule
    <2> QED
        BY <1>4, <2>1, <2>2 DEF Client
<1>5. CASE Staff
    <2>1. ASSUME NEW w, NEW j \in Calls, NEW weekly, NEW hours,
                 create(j, w, weekly, hours) \/ update(j, w, weekly, hours)
          PROVE  FALSE
        BY <1>1, <1>2, <2>1 DEF create, update, Begin, At
    <2>2. ASSUME NEW j \in Calls, saveSchedules(j)
          PROVE  FALSE
        BY <1>2, <2>2 DEF saveSchedules, At
    <2> QED
        BY <1>1, <1>5, <2>1, <2>2 DEF Staff, setWorkingHours, remove, addException, removeException,
                                      addBusyPeriod, removeBusyPeriod
<1> QED
    BY <1>1, <1>3, <1>4, <1>5 DEF Next, vars

\* The starts whose every minute is worked and neither booked, busy nor buffer.
Free(hours, d, buffer, blocked) ==
    {t \in Minutes(hours) :
        /\ \E n \in 0..Day : t = hours.start + n * Step
        /\ t..(t + d - 1) \subseteq Minutes(hours)
        /\ (t..(t + d - 1)) \intersect Busied(blocked, buffer) = {}}

LEMMA OfferedIsFree ==
    ASSUME NEW hours \in Window, NEW d \in Nat, 1 <= d, NEW buffer \in Nat, NEW blocked \in SUBSET Window,
           NEW t \in generateSlots(hours, d, buffer, blocked)
    PROVE  t \in Free(hours, d, buffer, blocked)
<1>1. Day \in Nat /\ Step \in Nat /\ Step >= 1 /\ hours.start \in Nat /\ hours.end \in Nat
      /\ hours.end <= Day
    BY ConstantTypes DEF Window, Times
<1>2. t \in Int /\ hours.start <= t /\ t + d <= hours.end /\ (t - hours.start) % Step = 0
      /\ ~hasCollision(t, t + d, buffer, blocked)
    BY <1>1 DEF generateSlots
<1>3. t \in Minutes(hours) /\ t..(t + d - 1) \subseteq Minutes(hours)
    BY <1>1, <1>2 DEF Minutes, Times
<1>4. \E n \in 0..Day : t = hours.start + n * Step
    <2> DEFINE x == t - hours.start
    <2>1. x \in Nat /\ x <= Day /\ x % Step = 0
        BY <1>1, <1>2
    <2>2. t = hours.start + x
        BY <1>1, <1>2
    <2> HIDE DEF x
    <2>3. PICK n \in 0..x : x = n * Step
        BY <1>1, <2>1, Grid
    <2> QED
        BY <1>1, <2>1, <2>2, <2>3
<1>5. ASSUME NEW m \in t..(t + d - 1), m \in Busied(blocked, buffer)
      PROVE  FALSE
    <2>1. PICK w \in blocked : w.start <= m /\ m < w.end + buffer
        BY <1>5 DEF Busied
    <2>2. w.start \in Int /\ w.end \in Int
        BY ConstantTypes DEF Window, Times
    <2>3. ~(t < w.end + buffer /\ t + d > w.start)
        BY <1>2 DEF hasCollision
    <2> QED
        BY <1>2, <1>5, <2>1, <2>2, <2>3
<1> QED
    BY <1>3, <1>4, <1>5 DEF Free

LEMMA FreeIsOffered ==
    ASSUME NEW hours \in Window, NEW d \in Nat, 1 <= d, NEW buffer \in Nat, 1 <= buffer,
           NEW blocked \in SUBSET Window, \A w \in blocked : w.start <= w.end,
           NEW t \in Free(hours, d, buffer, blocked)
    PROVE  t \in generateSlots(hours, d, buffer, blocked)
<1>1. Day \in Nat /\ Step \in Nat /\ Step >= 1 /\ hours.start \in Nat /\ hours.end \in Nat
      /\ hours.end <= Day
    BY ConstantTypes DEF Window, Times
<1>2. t \in Int /\ hours.start <= t /\ t < hours.end
    BY <1>1 DEF Free, Minutes, Times
<1>3. t + d <= hours.end
    <2>1. t + d - 1 \in t..(t + d - 1)
        BY <1>2
    <2>2. t + d - 1 \in Minutes(hours)
        BY <2>1 DEF Free
    <2> QED
        BY <1>1, <1>2, <2>2 DEF Minutes
<1>4. (t - hours.start) % Step = 0
    <2> DEFINE x == t - hours.start
    <2>1. PICK n \in 0..Day : t = hours.start + n * Step
        BY DEF Free
    <2>2. x \in Nat /\ n \in Nat /\ x = n * Step
        BY <1>1, <1>2, <2>1
    <2> HIDE DEF x
    <2>3. x % Step = 0
        BY <1>1, <2>2, Grid
    <2> QED
        BY <2>3 DEF x
<1>5. ASSUME NEW w \in blocked, t < w.end + buffer, t + d > w.start
      PROVE  FALSE
    <2>1. w.start \in Nat /\ w.end \in Nat /\ w.start <= w.end /\ w.end <= Day
        BY ConstantTypes DEF Window, Times
    <2> DEFINE m == IF t >= w.start THEN t ELSE w.start
    <2>2. m \in t..(t + d - 1) /\ w.start <= m /\ m < w.end + buffer /\ m \in 0..(2 * Day)
        BY <1>1, <1>2, <1>3, <1>5, <2>1
    <2> HIDE DEF m
    <2>3. m \in Busied(blocked, buffer)
        BY <2>2 DEF Busied
    <2> QED
        BY <2>2, <2>3 DEF Free
<1> QED
    BY <1>1, <1>2, <1>3, <1>4, <1>5 DEF generateSlots, hasCollision

\* A request answers with the hours and the slots of the reference.
LEMMA OffersStep ==
    ASSUME TypeOK, SlotsInv, [Next]_vars, NEW k \in Calls
    PROVE  /\ At(k, "shop") /\ ~At(k, "shop")' /\ ~At(k, "idle")' =>
                 Minutes(call'[k].hours) = Worked(call[k].rows, call[k].exception, shop)
           /\ At(k, "busy") /\ ~At(k, "busy")' =>
                 LET c == call[k]
                     blocked == c.blocked \union {busy[p].window : p \in getBusyRangesForDate(c.worker)}
                     offered == {t \in Times : <<c.worker, t>> \in call'[k].offer}
                     free == Free(c.hours, Duration[c.service], bufferMinutes(c.worker), blocked)
                 IN /\ offered \subseteq free
                    /\ (\A w \in blocked : w.start <= w.end) => offered = free
<1> DEFINE c == call[k]
<1>1. c \in Call
    BY DEF TypeOK
<1>2. ASSUME At(k, "shop"), ~At(k, "shop")'
      PROVE  Minutes(call'[k].hours) = Worked(c.rows, c.exception, shop)
    <2>1. readShop(k)
        BY <1>2, OnlyItself DEF At, readBusy
    <2>2. call'[k].hours = getWorkingHours(c.rows, c.exception, shop)
        <3>1. CASE getWorkingHours(c.rows, c.exception, shop) = NoWindow
            <4>1. call'[k] = Answered(c, {})
                BY <2>1, <3>1 DEF readShop, TypeOK
            <4> QED
                BY <1>1, <3>1, <4>1 DEF Answered, Call
        <3>2. CASE getWorkingHours(c.rows, c.exception, shop) # NoWindow
            <4>1. call'[k] = [c EXCEPT !.step = "bookings", !.hours = getWorkingHours(c.rows, c.exception, shop)]
                BY <2>1, <3>2 DEF readShop, TypeOK
            <4> QED
                BY <1>1, <4>1 DEF Call
        <3> QED
            BY <3>1, <3>2
    <2>3. c.rows \in Rows /\ c.exception \in Exception /\ shop \in ShopDay
        BY <1>1 DEF TypeOK, Call
    <2> QED
        BY <2>2, <2>3, HoursReference
<1>3. ASSUME At(k, "busy"), ~At(k, "busy")'
      PROVE  LET blocked == c.blocked \union {busy[p].window : p \in getBusyRangesForDate(c.worker)}
                 offered == {t \in Times : <<c.worker, t>> \in call'[k].offer}
                 free == Free(c.hours, Duration[c.service], bufferMinutes(c.worker), blocked)
             IN /\ offered \subseteq free
                /\ (\A w \in blocked : w.start <= w.end) => offered = free
    <2> DEFINE w == c.worker
               blocked == c.blocked \union {busy[p].window : p \in getBusyRangesForDate(w)}
               d == Duration[c.service]
               slots == generateSlots(c.hours, d, bufferMinutes(w), blocked)
               free == Free(c.hours, d, bufferMinutes(w), blocked)
               informed == [c EXCEPT !.known = c.known \union StoredPeriods(w)]
    <2>1. readBusy(k)
        BY <1>3, OnlyItself DEF At, readShop
    <2>2. call'[k] = Answered(informed, slots)
        BY <2>1 DEF readBusy, TypeOK
    <2>3. informed \in Call /\ informed.worker = w /\ informed.offer = c.offer
        BY <1>1, AvailabilityAssumption DEF AvailabilityAssumption, Call, StoredPeriods
    <2>4. c.hours \in Window /\ d \in Nat /\ 1 <= d /\ bufferMinutes(w) \in Nat /\ 1 <= bufferMinutes(w)
        BY <1>1, ConstantTypes, AvailabilityAssumption DEF AvailabilityAssumption, Call, bufferMinutes
    <2>5. blocked \in SUBSET Window
        BY <1>1 DEF Call, TypeOK, Busy, getBusyRangesForDate
    <2>6. slots \subseteq Times /\ slots \subseteq free
        BY <2>4, <2>5, OfferedIsFree DEF Free, Minutes
    <2>7. (\A window \in blocked : window.start <= window.end) => slots = free
        BY <2>4, <2>5, <2>6, FreeIsOffered
    <2>8. \A t : <<w, t>> \notin c.offer
        <3>1. w \in c.todo /\ \A slot \in c.offer : slot[1] \notin c.todo
            BY <1>3 DEF SlotsInv, CallInv, AskedInTurn, Offered, At
        <3>2. \A t : <<w, t>>[1] = w
            OBVIOUS
        <3> QED
            BY <3>1, <3>2
    <2> HIDE DEF slots, informed, free, blocked
    <2>9. call'[k].offer = c.offer \union {<<w, t>> : t \in slots}
        BY <2>2, <2>3, <2>6, AnsweredType
    <2>10. \A t : <<w, t>> \in call'[k].offer <=> t \in slots
        BY <2>8, <2>9
    <2>11. {t \in Times : <<w, t>> \in call'[k].offer} = slots
        BY <2>6, <2>10
    <2> QED
        BY <2>6, <2>7, <2>11 DEF free, blocked
<1> QED
    BY <1>2, <1>3

\* The slots offered are those of the reference, for any hours, exceptions, schedules,
\* services, buffers and grid: none that is not free, and all of them unless a busy
\* period ends before it starts.
THEOREM OffersAreTheReference == Spec => OffersMatchReference
<1>1. TypeOK /\ SlotsInv /\ [Next]_vars =>
          [\A k \in Calls :
              /\ At(k, "shop") /\ ~At(k, "shop")' /\ ~At(k, "idle")' =>
                    Minutes(call'[k].hours) = Worked(call[k].rows, call[k].exception, shop)
              /\ At(k, "busy") /\ ~At(k, "busy")' =>
                    LET c == call[k]
                        blocked == c.blocked \union {busy[p].window : p \in getBusyRangesForDate(c.worker)}
                        wanted(t) == t..(t + Duration[c.service] - 1)
                        free == {t \in Minutes(c.hours) :
                                    /\ \E n \in 0..Day : t = c.hours.start + n * Step
                                    /\ wanted(t) \subseteq Minutes(c.hours)
                                    /\ wanted(t) \intersect Busied(blocked, bufferMinutes(c.worker)) = {}}
                        offered == {t \in Times : <<c.worker, t>> \in call'[k].offer}
                    IN /\ offered \subseteq free
                       /\ (\A w \in blocked : w.start <= w.end) => offered = free]_vars
    BY OffersStep DEF Free
<1> QED
    BY <1>1, SlotsInvariant, PTL DEF Spec, OffersMatchReference
====================================================================================
