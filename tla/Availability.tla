------------------------------ MODULE Availability ------------------------------
(***************************************************************************)
(* The slots a shop offers on one date, and what becomes of them.          *)
(*                                                                         *)
(* A request for slots reads the worker, the shop, the bookings and the    *)
(* busy periods one after the other, while owners edit schedules and other *)
(* clients book.  A checkout never looks at any of this again: it stores   *)
(* the worker and the time it is given.  Times are minutes of the day, in  *)
(* a coarse unit; a stored time keeps only its hour and minute.            *)
(***************************************************************************)
EXTENDS Integers, FiniteSets

CONSTANTS
    Workers,        \* ids of hired workers
    Owner,          \* the negative id that stands for the shop's owner
    Services, Duration,
    Buffer,         \* buffer_minutes of a worker, 0 if it was set to 0
    DEFAULT_BUFFER,
    Step,           \* stepMinutes
    Day,            \* minutes of a day
    Windows,        \* the hours that shops and workers choose from
    Bookings,       \* bound: rows of bookings
    BusyPeriods,    \* bound: rows of worker_busy_periods
    Calls,          \* requests in flight
    MaxEdits        \* bound: changes of hours, workers and exceptions

Everyone == Workers \union {Owner}
Times == 0..Day
Window == [start : Times, end : Times]
NoWindow == [start |-> Day, end |-> Day]

ASSUME AvailabilityAssumption ==
    /\ Day \in Nat \ {0} /\ Step \in Nat \ {0} /\ DEFAULT_BUFFER \in Nat \ {0}
    /\ Windows \subseteq Window
    /\ Owner \notin Workers
    /\ Services # {}
    /\ Duration \in [Services -> 1..Day]
    /\ Buffer \in [Everyone -> Nat]
    /\ Bookings \intersect BusyPeriods = {}
    /\ MaxEdits \in Nat

\* The weekly schedule: none at all, rows for other days only, or a row for this one.
Weekly == {"none", "otherDays", "thisDay"}
Exception == [type : {"none", "day_off", "custom_hours", "no_times"}, custom : Window]
NoException == [type |-> "none", custom |-> NoWindow]
Rows == [hired : {"never", "now", "left"},
         weekly : Weekly, hours : Window,
         exceptions : SUBSET Exception]     \* for this date; bound: rows alike are one
NoRows == [hired |-> "never", weekly |-> "none", hours |-> NoWindow, exceptions |-> {}]

ShopDay == [state : {"open", "closed", "unknown"}, hours : Window]

BookingStatus == {"none", "PENDING_PAYMENT", "CONFIRMED", "IN_SERVICE", "NO_SHOW", "over"}
Booking == [status : BookingStatus, worker : Everyone, service : Services,
            start : 0..(Day - 1), end : 0..(Day - 1),
            here : BOOLEAN,     \* on this date
            moved : BOOLEAN,    \* history: it was rescheduled
            known : SUBSET (Bookings \union BusyPeriods)]   \* history: see readBookings

Busy == [state : {"none", "stored", "removed"}, worker : Everyone, window : Window]

Call == [step : {"idle", "saveSchedules", "worker", "shop", "bookings", "busy", "offered"},
         todo : SUBSET Everyone,    \* the workers still to ask
         worker : Everyone, service : Services,
         rows : Rows,               \* the worker as read, or the schedules to save
         exception : Exception,     \* the one of the date that was come upon
         hours : Window,
         blocked : SUBSET Window,   \* the windows of the bookings that were read
         known : SUBSET (Bookings \union BusyPeriods),
         offer : SUBSET (Everyone \X Times)]

VARIABLES
    shop,       \* the shop's opening hours on the date
    rows,       \* workers, worker_schedules and worker_exceptions
    busy,       \* worker_busy_periods
    booking,    \* bookings
    call,
    edits

vars == <<shop, rows, busy, booking, call, edits>>

AnyService == CHOOSE s \in Services : TRUE
Idle == [step |-> "idle", todo |-> {}, worker |-> Owner, service |-> AnyService, rows |-> NoRows,
         exception |-> NoException, hours |-> NoWindow, blocked |-> {}, known |-> {}, offer |-> {}]
NoBooking == [status |-> "none", worker |-> Owner, service |-> AnyService, start |-> 0, end |-> 0,
              here |-> TRUE, moved |-> FALSE, known |-> {}]
NoBusy == [state |-> "none", worker |-> Owner, window |-> NoWindow]

TypeOK ==
    /\ shop \in ShopDay
    /\ rows \in [Workers -> Rows]
    /\ busy \in [BusyPeriods -> Busy]
    /\ booking \in [Bookings -> Booking]
    /\ call \in [Calls -> Call]
    /\ edits \in Nat

OpenShop == [state : {"open"}, hours : Windows]
ShutShop == [state : {"closed", "unknown"}, hours : {NoWindow}]
Hired == [NoRows EXCEPT !.hired = "now"]

\* Some workers are hired, with no schedule or one that leaves this day out.
Init ==
    /\ shop \in OpenShop \union ShutShop
    /\ rows \in [Workers -> {NoRows, Hired, [Hired EXCEPT !.weekly = "otherDays"]}]
    /\ busy = [p \in BusyPeriods |-> NoBusy]
    /\ booking = [b \in Bookings |-> NoBooking]
    /\ call = [k \in Calls |-> Idle]
    /\ edits = 0

-------------------------------------------------------------------------------
(* The computation of slots.                                               *)

Later(m, n) == IF m >= n THEN m ELSE n
Earlier(m, n) == IF m <= n THEN m ELSE n

_clampHours(own, opening) ==
    LET start == Later(own.start, opening.start)
        end == Earlier(own.end, opening.end)
    IN IF start >= end THEN NoWindow ELSE [start |-> start, end |-> end]

\* The hours within the shop's, if those are known.
Within(own, day) == IF day.state = "open" THEN _clampHours(own, day.hours) ELSE own

\* Mutated form: an exception is not held against the opening hours.
getUnclampedHours(r, exception, day) ==
    IF exception.type = "custom_hours" THEN exception.custom
    ELSE IF exception.type = "day_off" \/ day.state = "closed" THEN NoWindow
    ELSE IF r.weekly = "thisDay" THEN Within(r.hours, day)
    ELSE IF r.weekly = "none" /\ day.state = "open" THEN day.hours
    ELSE NoWindow

\* An exception comes before the shop's closing day; a weekly schedule without this
\* day is a day off; without any the shop's hours apply.
getWorkingHours(r, exception, day) ==
    IF exception.type = "day_off" THEN NoWindow
    ELSE IF exception.type = "custom_hours" THEN Within(exception.custom, day)
    ELSE IF day.state = "closed" THEN NoWindow
    ELSE IF r.weekly = "thisDay" THEN Within(r.hours, day)
    ELSE IF r.weekly = "none" /\ day.state = "open" THEN day.hours
    ELSE NoWindow

\* A buffer of 0 counts as not set.
bufferMinutes(w) == IF Buffer[w] = 0 THEN DEFAULT_BUFFER ELSE Buffer[w]

hasCollision(start, end, buffer, blocked) ==
    \E window \in blocked : start < window.end + buffer /\ end > window.start

generateSlots(hours, duration, buffer, blocked) ==
    {t \in hours.start..hours.end :
        /\ (t - hours.start) % Step = 0
        /\ t + duration <= hours.end
        /\ ~hasCollision(t, t + duration, buffer, blocked)}

BookingWindow(b) == [start |-> booking[b].start, end |-> booking[b].end]

\* Mutated form: once the client is checked in the window is free.
ConfirmedBookings(w) ==
    {b \in Bookings : booking[b].here /\ booking[b].worker = w /\ booking[b].status = "CONFIRMED"}

getWorkerBookingsForDate(w) ==
    {b \in Bookings : /\ booking[b].here /\ booking[b].worker = w
                      /\ booking[b].status \in {"CONFIRMED", "IN_SERVICE"}}

\* Mutated form: the owner's busy periods only.
getOwnerBusyRanges(w) == {p \in BusyPeriods : busy[p].state = "stored" /\ busy[p].worker = Owner}

getBusyRangesForDate(w) == {p \in BusyPeriods : busy[p].state = "stored" /\ busy[p].worker = w}

-------------------------------------------------------------------------------
(* A request for slots.                                                    *)

At(k, step) == call[k].step = step
Begin(k, known) == At(k, "idle") /\ call' = [call EXCEPT ![k] = known]

getAvailability(k, w, s) ==
    /\ Begin(k, [Idle EXCEPT !.step = "worker", !.todo = {w}, !.service = s])
    /\ UNCHANGED <<shop, rows, busy, booking, edits>>

findByShop == LET hired == {w \in Workers : rows[w].hired = "now"} IN IF hired = {} THEN {Owner} ELSE hired

getShopAvailability(k, s) ==
    /\ Begin(k, [Idle EXCEPT !.step = "worker", !.todo = findByShop, !.service = s])
    /\ UNCHANGED <<shop, rows, busy, booking, edits>>

\* The worker with his schedules and exceptions, of which the one of the date that is
\* come upon first counts: no order is asked for.  One who is gone fails the request.
findOne(k, w) ==
    /\ At(k, "worker")
    /\ w \in call[k].todo
    /\ IF w \in Workers /\ rows[w].hired # "now" THEN call' = [call EXCEPT ![k] = Idle]
       ELSE LET r == IF w = Owner THEN NoRows ELSE rows[w] IN
            \E x \in IF r.exceptions = {} THEN {NoException} ELSE r.exceptions :
                call' = [call EXCEPT ![k] = [@ EXCEPT !.step = "shop", !.worker = w,
                                                      !.rows = r, !.exception = x]]
    /\ UNCHANGED <<shop, rows, busy, booking, edits>>

\* With the slots of this worker the request goes on to the next one.
Answered(c, slots) ==
    LET rest == c.todo \ {c.worker} IN
    [c EXCEPT !.step = IF rest = {} THEN "offered" ELSE "worker", !.todo = rest, !.worker = Owner,
              !.rows = NoRows, !.exception = NoException, !.hours = NoWindow, !.blocked = {},
              !.offer = @ \union {<<c.worker, t>> : t \in slots}]

readShop(k) ==
    LET hours == getWorkingHours(call[k].rows, call[k].exception, shop) IN
    /\ At(k, "shop")
    /\ call' = [call EXCEPT ![k] =
                   IF hours = NoWindow THEN Answered(@, {})
                   ELSE [@ EXCEPT !.step = "bookings", !.hours = hours]]
    /\ UNCHANGED <<shop, rows, busy, booking, edits>>

\* History: a booking made from this offer knows of the live bookings and, below, of
\* the busy periods that were stored.
Live(b) == booking[b].here /\ booking[b].status \in {"CONFIRMED", "IN_SERVICE"}
LiveBookings(w) == {b \in Bookings : Live(b) /\ booking[b].worker = w}
StoredPeriods(w) == {p \in BusyPeriods : busy[p].state = "stored" /\ busy[p].worker = w}

readBookings(k) ==
    LET found == getWorkerBookingsForDate(call[k].worker) IN
    /\ At(k, "bookings")
    /\ call' = [call EXCEPT ![k].step = "busy",
                            ![k].blocked = {BookingWindow(b) : b \in found},
                            ![k].known = @ \union LiveBookings(call[k].worker)]
    /\ UNCHANGED <<shop, rows, busy, booking, edits>>

readBusy(k) ==
    LET c == call[k]
        found == getBusyRangesForDate(c.worker)
        slots == generateSlots(c.hours, Duration[c.service], bufferMinutes(c.worker),
                               c.blocked \union {busy[p].window : p \in found})
    IN
    /\ At(k, "busy")
    /\ call' = [call EXCEPT ![k] = Answered([c EXCEPT !.known = @ \union StoredPeriods(c.worker)], slots)]
    /\ UNCHANGED <<shop, rows, busy, booking, edits>>

\* The client leaves.
Forget(k) ==
    /\ At(k, "offered")
    /\ call' = [call EXCEPT ![k] = Idle]
    /\ UNCHANGED <<shop, rows, busy, booking, edits>>

-------------------------------------------------------------------------------
(* Bookings.  The interleavings of these handlers are in BookingLifecycle: *)
(* here each one is the step that changes what a request may read.         *)

\* Mutated form: the end is counted from the morning of the day.
StoreUnwrapped(b, w, s, t, known, status) ==
    /\ booking[b].status = "none"
    /\ booking' = [booking EXCEPT ![b] =
                      [status |-> status, worker |-> w, service |-> s,
                       start |-> t, end |-> t + Duration[s],
                       here |-> TRUE, moved |-> FALSE, known |-> known]]

Store(b, w, s, t, known, status) ==
    /\ booking[b].status = "none"
    /\ booking' = [booking EXCEPT ![b] =
                      [status |-> status, worker |-> w, service |-> s,
                       start |-> t, end |-> (t + Duration[s]) % Day,
                       here |-> TRUE, moved |-> FALSE, known |-> known]]

\* Paid from the wallet, or through a provider that will confirm.
Unpaid == {"CONFIRMED", "PENDING_PAYMENT"}

\* One of the slots a client was offered.
checkoutSlot(k, b, slot, status) ==
    /\ At(k, "offered") /\ slot \in call[k].offer
    /\ Store(b, slot[1], call[k].service, slot[2], call[k].known, status)
    /\ call' = [call EXCEPT ![k] = Idle]
    /\ UNCHANGED <<shop, rows, busy, edits>>

\* Any worker and time: neither is checked.
checkout(b, w, s, t, status) ==
    /\ t < Day
    /\ Store(b, w, s, t, {}, status)
    /\ UNCHANGED <<shop, rows, busy, call, edits>>

confirm(b) ==
    /\ booking[b].status = "PENDING_PAYMENT"
    /\ booking' = [booking EXCEPT ![b].status = "CONFIRMED"]
    /\ UNCHANGED <<shop, rows, busy, call, edits>>

qrCheckin(b) ==
    /\ booking[b].status = "CONFIRMED"
    /\ booking' = [booking EXCEPT ![b].status = "IN_SERVICE"]
    /\ UNCHANGED <<shop, rows, busy, call, edits>>

markExpired(b) ==
    /\ booking[b].status = "CONFIRMED"
    /\ booking' = [booking EXCEPT ![b].status = "NO_SHOW"]
    /\ UNCHANGED <<shop, rows, busy, call, edits>>

\* Cancelled, ended or never paid: nothing reads the row's times again.
leave(b) ==
    /\ booking[b].status \in {"PENDING_PAYMENT", "CONFIRMED", "IN_SERVICE"}
    /\ booking' = [booking EXCEPT ![b] = [NoBooking EXCEPT !.status = "over"]]
    /\ UNCHANGED <<shop, rows, busy, call, edits>>

\* The time of the end stays as it was.
reschedule(b, t, here) ==
    /\ t < Day
    /\ booking[b].status \in {"PENDING_PAYMENT", "CONFIRMED", "NO_SHOW"}
    /\ booking' = [booking EXCEPT ![b].status = IF @ = "NO_SHOW" THEN "CONFIRMED" ELSE @,
                                   ![b].start = t, ![b].here = here,
                                   ![b].moved = TRUE, ![b].known = {}]
    /\ UNCHANGED <<shop, rows, busy, call, edits>>

-------------------------------------------------------------------------------
(* What the owner of a shop edits.                                         *)

Edit == edits < MaxEdits /\ edits' = edits + 1

setWorkingHours(day) ==
    /\ Edit
    /\ shop' = day
    /\ UNCHANGED <<rows, busy, booking, call>>

WithSchedule(w, weekly, hours) ==
    [Idle EXCEPT !.step = "saveSchedules", !.worker = w,
                 !.rows = [NoRows EXCEPT !.weekly = weekly, !.hours = hours]]

\* The worker is stored first, his schedules after.
create(k, w, weekly, hours) ==
    /\ Edit
    /\ rows[w].hired = "never"
    /\ rows' = [rows EXCEPT ![w] = [NoRows EXCEPT !.hired = "now"]]
    /\ IF weekly = "none" THEN At(k, "idle") /\ UNCHANGED call
       ELSE Begin(k, WithSchedule(w, weekly, hours))
    /\ UNCHANGED <<shop, busy, booking>>

\* The rows of the schedule are deleted first, the new ones inserted after.
update(k, w, weekly, hours) ==
    /\ Edit
    /\ rows[w].hired = "now"
    /\ rows' = [rows EXCEPT ![w].weekly = "none", ![w].hours = NoWindow]
    /\ IF weekly = "none" THEN At(k, "idle") /\ UNCHANGED call
       ELSE Begin(k, WithSchedule(w, weekly, hours))
    /\ UNCHANGED <<shop, busy, booking>>

\* Two requests may both have deleted: the first row of the day is the one that counts.
saveSchedules(k) ==
    LET w == call[k].worker
        new == call[k].rows
    IN
    /\ At(k, "saveSchedules")
    /\ rows' = IF rows[w].hired # "now" \/ rows[w].weekly = "thisDay" THEN rows
               ELSE [rows EXCEPT ![w].weekly = new.weekly, ![w].hours = new.hours]
    /\ call' = [call EXCEPT ![k] = Idle]
    /\ UNCHANGED <<shop, busy, booking, edits>>

\* Schedules, exceptions and busy periods go with the worker; his bookings stay.
remove(w) ==
    /\ Edit
    /\ rows[w].hired = "now"
    /\ rows' = [rows EXCEPT ![w] = [NoRows EXCEPT !.hired = "left"]]
    /\ busy' = [p \in BusyPeriods |-> IF busy[p].state = "stored" /\ busy[p].worker = w
                                      THEN [busy[p] EXCEPT !.state = "removed"] ELSE busy[p]]
    /\ UNCHANGED <<shop, booking, call>>

\* As many for one date as are asked for.
addException(w, type, custom) ==
    LET new == [type |-> type, custom |-> IF type = "custom_hours" THEN custom ELSE NoWindow] IN
    /\ Edit
    /\ rows[w].hired = "now"
    /\ rows' = [rows EXCEPT ![w].exceptions = @ \union {new}]
    /\ UNCHANGED <<shop, busy, booking, call>>

removeException(w, x) ==
    /\ Edit
    /\ x \in rows[w].exceptions
    /\ rows' = [rows EXCEPT ![w].exceptions = @ \ {x}]
    /\ UNCHANGED <<shop, busy, booking, call>>

\* Whatever is booked in the window, and in whatever order its ends are.
addBusyPeriod(p, w, window) ==
    /\ busy[p].state = "none"
    /\ rows[w].hired = "now"
    /\ busy' = [busy EXCEPT ![p] = [state |-> "stored", worker |-> w, window |-> window]]
    /\ UNCHANGED <<shop, rows, booking, call, edits>>

removeBusyPeriod(p) ==
    /\ busy[p].state = "stored"
    /\ busy' = [busy EXCEPT ![p].state = "removed"]
    /\ UNCHANGED <<shop, rows, booking, call, edits>>

-------------------------------------------------------------------------------
Request ==
    \E k \in Calls :
        \/ \E w \in Everyone, s \in Services : getAvailability(k, w, s)
        \/ \E s \in Services : getShopAvailability(k, s)
        \/ \E w \in Everyone : findOne(k, w)
        \/ readShop(k)
        \/ readBookings(k)
        \/ readBusy(k)
        \/ Forget(k)

Client ==
    \E b \in Bookings :
        \/ \E k \in Calls, status \in Unpaid : \E slot \in call[k].offer : checkoutSlot(k, b, slot, status)
        \/ \E w \in Everyone, s \in Services, t \in Times, status \in Unpaid : checkout(b, w, s, t, status)
        \/ confirm(b)
        \/ qrCheckin(b)
        \/ markExpired(b)
        \/ leave(b)
        \/ \E t \in Times, here \in BOOLEAN : reschedule(b, t, here)

Staff ==
    \/ \E day \in OpenShop \union ShutShop : setWorkingHours(day)
    \/ \E w \in Workers :
          \/ \E k \in Calls, weekly \in Weekly, hours \in Windows :
                create(k, w, weekly, hours) \/ update(k, w, weekly, hours)
          \/ remove(w)
          \/ \E type \in {"day_off", "custom_hours", "no_times"}, custom \in Windows :
                addException(w, type, custom)
          \/ \E x \in rows[w].exceptions : removeException(w, x)
          \/ \E p \in BusyPeriods, window \in Windows : addBusyPeriod(p, w, window)
    \/ \E k \in Calls : saveSchedules(k)
    \/ \E p \in BusyPeriods : removeBusyPeriod(p)

Next == Request \/ Client \/ Staff

Spec == Init /\ [][Next]_vars

-------------------------------------------------------------------------------
(* Properties.                                                             *)

Minutes(window) == {m \in Times : window.start <= m /\ m < window.end}

\* The minutes a worker works: those of the exception if it has hours, else of the
\* weekly schedule, else of the shop; never outside the shop's hours if it has any;
\* none on a day off, nor, unless by exception, on a day the shop is closed.
Worked(r, exception, day) ==
    {m \in Times :
        /\ exception.type # "day_off"
        /\ day.state = "open" => m \in Minutes(day.hours)
        /\ exception.type = "custom_hours" => m \in Minutes(exception.custom)
        /\ exception.type # "custom_hours" =>
              /\ day.state # "closed"
              /\ r.weekly = "none" => day.state = "open"
              /\ r.weekly = "otherDays" => FALSE
              /\ r.weekly = "thisDay" => m \in Minutes(r.hours)}

Busied(blocked, buffer) == UNION {{m \in 0..(2 * Day) : w.start <= m /\ m < w.end + buffer} : w \in blocked}

\* The slots offered are exactly those on the grid whose every minute is worked and
\* neither booked, busy nor buffer, by the rows that the request read; a window that
\* ends before it starts may cost more.
OffersMatchReference ==
    [][\A k \in Calls :
          /\ At(k, "shop") /\ ~At(k, "shop")' /\ ~At(k, "idle")' =>
                Minutes(call'[k].hours) = Worked(call[k].rows, call[k].exception, shop)
          /\ At(k, "busy") /\ ~At(k, "busy")' =>
                LET c == call[k]
                    blocked == c.blocked \union {busy[p].window : p \in getBusyRangesForDate(c.worker)}
                    wanted(t) == t..(t + Duration[c.service] - 1)
                    free == {t \in Minutes(c.hours) :
                                /\ \E n \in 0..Day : t = c.hours.start + n * Step
                                /\ wanted(t) \subseteq Minutes(c.hours)
                                /\ wanted(t) \intersect Busied(blocked, bufferMinutes(c.worker)) = {}}
                    offered == {t \in Times : <<c.worker, t>> \in call'[k].offer}
                IN /\ offered \subseteq free
                   /\ (\A w \in blocked : w.start <= w.end) => offered = free]_vars

EndOf(b) == booking[b].start + Duration[booking[b].service]

\* Two live bookings of one worker overlap, or leave no buffer after the earlier one,
\* only if the later was not made from an offer that knew the other, or one of them
\* was rescheduled, or the one known ends at midnight: its end is then stored as 00:00.
KnownBookingsKeptApart ==
    \A b \in Bookings : Live(b) /\ ~booking[b].moved =>
        \A a \in booking[b].known \intersect Bookings :
            Live(a) /\ ~booking[a].moved /\ booking[a].worker = booking[b].worker /\ EndOf(a) < Day =>
                \/ EndOf(b) <= booking[a].start
                \/ EndOf(a) + bufferMinutes(booking[a].worker) <= booking[b].start

\* A booking made from an offer that knew a busy period of the worker lies outside it.
KnownBusyKeptFree ==
    \A b \in Bookings : Live(b) /\ ~booking[b].moved =>
        \A p \in booking[b].known \intersect BusyPeriods :
            busy[p].worker = booking[b].worker =>
                Minutes(busy[p].window) \intersect (booking[b].start..(EndOf(b) - 1)) = {}

\* A booking blocks the window of its service.
BookedWindowBlocked ==
    [][\A k \in Calls :
          At(k, "bookings") /\ At(k, "busy")' =>
              \A b \in Bookings :
                  Live(b) /\ booking[b].worker = call[k].worker /\ EndOf(b) < Day =>
                      \E w \in call'[k].blocked : w.start <= booking[b].start /\ EndOf(b) <= w.end]_vars
===============================================================================
