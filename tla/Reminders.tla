-------------------------------- MODULE Reminders --------------------------------
(***************************************************************************)
(* The reminders of appointments.  Every minute each instance of the       *)
(* server fires the job; a lock in Redis lets one of them run it.  The run *)
(* reads the bookings whose time is near, claims each one in Redis for a   *)
(* day and tells the client, then the shop.  A run may go on while the     *)
(* next ones begin, bookings may be moved before and after their reminder, *)
(* Redis may not answer, and an instance may restart.                      *)
(*                                                                         *)
(* Time is counted in minutes from a midnight.  A tick comes a little      *)
(* after its minute has begun, and the lock it takes expires before the    *)
(* next one.                                                               *)
(***************************************************************************)
EXTENDS Integers, FiniteSets

CONSTANTS
    Appointments,               \* bound: bookings
    Instances,
    Runs,                       \* bound: runs of the job that overlap
    REMINDER_MINUTES_BEFORE,
    CLAIM_TTL,                  \* how long a claim stands
    DAY, UtcOffset,             \* a day, and how far the server's clock is ahead of UTC
    AppointmentTimes,
    MaxRun,                     \* bound: the minutes a run may last
    LastMinute,                 \* bound
    MaxOutages                  \* bound: restarts, failed sends, changes of Redis' state

ASSUME RemindersAssumption ==
    /\ Instances # {}
    /\ REMINDER_MINUTES_BEFORE \in Nat
    /\ CLAIM_TTL \in Nat /\ MaxRun \in Nat /\ MaxRun + 1 < CLAIM_TTL
    /\ DAY \in Nat \ {0} /\ UtcOffset \in -DAY..DAY
    /\ LastMinute \in Nat
    /\ AppointmentTimes \subseteq Nat
    /\ MaxOutages \in Nat

Appointment == [status : {"none", "CONFIRMED", "NO_SHOW", "over"}, at : Nat,
                since : Nat]    \* history: the minute in which it got this status and time
Notices == Appointments \X AppointmentTimes     \* a booking, and the time it was read with
Run == [step : {"idle", "find", "loop", "client", "shop"},
        of : Instances,
        minute : Nat,
        todo : SUBSET Notices,
        current : SUBSET Notices]
NoRun == [step |-> "idle", of |-> CHOOSE i \in Instances : TRUE, minute |-> 0,
          todo |-> {}, current |-> {}]

VARIABLES
    now,
    appointment,    \* bookings
    locked,         \* the minute in which cron:send-reminders was taken last
    claims,         \* reminder-sent:<id>: when it expires; history: the time it is about
    answers,        \* Redis answers
    fired,          \* the instances whose tick of this minute has come
    run,
    clientTold, shopTold,   \* reminders that went out, by the time they name
    missed,         \* no instance fired in the minute before this one
    unclaimed,      \* history: notices given without a claim, Redis not answering
    lost,           \* history: notices that failed or were cut off
    outages

redisVars == <<locked, claims, answers>>
toldVars == <<clientTold, shopTold>>
remindersVars == <<now, appointment, redisVars, fired, run, toldVars, missed, unclaimed,
                   lost, outages>>

RemindersTypeOK ==
    /\ now \in 0..LastMinute
    /\ appointment \in [Appointments -> Appointment]
    /\ locked \in -1..now
    /\ claims \in [Appointments -> [of : Nat, until : Int]]
    /\ answers \in BOOLEAN
    /\ fired \subseteq Instances
    /\ run \in [Runs -> Run]
    /\ clientTold \in [Notices -> Nat] /\ shopTold \in [Notices -> Nat]
    /\ missed \in BOOLEAN
    /\ unclaimed \subseteq Notices /\ lost \subseteq Notices
    /\ outages \in Nat

RemindersInit ==
    /\ now = 0
    /\ appointment = [b \in Appointments |-> [status |-> "none", at |-> 0, since |-> 0]]
    /\ locked = -1
    /\ claims = [b \in Appointments |-> [of |-> 0, until |-> -1]]
    /\ answers = TRUE
    /\ fired = {}
    /\ run = [r \in Runs |-> NoRun]
    /\ clientTold = [n \in Notices |-> 0] /\ shopTold = [n \in Notices |-> 0]
    /\ missed = FALSE
    /\ unclaimed = {} /\ lost = {}
    /\ outages = 0

-------------------------------------------------------------------------------
(* The job.                                                                *)

\* SET NX EX 50: who takes it in this minute keeps it from the others.
Locked == locked = now

RunStep(r, step) == run[r].step = step

\* The tick of an instance.  If Redis does not answer everyone runs.
sendUpcomingAppointmentReminders(i, r) ==
    /\ i \notin fired
    /\ RunStep(r, "idle")
    /\ fired' = fired \union {i}
    /\ IF answers /\ Locked
       THEN UNCHANGED <<run, locked>>
       ELSE /\ run' = [run EXCEPT ![r] = [NoRun EXCEPT !.step = "find", !.of = i, !.minute = now]]
            /\ locked' = IF answers THEN now ELSE locked
    /\ UNCHANGED <<now, appointment, claims, answers, toldVars, missed, unclaimed, lost, outages>>

\* Mutated form: no slack after the target.
WindowWithoutSlack(minute) == {minute + REMINDER_MINUTES_BEFORE}

\* From one minute before the target to one after it, seen from a moment after the
\* minute has begun: its first minute is already out.
Window(minute) == {minute + REMINDER_MINUTES_BEFORE, minute + REMINDER_MINUTES_BEFORE + 1}

\* The job takes the UTC digits of a booking's time for a local time of the same date.
ReadTime(at) ==
    LET minute == at % DAY IN
    (at - minute) + ((minute - UtcOffset) % DAY)

Near(at, minute) == ReadTime(at) \in Window(minute)

\* The notices that a run of this minute owes.
Due(minute) == {n \in Notices : /\ appointment[n[1]].status = "CONFIRMED"
                                /\ appointment[n[1]].at = n[2]
                                /\ Near(n[2], minute)}

findCandidates(r) ==
    /\ RunStep(r, "find")
    /\ run' = [run EXCEPT ![r].step = "loop", ![r].todo = Due(run[r].minute)]
    /\ UNCHANGED <<now, appointment, redisVars, fired, toldVars, missed, unclaimed, lost, outages>>

Take(r, n) == run' = [run EXCEPT ![r].todo = @ \ {n}, ![r].step = "client", ![r].current = {n}]
Claimed(n) == claims' = [claims EXCEPT ![n[1]] = [of |-> n[2], until |-> now + CLAIM_TTL]]

\* Mutated form: whether the claim was granted is not looked at.
claimIgnored(r, n) ==
    /\ RunStep(r, "loop")
    /\ n \in run[r].todo
    /\ Take(r, n)
    /\ IF answers THEN Claimed(n) ELSE UNCHANGED claims
    /\ unclaimed' = IF answers THEN unclaimed ELSE unclaimed \union {n}
    /\ UNCHANGED <<now, appointment, locked, answers, fired, toldVars, missed, lost, outages>>

\* SET NX EX of the booking's claim: refused while an older one stands, whatever time
\* that one is about, and granted to all while Redis is down.  In the minute in which
\* it expires an older claim stands or not.
claim(r, n) ==
    /\ RunStep(r, "loop")
    /\ n \in run[r].todo
    /\ \/ /\ answers /\ now <= claims[n[1]].until
          /\ run' = [run EXCEPT ![r].todo = @ \ {n}]
          /\ UNCHANGED <<claims, unclaimed>>
       \/ /\ answers /\ now >= claims[n[1]].until
          /\ Take(r, n)
          /\ Claimed(n)
          /\ UNCHANGED unclaimed
       \/ /\ ~answers
          /\ Take(r, n)
          /\ unclaimed' = unclaimed \union {n}
          /\ UNCHANGED claims
    /\ UNCHANGED <<now, appointment, locked, answers, fired, toldVars, missed, lost, outages>>

tellClient(r) ==
    /\ RunStep(r, "client")
    /\ clientTold' = [n \in Notices |-> clientTold[n] + IF n \in run[r].current THEN 1 ELSE 0]
    /\ run' = [run EXCEPT ![r].step = "shop"]
    /\ UNCHANGED <<now, appointment, redisVars, fired, shopTold, missed, unclaimed, lost, outages>>

tellShop(r) ==
    /\ RunStep(r, "shop")
    /\ shopTold' = [n \in Notices |-> shopTold[n] + IF n \in run[r].current THEN 1 ELSE 0]
    /\ run' = [run EXCEPT ![r].step = "loop", ![r].current = {}]
    /\ UNCHANGED <<now, appointment, redisVars, fired, clientTold, missed, unclaimed, lost, outages>>

\* An error on the way to the client or to the shop is logged; the run goes on.
sendFails(r) ==
    /\ outages < MaxOutages
    /\ run[r].step \in {"client", "shop"}
    /\ lost' = lost \union run[r].current
    /\ run' = [run EXCEPT ![r].step = "loop", ![r].current = {}]
    /\ outages' = outages + 1
    /\ UNCHANGED <<now, appointment, redisVars, fired, toldVars, missed, unclaimed>>

endRun(r) ==
    /\ RunStep(r, "loop")
    /\ run[r].todo = {}
    /\ run' = [run EXCEPT ![r] = NoRun]
    /\ UNCHANGED <<now, appointment, redisVars, fired, toldVars, missed, unclaimed, lost, outages>>

-------------------------------------------------------------------------------
(* What the runs see.                                                      *)

Confirmed(b, at) ==
    appointment' = [appointment EXCEPT ![b] = [status |-> "CONFIRMED", at |-> at, since |-> now]]

\* Paid, be it late and after a cancellation.
confirmAppointment(b, at) ==
    /\ \/ appointment[b].status = "none"
       \/ appointment[b].status = "over" /\ at = appointment[b].at
    /\ Confirmed(b, at)
    /\ UNCHANGED <<now, redisVars, fired, run, toldVars, missed, unclaimed, lost, outages>>

\* To any time, also long after the one that was missed.
rescheduleAppointment(b, at) ==
    /\ appointment[b].status \in {"CONFIRMED", "NO_SHOW"}
    /\ Confirmed(b, at)
    /\ UNCHANGED <<now, redisVars, fired, run, toldVars, missed, unclaimed, lost, outages>>

\* Missed, or cancelled or checked in.
leaveAppointment(b, status) ==
    /\ status \in {"NO_SHOW", "over"}
    /\ appointment[b].status = "CONFIRMED"
    /\ appointment' = [appointment EXCEPT ![b].status = status]
    /\ UNCHANGED <<now, redisVars, fired, run, toldVars, missed, unclaimed, lost, outages>>

\* A minute in which no instance fires is not followed by another one; and no run lasts
\* longer than MaxRun, which is less than a claim stands.
nextMinute ==
    /\ now < LastMinute
    /\ \A r \in Runs : run[r].step # "idle" => now < run[r].minute + MaxRun
    /\ missed => fired # {}
    /\ now' = now + 1
    /\ missed' = (fired = {})
    /\ fired' = {}
    /\ UNCHANGED <<appointment, redisVars, run, toldVars, unclaimed, lost, outages>>

redisFlips ==
    /\ outages < MaxOutages
    /\ outages' = outages + 1
    /\ answers' = ~answers
    /\ UNCHANGED <<now, appointment, locked, claims, fired, run, toldVars, missed, unclaimed, lost>>

\* Whatever the runs of an instance had still to do is lost.
restartInstance(i) ==
    LET cut == {r \in Runs : run[r].step # "idle" /\ run[r].of = i} IN
    /\ outages < MaxOutages
    /\ outages' = outages + 1
    /\ cut # {}
    /\ run' = [r \in Runs |-> IF r \in cut THEN NoRun ELSE run[r]]
    /\ lost' = lost \union (UNION {run[r].todo \union run[r].current : r \in cut})
                    \union (UNION {Due(run[r].minute) : r \in {q \in cut : RunStep(q, "find")}})
    /\ UNCHANGED <<now, appointment, redisVars, fired, toldVars, missed, unclaimed>>

-------------------------------------------------------------------------------
RemindersNext ==
    \/ \E r \in Runs :
          \/ \E i \in Instances : sendUpcomingAppointmentReminders(i, r)
          \/ findCandidates(r)
          \/ \E n \in Notices : claim(r, n)
          \/ tellClient(r)
          \/ tellShop(r)
          \/ sendFails(r)
          \/ endRun(r)
    \/ \E b \in Appointments :
          \/ \E at \in AppointmentTimes : confirmAppointment(b, at) \/ rescheduleAppointment(b, at)
          \/ \E status \in {"NO_SHOW", "over"} : leaveAppointment(b, status)
    \/ nextMinute
    \/ redisFlips
    \/ \E i \in Instances : restartInstance(i)

RemindersSpec == RemindersInit /\ [][RemindersNext]_remindersVars

-------------------------------------------------------------------------------
(* Properties.                                                             *)

\* Nobody is told twice of a booking's time, although two ticks see it, runs of several
\* instances overlap, the claim expires and the booking may be moved, missed, confirmed
\* anew and moved back, unless Redis did not answer when it was claimed.  Of another
\* time the client is told again, once the claim has expired.
RemindedOnce ==
    \A n \in Notices \ unclaimed : clientTold[n] <= 1 /\ shopTold[n] <= 1

\* A run that is still to tell the client of the booking's time.
OnItsWay(b) ==
    \E r \in Runs :
        \/ RunStep(r, "find") /\ Near(appointment[b].at, run[r].minute)
        \/ <<b, appointment[b].at>> \in run[r].todo
        \/ RunStep(r, "client") /\ <<b, appointment[b].at>> \in run[r].current

Target(b) == ReadTime(appointment[b].at) - REMINDER_MINUTES_BEFORE

\* The booking was moved, and the claim made for its old time still stood when the ticks
\* of the new one came.
ClaimedBefore(b) ==
    claims[b].of # appointment[b].at /\ claims[b].until >= Target(b) - 1

\* A client whose booking has been confirmed for its time since before its two ticks
\* is told of that time, or is about to be, when they are over: one tick may be missed
\* by every instance and the lock may keep the others from running.  A failed send, a
\* restart in the middle of a run or the claim for an earlier time may lose the
\* reminder, and nothing else.  The ticks are those of the time as the job reads it,
\* which is the booking's own only if the server's clock is UTC.
RemindedInTime ==
    \A b \in Appointments :
        appointment[b].status = "CONFIRMED" /\ appointment[b].since < Target(b) - 1 /\ Target(b) < now =>
            LET n == <<b, appointment[b].at>> IN
            clientTold[n] >= 1 \/ OnItsWay(b) \/ n \in lost \/ ClaimedBefore(b)
===============================================================================
