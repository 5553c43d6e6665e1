----------------------------- MODULE Background_proofs -----------------------------
(***************************************************************************)
(* Proofs about what runs behind the bookings, for any values of the       *)
(* constants: the reminders, the cached catalogue and the shops' rows.     *)
(***************************************************************************)
EXTENDS MCBackground, TLAPS

-------------------------------------------------------------------------------
(* The reminders.                                                          *)

(***************************************************************************)
(* A run collects notices only once it has read the bookings, and is about *)
(* one only while it tells the client and the shop.  What it is about is   *)
(* near the minute of its tick, which is not long ago.                     *)
(***************************************************************************)
RunInv(r) ==
    /\ run[r].step \in {"idle", "find"} => run[r].todo = {}
    /\ run[r].step \in {"idle", "find", "loop"} => run[r].current = {}
    /\ run[r].step # "idle" => run[r].minute <= now /\ now <= run[r].minute + MaxRun
    /\ \A n \in run[r].todo \union run[r].current : Near(n[2], run[r].minute)

RunsInv ==
    /\ \A r \in Runs : RunInv(r)
    /\ \A b \in Appointments :
          appointment[b].status # "none" => appointment[b].at \in AppointmentTimes

\* The claim for a notice stands longer than any run that may still find it.
FirstTick(n) == (ReadTime(n[2]) - REMINDER_MINUTES_BEFORE) - 1
Reserved(n) == claims[n[1]].until >= FirstTick(n) + CLAIM_TTL

\* A notice claimed from Redis is in the hands of one run, which tells each side once.
ToldOnce(n) ==
    /\ clientTold[n] <= 1 /\ shopTold[n] <= 1
    /\ clientTold[n] + shopTold[n] > 0 => Reserved(n)
    /\ \A r \in Runs :
          n \in run[r].current =>
              /\ Reserved(n)
              /\ shopTold[n] = 0
              /\ RunStep(r, "client") => clientTold[n] = 0
              /\ \A q \in Runs \ {r} : n \notin run[q].current

OnceInv == \A n \in Notices \ unclaimed : ToldOnce(n)

\* The client of b was told of its time, or will be by a run that goes on, or a run that
\* was to tell him failed, or the claim for another time stood in the way.
Notice(b) == <<b, appointment[b].at>>
Seen(b) == clientTold[Notice(b)] >= 1 \/ OnItsWay(b) \/ Notice(b) \in lost \/ ClaimedBefore(b)

\* A claim is spent on a client who is told of the time it is about.
ClaimUsed(b) ==
    LET n == <<b, claims[b].of>> IN
    claims[b].until >= 0 =>
        /\ n \in Notices
        /\ \/ clientTold[n] >= 1
           \/ n \in lost
           \/ \E r \in Runs : RunStep(r, "client") /\ n \in run[r].current

\* The two ticks that may remind of b are those of its target and of the minute before.
\* Either may be missed, but not both, and a tick that is taken sees b.
SeenInTime(b) ==
    appointment[b].status = "CONFIRMED" /\ appointment[b].since < Target(b) - 1 =>
        /\ now \in {Target(b) - 1, Target(b)} /\ (fired # {} \/ locked = now) => Seen(b)
        /\ now = Target(b) /\ ~missed => Seen(b)
        /\ Target(b) < now => Seen(b)

TimeInv == \A b \in Appointments : ClaimUsed(b) /\ SeenInTime(b)

-------------------------------------------------------------------------------
(* Types.                                                                  *)

LEMMA NoRunType == NoRun \in Run
    BY RemindersAssumption DEF RemindersAssumption, NoRun, Run

LEMMA ReadTimeType == \A at \in Nat : ReadTime(at) \in Int
    BY RemindersAssumption DEF RemindersAssumption, ReadTime

\* On a server whose clock is UTC the job reads the time that was booked.
LEMMA ReadTimeOfUTC == UtcOffset = 0 => \A at \in Nat : ReadTime(at) = at
    BY RemindersAssumption DEF RemindersAssumption, ReadTime

\* A time that is near a minute has its ticks in that minute and a neighbour.
LEMMA NearTicks ==
    ASSUME NEW at \in Nat, NEW minute \in Nat
    PROVE  /\ Near(at, minute) <=> \/ minute = (ReadTime(at) - REMINDER_MINUTES_BEFORE) - 1
                                   \/ minute = ReadTime(at) - REMINDER_MINUTES_BEFORE
    BY ReadTimeType, RemindersAssumption DEF RemindersAssumption, Near, Window

LEMMA NoticeParts ==
    ASSUME NEW n \in Notices
    PROVE  /\ n[1] \in Appointments /\ n[2] \in AppointmentTimes /\ n[2] \in Nat
           /\ n = <<n[1], n[2]>>
<1>1. PICK b \in Appointments, at \in AppointmentTimes : n = <<b, at>>
    BY DEF Notices
<1> QED
    BY <1>1, RemindersAssumption DEF RemindersAssumption

LEMMA RunsTypeInit == RemindersInit => RemindersTypeOK /\ RunsInv
<1> SUFFICES ASSUME RemindersInit PROVE RemindersTypeOK /\ RunsInv
    OBVIOUS
<1>1. now \in 0..LastMinute /\ locked \in -1..now
    BY RemindersAssumption DEF RemindersInit, RemindersAssumption
<1>2. RunsInv
    BY DEF RemindersInit, RunsInv, RunInv, NoRun
<1>3. /\ appointment \in [Appointments -> Appointment]
      /\ claims \in [Appointments -> [of : Nat, until : Int]]
    BY DEF RemindersInit, Appointment
<1>4. run \in [Runs -> Run]
    BY NoRunType DEF RemindersInit
<1> QED
    BY <1>1, <1>2, <1>3, <1>4 DEF RemindersInit, RemindersTypeOK

\* A step that changes one run, and tells nobody.
LEMMA OneRun ==
    ASSUME RemindersTypeOK, RunsInv, NEW r \in Runs, NEW new \in Run,
           run' = [run EXCEPT ![r] = new], now' = now, appointment' = appointment,
           new.step \in {"idle", "find"} => new.todo = {},
           new.step \in {"idle", "find", "loop"} => new.current = {},
           new.step # "idle" => new.minute <= now /\ now <= new.minute + MaxRun,
           \A n \in new.todo \union new.current : Near(n[2], new.minute)
    PROVE  /\ run' \in [Runs -> Run]
           /\ run'[r] = new
           /\ \A q \in Runs \ {r} : run'[q] = run[q]
           /\ RunsInv'
<1>1. run' \in [Runs -> Run] /\ run'[r] = new /\ \A q \in Runs \ {r} : run'[q] = run[q]
    BY DEF RemindersTypeOK
<1>2. RunInv(r)'
    BY <1>1 DEF RunInv, Near
<1>3. \A q \in Runs \ {r} : RunInv(q)'
    BY <1>1 DEF RunsInv, RunInv, Near
<1> QED
    BY <1>1, <1>2, <1>3 DEF RunsInv

\* A run that has begun goes on with what is left of its notices.
LEMMA RunGoesOn ==
    ASSUME RemindersTypeOK, RunsInv, NEW r \in Runs, run[r].step # "idle", NEW new \in Run,
           run' = [run EXCEPT ![r] = new], now' = now, appointment' = appointment,
           new.minute = run[r].minute, new.step \in {"loop", "client", "shop"},
           new.step = "loop" => new.current = {},
           new.todo \subseteq run[r].todo,
           new.current \subseteq run[r].todo \union run[r].current
    PROVE  run' \in [Runs -> Run] /\ RunsInv'
<1>1. RunInv(r)
    BY DEF RunsInv
<1> QED
    BY <1>1, OneRun DEF RunInv

LEMMA TypeTick ==
    ASSUME RemindersTypeOK, RunsInv, NEW i \in Instances, NEW r \in Runs,
           sendUpcomingAppointmentReminders(i, r)
    PROVE  RemindersTypeOK' /\ RunsInv'
<1>1. now \in Nat /\ MaxRun \in Nat
    BY RemindersAssumption DEF RemindersTypeOK, RemindersAssumption
<1>2. CASE answers /\ Locked
    BY <1>2 DEF sendUpcomingAppointmentReminders, toldVars, RemindersTypeOK, RunsInv, RunInv
<1>3. CASE ~(answers /\ Locked)
    <2> DEFINE new == [NoRun EXCEPT !.step = "find", !.of = i, !.minute = now]
    <2>1. new \in Run /\ new.step = "find" /\ new.todo = {} /\ new.current = {} /\ new.minute = now
        BY <1>1 DEF NoRun, Run
    <2>2. run' = [run EXCEPT ![r] = new] /\ locked' \in -1..now
        BY <1>1, <1>3 DEF sendUpcomingAppointmentReminders, toldVars, RemindersTypeOK
    <2> HIDE DEF new
    <2>3. now' = now /\ appointment' = appointment
        BY DEF sendUpcomingAppointmentReminders
    <2>4. /\ new.minute <= now /\ now <= new.minute + MaxRun
          /\ \A n \in new.todo \union new.current : Near(n[2], new.minute)
        BY <1>1, <2>1
    <2>5. run' \in [Runs -> Run] /\ RunsInv'
        BY <2>1, <2>2, <2>3, <2>4, OneRun
    <2> QED
        BY <2>2, <2>5 DEF sendUpcomingAppointmentReminders, toldVars, RemindersTypeOK
<1> QED
    BY <1>2, <1>3

LEMMA TypeRun ==
    ASSUME RemindersTypeOK, RunsInv, NEW r \in Runs,
           \/ findCandidates(r)
           \/ \E n \in Notices : claim(r, n)
           \/ tellClient(r) \/ tellShop(r) \/ sendFails(r) \/ endRun(r)
    PROVE  RemindersTypeOK' /\ RunsInv'
<1>0. run[r] \in Run /\ RunInv(r)
    BY DEF RemindersTypeOK, RunsInv
<1>1. CASE findCandidates(r)
    <2> DEFINE todo == Due(run[r].minute)
               new == [run[r] EXCEPT !.step = "loop", !.todo = todo]
    <2>1. todo \subseteq Notices /\ \A n \in todo : Near(n[2], run[r].minute)
        BY DEF Due
    <2> HIDE DEF todo
    <2>2. new \in Run /\ new.step = "loop" /\ new.current = {} /\ new.todo = todo
          /\ new.minute = run[r].minute
        BY <1>0, <1>1, <2>1 DEF Run, findCandidates, RunStep, RunInv
    <2>3. run' = [run EXCEPT ![r] = new]
        BY <1>1 DEF findCandidates, RemindersTypeOK, todo
    <2> HIDE DEF new
    <2>4. /\ now' = now /\ appointment' = appointment
          /\ run[r].minute <= now /\ now <= run[r].minute + MaxRun
        BY <1>0, <1>1 DEF findCandidates, RunStep, RunInv
    <2>5. run' \in [Runs -> Run] /\ RunsInv'
        BY <2>1, <2>2, <2>3, <2>4, OneRun
    <2> QED
        BY <1>1, <2>5 DEF findCandidates, redisVars, toldVars, RemindersTypeOK
<1>2. ASSUME NEW n \in Notices, claim(r, n)
      PROVE  RemindersTypeOK' /\ RunsInv'
    <2> DEFINE passed == [run[r] EXCEPT !.todo = @ \ {n}]
               taken == [run[r] EXCEPT !.todo = @ \ {n}, !.step = "client", !.current = {n}]
    <2>1. /\ passed \in Run /\ passed.step = "loop" /\ passed.current = {}
          /\ passed.todo \subseteq run[r].todo /\ passed.minute = run[r].minute
        BY <1>0, <1>2 DEF Run, claim, RunStep, RunInv
    <2>2. /\ taken \in Run /\ taken.step = "client" /\ taken.current \subseteq run[r].todo
          /\ taken.todo \subseteq run[r].todo /\ taken.minute = run[r].minute
        BY <1>0, <1>2 DEF Run, claim
    <2>3. run' = [run EXCEPT ![r] = passed] \/ run' = [run EXCEPT ![r] = taken]
        BY <1>2 DEF claim, Take, RemindersTypeOK
    <2> HIDE DEF passed, taken
    <2>4. now' = now /\ appointment' = appointment /\ run[r].step # "idle"
        BY <1>2 DEF claim, RunStep
    <2>5. run' \in [Runs -> Run] /\ RunsInv'
        BY <2>1, <2>2, <2>3, <2>4, RunGoesOn
    <2>6. now \in Nat /\ CLAIM_TTL \in Nat /\ n[1] \in Appointments /\ n[2] \in Nat
        BY RemindersAssumption, NoticeParts DEF RemindersTypeOK, RemindersAssumption
    <2>7. claims' \in [Appointments -> [of : Nat, until : Int]]
        BY <1>2, <2>6 DEF claim, Claimed, RemindersTypeOK
    <2>8. unclaimed' \subseteq Notices
        BY <1>2 DEF claim, RemindersTypeOK
    <2> QED
        BY <1>2, <2>5, <2>7, <2>8 DEF claim, toldVars, RemindersTypeOK
<1>3. CASE tellClient(r)
    <2> DEFINE new == [run[r] EXCEPT !.step = "shop"]
    <2>1. /\ new \in Run /\ new.step = "shop" /\ new.todo = run[r].todo
          /\ new.current = run[r].current /\ new.minute = run[r].minute
        BY <1>0 DEF Run
    <2>2. run' = [run EXCEPT ![r] = new]
        BY <1>3 DEF tellClient, RemindersTypeOK
    <2> HIDE DEF new
    <2>3. now' = now /\ appointment' = appointment /\ run[r].step # "idle"
        BY <1>3 DEF tellClient, RunStep
    <2>4. run' \in [Runs -> Run] /\ RunsInv'
        BY <2>1, <2>2, <2>3, RunGoesOn
    <2> QED
        BY <1>3, <2>4 DEF tellClient, redisVars, RemindersTypeOK
<1>4. CASE tellShop(r) \/ sendFails(r)
    <2> DEFINE new == [run[r] EXCEPT !.step = "loop", !.current = {}]
    <2>1. /\ new \in Run /\ new.step = "loop" /\ new.current = {} /\ new.todo = run[r].todo
          /\ new.minute = run[r].minute
        BY <1>0 DEF Run
    <2>2. run' = [run EXCEPT ![r] = new]
        BY <1>4 DEF tellShop, sendFails, RemindersTypeOK
    <2> HIDE DEF new
    <2>3. now' = now /\ appointment' = appointment /\ run[r].step # "idle"
        BY <1>4 DEF tellShop, sendFails, RunStep
    <2>4. run' \in [Runs -> Run] /\ RunsInv'
        BY <2>1, <2>2, <2>3, RunGoesOn
    <2>5. run[r].current \subseteq Notices
        BY <1>0 DEF Run
    <2> QED
        BY <1>4, <2>4, <2>5 DEF tellShop, sendFails, redisVars, toldVars, RemindersTypeOK
<1>5. CASE endRun(r)
    <2>1. run' = [run EXCEPT ![r] = NoRun] /\ now' = now /\ appointment' = appointment
        BY <1>5 DEF endRun
    <2>2. run' \in [Runs -> Run] /\ RunsInv'
        BY <2>1, NoRunType, OneRun DEF NoRun
    <2> QED
        BY <1>5, <2>2 DEF endRun, redisVars, toldVars, RemindersTypeOK
<1> QED
    BY <1>1, <1>2, <1>3, <1>4, <1>5

LEMMA TypeSurroundings ==
    ASSUME RemindersTypeOK, RunsInv,
           \/ \E b \in Appointments :
                 \/ \E at \in AppointmentTimes : confirmAppointment(b, at) \/ rescheduleAppointment(b, at)
                 \/ \E status \in {"NO_SHOW", "over"} : leaveAppointment(b, status)
           \/ nextMinute
           \/ redisFlips
    PROVE  RemindersTypeOK' /\ RunsInv'
<1>1. now \in Nat /\ AppointmentTimes \subseteq Nat
    BY RemindersAssumption DEF RemindersTypeOK, RemindersAssumption
<1>2. ASSUME NEW b \in Appointments, NEW at \in AppointmentTimes,
             confirmAppointment(b, at) \/ rescheduleAppointment(b, at)
      PROVE  RemindersTypeOK' /\ RunsInv'
    <2>1. appointment' = [appointment EXCEPT ![b] = [status |-> "CONFIRMED", at |-> at, since |-> now]]
        BY <1>2 DEF confirmAppointment, rescheduleAppointment, Confirmed
    <2>2. /\ appointment' \in [Appointments -> Appointment] /\ appointment'[b].at = at
          /\ \A c \in Appointments \ {b} : appointment'[c] = appointment[c]
        BY <1>1, <2>1 DEF RemindersTypeOK, Appointment
    <2> QED
        BY <1>2, <2>2 DEF confirmAppointment, rescheduleAppointment, redisVars, toldVars,
                          RemindersTypeOK, RunsInv, RunInv
<1>3. ASSUME NEW b \in Appointments, NEW status \in {"NO_SHOW", "over"}, leaveAppointment(b, status)
      PROVE  RemindersTypeOK' /\ RunsInv'
    <2>1. /\ appointment' \in [Appointments -> Appointment] /\ appointment'[b].at = appointment[b].at
          /\ appointment[b].status = "CONFIRMED"
          /\ \A c \in Appointments \ {b} : appointment'[c] = appointment[c]
        BY <1>3 DEF leaveAppointment, RemindersTypeOK, Appointment
    <2> QED
        BY <1>3, <2>1 DEF leaveAppointment, redisVars, toldVars, RemindersTypeOK, RunsInv, RunInv
<1>4. CASE nextMinute
    <2>1. now' \in 0..LastMinute /\ locked \in -1..now' /\ now' = now + 1
        BY <1>1, <1>4, RemindersAssumption DEF nextMinute, RemindersTypeOK, RemindersAssumption
    <2>2. ASSUME NEW r \in Runs
          PROVE  RunInv(r)'
        <3>1. RunInv(r) /\ run' = run /\ run[r].minute \in Nat /\ MaxRun \in Nat
              /\ (run[r].step # "idle" => now < run[r].minute + MaxRun)
            BY <1>4, RemindersAssumption DEF RunsInv, nextMinute, RemindersTypeOK, Run, RemindersAssumption
        <3> QED
            BY <1>1, <2>1, <3>1 DEF RunInv
    <2> QED
        BY <1>4, <2>1, <2>2 DEF nextMinute, redisVars, toldVars, RemindersTypeOK, RunsInv
<1>5. CASE redisFlips
    BY <1>5 DEF redisFlips, toldVars, RemindersTypeOK, RunsInv, RunInv
<1> QED
    BY <1>2, <1>3, <1>4, <1>5

\* What a restart cuts off is lost.
LEMMA RestartLoses ==
    ASSUME RemindersTypeOK, NEW i \in Instances, restartInstance(i)
    PROVE  /\ lost \subseteq lost' /\ lost' \subseteq Notices
           /\ \A r \in Runs :
                 \/ run'[r] = run[r]
                 \/ /\ run'[r] = NoRun
                    /\ run[r].todo \subseteq lost' /\ run[r].current \subseteq lost'
                    /\ RunStep(r, "find") => Due(run[r].minute) \subseteq lost'
<1> DEFINE cut == {r \in Runs : run[r].step # "idle" /\ run[r].of = i}
           held == UNION {run[r].todo \union run[r].current : r \in cut}
           found == UNION {Due(run[r].minute) : r \in {q \in cut : RunStep(q, "find")}}
<1>1. lost' = lost \union held \union found
    BY DEF restartInstance
<1>2. \A r \in cut : run[r].todo \union run[r].current \subseteq Notices
    BY DEF RemindersTypeOK, Run
<1>3. held \subseteq Notices /\ found \subseteq Notices
    BY <1>2 DEF Due
<1>4. \A r \in cut : run[r].todo \subseteq held /\ run[r].current \subseteq held
    OBVIOUS
<1>5. \A r \in cut : RunStep(r, "find") => Due(run[r].minute) \subseteq found
    OBVIOUS
<1>6. \A r \in Runs : IF r \in cut THEN run'[r] = NoRun ELSE run'[r] = run[r]
    BY DEF restartInstance
<1> HIDE DEF cut, held, found
<1> QED
    BY <1>1, <1>3, <1>4, <1>5, <1>6 DEF RemindersTypeOK

LEMMA TypeRestart ==
    ASSUME RemindersTypeOK, RunsInv, NEW i \in Instances, restartInstance(i)
    PROVE  RemindersTypeOK' /\ RunsInv'
<1>1. run' \in [Runs -> Run] /\ \A r \in Runs : run'[r] \in {run[r], NoRun}
    BY NoRunType DEF restartInstance, RemindersTypeOK
<1>2. now' = now /\ appointment' = appointment
    BY DEF restartInstance
<1>3. RunsInv'
    BY <1>1, <1>2 DEF RunsInv, RunInv, NoRun
<1> QED
    BY <1>1, <1>3, RestartLoses DEF restartInstance, redisVars, toldVars, RemindersTypeOK

LEMMA TypeStep == RemindersTypeOK /\ RunsInv /\ [RemindersNext]_remindersVars => RemindersTypeOK' /\ RunsInv'
<1>1. ASSUME RemindersTypeOK, RunsInv, UNCHANGED remindersVars
      PROVE  RemindersTypeOK' /\ RunsInv'
    BY <1>1 DEF remindersVars, redisVars, toldVars, RemindersTypeOK, RunsInv, RunInv
<1> QED
    BY <1>1, TypeTick, TypeRun, TypeSurroundings, TypeRestart DEF RemindersNext

\* The state of the reminders is of its type.
THEOREM ReminderTypes == RemindersSpec => []RemindersTypeOK
<1>1. RemindersTypeOK /\ RunsInv => RemindersTypeOK
    OBVIOUS
<1> QED
    BY <1>1, RunsTypeInit, TypeStep, PTL DEF RemindersSpec
-------------------------------------------------------------------------------
(* Reminded once.                                                          *)

LEMMA FirstTickType ==
    ASSUME NEW n \in Notices
    PROVE  FirstTick(n) \in Int
    BY NoticeParts, ReadTimeType, RemindersAssumption DEF RemindersAssumption, FirstTick

\* A run that only moves on, or drops what it holds, tells nobody twice.
LEMMA OnceKept ==
    ASSUME OnceInv, clientTold' = clientTold, shopTold' = shopTold, claims' = claims,
           unclaimed \subseteq unclaimed',
           \A q \in Runs : \/ run'[q].current = {}
                           \/ run'[q].current = run[q].current /\ run'[q].step = run[q].step
    PROVE  OnceInv'
    BY DEF OnceInv, ToldOnce, Reserved, FirstTick, RunStep

\* The claim is granted only if nobody was told of the notice, and stands longer than
\* anyone will ask for it.
LEMMA GrantedOnce ==
    ASSUME RemindersTypeOK, RunsInv, NEW r \in Runs, NEW n \in Notices, claim(r, n),
           claims' # claims
    PROVE  /\ ~Reserved(n) /\ Reserved(n)'
           /\ \A m \in Notices : Reserved(m) => Reserved(m)'
<1>1. /\ now \in Nat /\ CLAIM_TTL \in Nat /\ MaxRun \in Nat /\ MaxRun + 1 < CLAIM_TTL
      /\ REMINDER_MINUTES_BEFORE \in Nat
    BY RemindersAssumption DEF RemindersTypeOK, RemindersAssumption
<1>2. /\ now >= claims[n[1]].until
      /\ claims' = [claims EXCEPT ![n[1]] = [of |-> n[2], until |-> now + CLAIM_TTL]]
    BY DEF claim, Claimed
<1>3. /\ run[r].minute \in Nat /\ run[r].minute <= now /\ now <= run[r].minute + MaxRun
      /\ Near(n[2], run[r].minute)
    BY DEF claim, RunStep, RunsInv, RunInv, RemindersTypeOK, Run
<1>4. FirstTick(n) \in Int
    BY FirstTickType
<1>5. run[r].minute = FirstTick(n) \/ run[r].minute = FirstTick(n) + 1
    <2>1. n[2] \in Nat /\ ReadTime(n[2]) \in Int
        BY NoticeParts, ReadTimeType
    <2> QED
        BY <1>1, <1>3, <2>1, NearTicks DEF FirstTick
<1>6. \A m \in Notices : m[1] \in Appointments /\ claims[m[1]].until \in Int
    BY NoticeParts DEF RemindersTypeOK
<1>7. \A m \in Notices : claims'[m[1]].until = IF m[1] = n[1] THEN now + CLAIM_TTL ELSE claims[m[1]].until
    BY <1>2, <1>6 DEF RemindersTypeOK
<1>8. ~Reserved(n)
    BY <1>1, <1>2, <1>3, <1>4, <1>5, <1>6 DEF Reserved
<1>9. Reserved(n)'
    <2>1. now + CLAIM_TTL >= FirstTick(n) + CLAIM_TTL
        BY <1>1, <1>3, <1>4, <1>5
    <2> QED
        BY <1>7, <2>1 DEF Reserved, FirstTick
<1>10. ASSUME NEW m \in Notices, Reserved(m)
       PROVE  Reserved(m)'
    <2>1. claims'[m[1]].until >= claims[m[1]].until /\ claims'[m[1]].until \in Int
        BY <1>1, <1>2, <1>6, <1>7
    <2>2. FirstTick(m) + CLAIM_TTL \in Int
        BY <1>1, FirstTickType
    <2> QED
        BY <1>6, <1>10, <2>1, <2>2 DEF Reserved, FirstTick
<1> QED
    BY <1>8, <1>9, <1>10

LEMMA OnceClaim ==
    ASSUME RemindersTypeOK, RunsInv, OnceInv, NEW r \in Runs, NEW n \in Notices, claim(r, n)
    PROVE  OnceInv'
<1>1. run \in [Runs -> Run] /\ run[r].current = {} /\ run[r] \in Run
    BY DEF claim, RunStep, RemindersTypeOK, RunsInv, RunInv
<1>2. \A q \in Runs \ {r} : run'[q] = run[q]
    BY <1>1 DEF claim, Take
<1>3. clientTold' = clientTold /\ shopTold' = shopTold /\ unclaimed \subseteq unclaimed'
    BY DEF claim, toldVars
<1>4. CASE answers /\ now <= claims[n[1]].until /\ run' = [run EXCEPT ![r].todo = @ \ {n}]
           /\ claims' = claims
    <2>1. run'[r].current = {}
        BY <1>1, <1>4 DEF Run
    <2> QED
        BY <1>2, <1>3, <1>4, <2>1, OnceKept
<1>5. CASE ~answers /\ Take(r, n) /\ claims' = claims /\ unclaimed' = unclaimed \union {n}
    <2>1. run'[r].current = {n}
        BY <1>1, <1>5 DEF Take, Run
    <2>2. ASSUME NEW m \in Notices \ unclaimed'
          PROVE  ToldOnce(m)'
        <3>1. m # n /\ ToldOnce(m)
            BY <1>5, <2>2 DEF OnceInv
        <3> QED
            BY <1>2, <1>3, <1>5, <2>1, <3>1 DEF ToldOnce, Reserved, FirstTick, RunStep
    <2> QED
        BY <2>2 DEF OnceInv
<1>6. CASE answers /\ now >= claims[n[1]].until /\ Take(r, n) /\ Claimed(n)
    <2>1. run'[r].current = {n}
        BY <1>1, <1>6 DEF Take, Run
    <2>2. claims' # claims
        <3>1. n[1] \in Appointments
            BY NoticeParts
        <3>2. claims'[n[1]].until = now + CLAIM_TTL
            BY <1>6, <3>1 DEF Claimed, RemindersTypeOK
        <3> QED
            BY <1>6, <3>1, <3>2, RemindersAssumption DEF RemindersTypeOK, RemindersAssumption
    <2>3. ~Reserved(n) /\ Reserved(n)' /\ \A m \in Notices : Reserved(m) => Reserved(m)'
        BY <2>2, GrantedOnce
    <2>4. ASSUME NEW m \in Notices \ unclaimed', m # n
          PROVE  ToldOnce(m)'
        <3>1. ToldOnce(m)
            BY <1>3, <2>4 DEF OnceInv
        <3> QED
            BY <1>2, <1>3, <2>1, <2>3, <2>4, <3>1 DEF ToldOnce, RunStep
    <2>5. ASSUME n \notin unclaimed'
          PROVE  ToldOnce(n)'
        <3>1. ToldOnce(n) /\ clientTold[n] \in Nat /\ shopTold[n] \in Nat
            BY <1>3, <2>5 DEF OnceInv, RemindersTypeOK
        <3>2. clientTold[n] = 0 /\ shopTold[n] = 0 /\ \A q \in Runs : n \notin run[q].current
            BY <2>3, <3>1 DEF ToldOnce
        <3> QED
            BY <1>2, <1>3, <2>1, <2>3, <3>2 DEF ToldOnce, RunStep
    <2> QED
        BY <2>4, <2>5 DEF OnceInv
<1> QED
    BY <1>4, <1>5, <1>6 DEF claim

LEMMA OnceTold ==
    ASSUME RemindersTypeOK, OnceInv, NEW r \in Runs, tellClient(r) \/ tellShop(r)
    PROVE  OnceInv'
<1>1. run \in [Runs -> Run] /\ run[r] \in Run
    BY DEF RemindersTypeOK
<1>2. \A q \in Runs \ {r} : run'[q] = run[q]
    BY <1>1 DEF tellClient, tellShop
<1>3. unclaimed' = unclaimed /\ claims' = claims
    BY DEF tellClient, tellShop, redisVars
<1>4. ASSUME NEW n \in Notices \ unclaimed
      PROVE  ToldOnce(n)'
    <2>1. clientTold[n] \in Nat /\ shopTold[n] \in Nat /\ ToldOnce(n) /\ (Reserved(n) <=> Reserved(n)')
        BY <1>3, <1>4 DEF RemindersTypeOK, OnceInv, Reserved, FirstTick
    <2>2. CASE tellClient(r)
        <3>1. run'[r].step = "shop" /\ run'[r].current = run[r].current
            BY <1>1, <2>2 DEF tellClient, Run
        <3>2. shopTold' = shopTold
              /\ clientTold'[n] = clientTold[n] + IF n \in run[r].current THEN 1 ELSE 0
            BY <2>2 DEF tellClient
        <3>3. RunStep(r, "client")
            BY <2>2 DEF tellClient
        <3> QED
            BY <1>2, <1>3, <2>1, <3>1, <3>2, <3>3 DEF ToldOnce, RunStep
    <2>3. CASE tellShop(r)
        <3>1. run'[r].current = {}
            BY <1>1, <2>3 DEF tellShop, Run
        <3>2. clientTold' = clientTold
              /\ shopTold'[n] = shopTold[n] + IF n \in run[r].current THEN 1 ELSE 0
            BY <2>3 DEF tellShop
        <3> QED
            BY <1>2, <1>3, <2>1, <3>1, <3>2 DEF ToldOnce, RunStep
    <2> QED
        BY <2>2, <2>3
<1> QED
    BY <1>3, <1>4 DEF OnceInv

LEMMA OnceStep ==
    RemindersTypeOK /\ RunsInv /\ OnceInv /\ [RemindersNext]_remindersVars => OnceInv'
<1> SUFFICES ASSUME RemindersTypeOK, RunsInv, OnceInv, [RemindersNext]_remindersVars
             PROVE  OnceInv'
    OBVIOUS
<1>1. run \in [Runs -> Run] /\ NoRun \in Run
    BY NoRunType DEF RemindersTypeOK
<1>2. ASSUME NEW r \in Runs, NEW i \in Instances, sendUpcomingAppointmentReminders(i, r)
      PROVE  OnceInv'
    <2>1. \A q \in Runs : run'[q].current = {} \/ run'[q] = run[q]
        BY <1>1, <1>2 DEF sendUpcomingAppointmentReminders, NoRun
    <2> QED
        BY <1>2, <2>1, OnceKept DEF sendUpcomingAppointmentReminders, toldVars
<1>3. ASSUME NEW r \in Runs, findCandidates(r) \/ endRun(r) \/ sendFails(r)
      PROVE  OnceInv'
    <2>1. run[r] \in Run /\ (findCandidates(r) => run[r].current = {})
        BY <1>1, <1>3 DEF RunsInv, RunInv, findCandidates, RunStep
    <2>2. \A q \in Runs : run'[q].current = {} \/ run'[q] = run[q]
        BY <1>1, <1>3, <2>1 DEF findCandidates, endRun, sendFails, NoRun, Run
    <2> QED
        BY <1>3, <2>2, OnceKept DEF findCandidates, endRun, sendFails, redisVars, toldVars
<1>4. ASSUME NEW i \in Instances, restartInstance(i)
      PROVE  OnceInv'
    <2>1. \A q \in Runs : run'[q].current = {} \/ run'[q] = run[q]
        BY <1>4 DEF restartInstance, NoRun
    <2> QED
        BY <1>4, <2>1, OnceKept DEF restartInstance, redisVars, toldVars
<1>5. ASSUME \/ \E b \in Appointments :
                   \/ \E at \in AppointmentTimes : confirmAppointment(b, at) \/ rescheduleAppointment(b, at)
                   \/ \E status \in {"NO_SHOW", "over"} : leaveAppointment(b, status)
             \/ nextMinute \/ redisFlips \/ UNCHANGED remindersVars
      PROVE  OnceInv'
    BY <1>5, OnceKept DEF confirmAppointment, rescheduleAppointment, leaveAppointment, nextMinute,
                          redisFlips, redisVars, toldVars, remindersVars
<1> QED
    BY <1>2, <1>3, <1>4, <1>5, OnceClaim, OnceTold DEF RemindersNext

LEMMA OnceInit == RemindersInit => OnceInv
    BY DEF RemindersInit, OnceInv, ToldOnce, NoRun

\* However bookings are moved, missed and confirmed anew, and however long after its
\* claim has expired, nobody is told twice of the same time of a booking that was
\* claimed in Redis: the claim outlives the ticks that see that time.
THEOREM ToldAtMostOnce == RemindersSpec => []RemindedOnce
<1>1. OnceInv => RemindedOnce
    BY DEF OnceInv, ToldOnce, RemindedOnce
<1> QED
    BY <1>1, OnceInit, RunsTypeInit, TypeStep, OnceStep, PTL DEF RemindersSpec
-------------------------------------------------------------------------------
(* Reminded in time.                                                       *)

\* What a booking needs of a step in which no tick comes.
LEMMA TimeKept ==
    ASSUME NEW b \in Appointments, SeenInTime(b),
           now' = now, locked' = locked, fired' = fired, missed' = missed,
           appointment'[b] = appointment[b],
           appointment[b].status = "CONFIRMED" /\ Seen(b) => Seen(b)'
    PROVE  SeenInTime(b)'
    BY DEF SeenInTime, Target

\* The minutes of a booking, and the notice of its time.
LEMMA BookingParts ==
    ASSUME RemindersTypeOK, RunsInv, NEW b \in Appointments
    PROVE  /\ now \in Nat /\ locked \in Int /\ locked <= now
           /\ appointment[b].at \in Nat /\ appointment[b].since \in Nat
           /\ Target(b) \in Int
           /\ claims[b].of \in Nat /\ claims[b].until \in Int
           /\ appointment[b].status = "CONFIRMED" => Notice(b) \in Notices
           /\ \A minute \in Nat :
                 Near(appointment[b].at, minute) <=> minute = Target(b) - 1 \/ minute = Target(b)
<1>1. /\ now \in Nat /\ locked \in Int /\ locked <= now
      /\ appointment[b] \in Appointment /\ claims[b] \in [of : Nat, until : Int]
    BY RemindersAssumption DEF RemindersTypeOK, RemindersAssumption
<1>2. /\ appointment[b].at \in Nat /\ appointment[b].since \in Nat
      /\ claims[b].of \in Nat /\ claims[b].until \in Int
    BY <1>1 DEF Appointment
<1>3. Target(b) \in Int
    BY <1>2, ReadTimeType, RemindersAssumption DEF Target, RemindersAssumption
<1>4. appointment[b].status = "CONFIRMED" => Notice(b) \in Notices
    BY DEF RunsInv, Notice, Notices
<1>5. ASSUME NEW minute \in Nat
      PROVE  Near(appointment[b].at, minute) <=> minute = Target(b) - 1 \/ minute = Target(b)
    BY <1>2, NearTicks DEF Target
<1> QED
    BY <1>1, <1>2, <1>3, <1>4, <1>5

LEMMA TimeTick ==
    ASSUME RemindersTypeOK, RunsInv, NEW i \in Instances, NEW r \in Runs,
           sendUpcomingAppointmentReminders(i, r), NEW b \in Appointments, ClaimUsed(b), SeenInTime(b)
    PROVE  ClaimUsed(b)' /\ SeenInTime(b)'
<1>1. /\ run \in [Runs -> Run] /\ run[r].step = "idle" /\ run[r].todo = {} /\ run[r].current = {}
      /\ now \in Nat
    BY BookingParts DEF sendUpcomingAppointmentReminders, RunStep, RunsInv, RunInv, RemindersTypeOK
<1>2. now' = now /\ appointment' = appointment /\ missed' = missed /\ claims' = claims
      /\ clientTold' = clientTold /\ lost' = lost
    BY DEF sendUpcomingAppointmentReminders, toldVars
<1>3. CASE answers /\ Locked
    <2>1. run' = run /\ locked' = locked /\ locked = now
        BY <1>3 DEF sendUpcomingAppointmentReminders, Locked
    <2> QED
        BY <1>2, <2>1 DEF ClaimUsed, SeenInTime, Seen, OnItsWay, RunStep, Target, Notice, ClaimedBefore, Near
<1>4. CASE ~(answers /\ Locked)
    <2>1. \A q \in Runs \ {r} : run'[q] = run[q]
        BY <1>1, <1>4 DEF sendUpcomingAppointmentReminders
    <2>2. run'[r].step = "find" /\ run'[r].minute = now
        BY <1>1, <1>4 DEF sendUpcomingAppointmentReminders, NoRun
    <2>3. ClaimUsed(b)'
        BY <1>1, <1>2, <2>1 DEF ClaimUsed, RunStep
    <2>4. Seen(b) => Seen(b)'
        BY <1>1, <1>2, <2>1 DEF Seen, OnItsWay, RunStep, Target, Notice, ClaimedBefore, Near
    <2>5. now \in {Target(b) - 1, Target(b)} => Near(appointment[b].at, now)
        BY BookingParts
    <2>6. now \in {Target(b) - 1, Target(b)} => Seen(b)'
        BY <1>2, <2>2, <2>5 DEF Seen, OnItsWay, RunStep, Near
    <2> QED
        BY <1>2, <2>3, <2>4, <2>6 DEF SeenInTime, Target
<1> QED
    BY <1>3, <1>4

\* Refused a claim, b was told of its time when that claim was made, or the claim is
\* about another time and in the way of the ticks of this one.
LEMMA RefusedSeen ==
    ASSUME RemindersTypeOK, RunsInv, NEW r \in Runs, NEW n \in Notices, claim(r, n),
           now <= claims[n[1]].until,
           NEW b \in Appointments, ClaimUsed(b), n = Notice(b)
    PROVE  \/ clientTold[n] >= 1
           \/ n \in lost
           \/ \E q \in Runs : RunStep(q, "client") /\ n \in run[q].current
           \/ ClaimedBefore(b)
<1>1. n[1] = b /\ n[2] = appointment[b].at
    BY DEF Notice
<1>2. CASE claims[b].of = appointment[b].at
    BY <1>1, <1>2, BookingParts DEF ClaimUsed, Notice
<1>3. CASE claims[b].of # appointment[b].at
    <2>1. run[r].minute \in Nat /\ run[r].minute <= now /\ Near(n[2], run[r].minute)
        BY DEF claim, RunStep, RunsInv, RunInv, RemindersTypeOK, Run
    <2>2. run[r].minute >= Target(b) - 1
        BY <1>1, <2>1, BookingParts
    <2> QED
        BY <1>1, <1>3, <2>1, <2>2, BookingParts DEF ClaimedBefore
<1> QED
    BY <1>2, <1>3

LEMMA TimeClaim ==
    ASSUME RemindersTypeOK, RunsInv, NEW r \in Runs, NEW n \in Notices, claim(r, n),
           NEW b \in Appointments, ClaimUsed(b), SeenInTime(b)
    PROVE  ClaimUsed(b)' /\ SeenInTime(b)'
<1>1. run \in [Runs -> Run] /\ run[r] \in Run /\ run[r].step = "loop"
    BY DEF claim, RunStep, RemindersTypeOK
<1>2. /\ appointment' = appointment /\ clientTold' = clientTold /\ lost' = lost
      /\ now' = now /\ locked' = locked /\ fired' = fired /\ missed' = missed
    BY DEF claim, toldVars
<1>3. \A q \in Runs \ {r} : run'[q] = run[q]
    BY <1>1 DEF claim, Take
<1>4. run'[r].todo = run[r].todo \ {n}
    BY <1>1 DEF claim, Take, Run
<1>5. CASE now <= claims[n[1]].until /\ run' = [run EXCEPT ![r].todo = @ \ {n}] /\ claims' = claims
    <2>1. run'[r].step = "loop"
        BY <1>1, <1>5 DEF Run
    <2>2. ClaimUsed(b)'
        BY <1>1, <1>2, <1>3, <1>5, <2>1 DEF ClaimUsed, RunStep
    <2>3. Seen(b) => Seen(b)'
        <3>1. CASE n = Notice(b)
            <4>1. \/ clientTold[n] >= 1
                  \/ n \in lost
                  \/ \E q \in Runs : RunStep(q, "client") /\ n \in run[q].current
                  \/ ClaimedBefore(b)
                BY <1>5, <3>1, RefusedSeen
            <4> QED
                BY <1>1, <1>2, <1>3, <1>5, <3>1, <4>1
                DEF Seen, OnItsWay, RunStep, Target, Notice, ClaimedBefore
        <3>2. CASE n # Notice(b)
            BY <1>1, <1>2, <1>3, <1>4, <1>5, <3>2
            DEF Seen, OnItsWay, RunStep, Target, Notice, ClaimedBefore, Near
        <3> QED
            BY <3>1, <3>2
    <2> QED
        BY <1>2, <2>2, <2>3, TimeKept
<1>6. ASSUME Take(r, n),
             \/ claims'[b] = claims[b]
             \/ /\ n[1] = b /\ now >= claims[b].until
                /\ claims'[b].of = n[2] /\ claims'[b].until = now + CLAIM_TTL
      PROVE  ClaimUsed(b)' /\ SeenInTime(b)'
    <2>1. run'[r].step = "client" /\ run'[r].current = {n}
        BY <1>1, <1>6 DEF Take, Run
    <2>2. ClaimUsed(b)'
        <3>1. CASE claims'[b] = claims[b]
            BY <1>1, <1>2, <1>3, <3>1 DEF ClaimUsed, RunStep
        <3>2. CASE n[1] = b /\ claims'[b].of = n[2]
            <4>1. n = <<b, n[2]>>
                BY <3>2, NoticeParts
            <4> QED
                BY <2>1, <3>2, <4>1 DEF ClaimUsed, RunStep
        <3> QED
            BY <1>6, <3>1, <3>2
    <2>3. Seen(b) => Seen(b)'
        <3>1. CASE n = Notice(b)
            BY <1>2, <2>1, <3>1 DEF Seen, OnItsWay, RunStep, Notice
        <3>2. CASE n # Notice(b)
            <4>1. OnItsWay(b) => OnItsWay(b)'
                BY <1>1, <1>2, <1>3, <1>4, <3>2 DEF OnItsWay, RunStep, Notice, Near
            <4>2. ASSUME ClaimedBefore(b)
                  PROVE  ClaimedBefore(b)'
                <5>1. CASE claims'[b] = claims[b]
                    BY <1>2, <4>2, <5>1 DEF ClaimedBefore, Target
                <5>2. CASE /\ n[1] = b /\ now >= claims[b].until
                           /\ claims'[b].of = n[2] /\ claims'[b].until = now + CLAIM_TTL
                    <6>1. n[2] # appointment[b].at
                        BY <3>2, <5>2, NoticeParts DEF Notice
                    <6>2. now + CLAIM_TTL >= Target(b) - 1
                        BY <4>2, <5>2, BookingParts, RemindersAssumption DEF ClaimedBefore, RemindersAssumption
                    <6> QED
                        BY <1>2, <5>2, <6>1, <6>2 DEF ClaimedBefore, Target
                <5> QED
                    BY <1>6, <5>1, <5>2
            <4> QED
                BY <1>2, <4>1, <4>2 DEF Seen, Notice
        <3> QED
            BY <3>1, <3>2
    <2> QED
        BY <1>2, <2>2, <2>3, TimeKept
<1>7. CASE answers /\ now >= claims[n[1]].until /\ Take(r, n) /\ Claimed(n)
    <2>1. \/ claims'[b] = claims[b]
          \/ /\ n[1] = b /\ now >= claims[b].until
             /\ claims'[b].of = n[2] /\ claims'[b].until = now + CLAIM_TTL
        BY <1>7 DEF Claimed, RemindersTypeOK
    <2> QED
        BY <1>6, <1>7, <2>1
<1>8. CASE Take(r, n) /\ UNCHANGED claims
    <2>1. claims'[b] = claims[b]
        BY <1>8
    <2> QED
        BY <1>6, <1>8, <2>1
<1>9. CASE answers /\ now <= claims[n[1]].until /\ run' = [run EXCEPT ![r].todo = @ \ {n}]
           /\ claims' = claims
    BY <1>5, <1>9
<1> QED
    BY <1>7, <1>8, <1>9 DEF claim

LEMMA TimeRun ==
    ASSUME RemindersTypeOK, RunsInv, NEW r \in Runs,
           findCandidates(r) \/ tellClient(r) \/ tellShop(r) \/ sendFails(r) \/ endRun(r),
           NEW b \in Appointments, ClaimUsed(b), SeenInTime(b)
    PROVE  ClaimUsed(b)' /\ SeenInTime(b)'
<1> DEFINE n == Notice(b)
           c == <<b, claims[b].of>>
<1>1. run \in [Runs -> Run] /\ run[r] \in Run /\ clientTold \in [Notices -> Nat]
    BY DEF RemindersTypeOK
<1>2. now' = now /\ locked' = locked /\ fired' = fired /\ missed' = missed
      /\ appointment' = appointment /\ claims' = claims
    BY DEF findCandidates, tellClient, tellShop, sendFails, endRun, redisVars
<1>3. \A q \in Runs \ {r} : run'[q] = run[q]
    BY <1>1 DEF findCandidates, tellClient, tellShop, sendFails, endRun
<1>4. appointment[b].status = "CONFIRMED" => n \in Notices
    BY BookingParts
<1>5. n' = n /\ n = <<b, appointment[b].at>>
    BY <1>2 DEF Notice
<1>6. ClaimedBefore(b) => ClaimedBefore(b)'
    BY <1>2 DEF ClaimedBefore, Target
<1>7. CASE findCandidates(r)
    <2>1. run[r].step = "find" /\ run[r].todo = {} /\ clientTold' = clientTold /\ lost' = lost
        BY <1>7 DEF findCandidates, RunStep, RunsInv, RunInv, toldVars
    <2>2. appointment[b].status = "CONFIRMED" /\ Near(appointment[b].at, run[r].minute) => n \in run'[r].todo
        <3>1. run'[r].todo = Due(run[r].minute)
            BY <1>1, <1>7 DEF findCandidates, Run
        <3> QED
            BY <1>4, <3>1 DEF Due, Notice
    <2>3. ClaimUsed(b)' /\ (appointment[b].status = "CONFIRMED" /\ Seen(b) => Seen(b)')
        BY <1>2, <1>3, <1>5, <1>6, <2>1, <2>2 DEF ClaimUsed, Seen, OnItsWay, RunStep, Near
    <2> QED
        BY <1>2, <2>3, TimeKept
<1>8. CASE tellClient(r)
    <2>1. run[r].step = "client" /\ run'[r].todo = run[r].todo /\ lost' = lost
        BY <1>1, <1>8 DEF tellClient, RunStep, Run
    <2>2. \A m \in Notices :
             clientTold'[m] >= clientTold[m] /\ (m \in run[r].current => clientTold'[m] >= 1)
             /\ clientTold'[m] \in Nat /\ clientTold[m] \in Nat
        BY <1>1, <1>8 DEF tellClient
    <2>3. ClaimUsed(b)'
        BY <1>1, <1>2, <1>3, <2>1, <2>2 DEF ClaimUsed, RunStep
    <2>4. appointment[b].status = "CONFIRMED" /\ Seen(b) => Seen(b)'
        BY <1>1, <1>2, <1>3, <1>4, <1>5, <1>6, <2>1, <2>2 DEF Seen, OnItsWay, RunStep, Near
    <2> QED
        BY <1>2, <2>3, <2>4, TimeKept
<1>9. CASE tellShop(r) \/ sendFails(r)
    <2>1. run'[r].todo = run[r].todo /\ clientTold' = clientTold /\ lost \subseteq lost'
        BY <1>1, <1>9 DEF tellShop, sendFails, toldVars, Run
    <2>2. run[r].step \in {"client", "shop"} /\ (run[r].step = "client" => run[r].current \subseteq lost')
        BY <1>9 DEF tellShop, sendFails, RunStep
    <2>3. ClaimUsed(b)'
        BY <1>2, <1>3, <2>1, <2>2 DEF ClaimUsed, RunStep
    <2>4. Seen(b) => Seen(b)'
        BY <1>2, <1>3, <1>5, <1>6, <2>1, <2>2 DEF Seen, OnItsWay, RunStep, Near
    <2> QED
        BY <1>2, <2>3, <2>4, TimeKept
<1>10. CASE endRun(r)
    <2>1. run[r].step = "loop" /\ run[r].todo = {} /\ clientTold' = clientTold /\ lost' = lost
        BY <1>10 DEF endRun, RunStep, toldVars
    <2>2. ClaimUsed(b)' /\ (Seen(b) => Seen(b)')
        BY <1>2, <1>3, <1>5, <1>6, <2>1 DEF ClaimUsed, Seen, OnItsWay, RunStep, Near
    <2> QED
        BY <1>2, <2>2, TimeKept
<1> QED
    BY <1>7, <1>8, <1>9, <1>10

LEMMA TimeRestart ==
    ASSUME RemindersTypeOK, RunsInv, NEW i \in Instances, restartInstance(i),
           NEW b \in Appointments, ClaimUsed(b), SeenInTime(b)
    PROVE  ClaimUsed(b)' /\ SeenInTime(b)'
<1>1. now' = now /\ locked' = locked /\ fired' = fired /\ missed' = missed
      /\ appointment' = appointment /\ claims' = claims /\ clientTold' = clientTold
    BY DEF restartInstance, redisVars, toldVars
<1>2. /\ lost \subseteq lost'
      /\ \A r \in Runs :
            \/ run'[r] = run[r]
            \/ /\ run[r].todo \subseteq lost' /\ run[r].current \subseteq lost'
               /\ RunStep(r, "find") => Due(run[r].minute) \subseteq lost'
    BY RestartLoses
<1>3. ClaimUsed(b)'
    BY <1>1, <1>2 DEF ClaimUsed, RunStep
<1>4. ASSUME appointment[b].status = "CONFIRMED", Seen(b)
      PROVE  Seen(b)'
    <2>1. \A minute : Near(appointment[b].at, minute) => Notice(b) \in Due(minute)
        BY <1>4, BookingParts DEF Due, Notice
    <2>2. Notice(b)' = Notice(b) /\ Notice(b) = <<b, appointment[b].at>>
          /\ (ClaimedBefore(b) => ClaimedBefore(b)')
        BY <1>1 DEF Notice, ClaimedBefore, Target
    <2>3. OnItsWay(b) => OnItsWay(b)' \/ Notice(b) \in lost'
        BY <1>1, <1>2, <2>1, <2>2 DEF OnItsWay, RunStep, Near
    <2> QED
        BY <1>1, <1>2, <1>4, <2>2, <2>3 DEF Seen
<1> QED
    BY <1>1, <1>3, <1>4, TimeKept

LEMMA TimeMinute ==
    ASSUME RemindersTypeOK, RunsInv, nextMinute, NEW b \in Appointments, SeenInTime(b)
    PROVE  SeenInTime(b)'
<1>1. now \in Nat /\ Target(b) \in Int /\ locked \in Int /\ locked <= now
    BY BookingParts
<1>2. /\ now' = now + 1 /\ missed' = (fired = {}) /\ fired' = {} /\ (missed => fired # {})
      /\ appointment' = appointment /\ locked' = locked /\ Target(b)' = Target(b)
    BY DEF nextMinute, redisVars, Target
<1>3. Seen(b) => Seen(b)'
    BY DEF nextMinute, redisVars, toldVars, Seen, OnItsWay, RunStep, Notice, ClaimedBefore, Target, Near
<1>4. ASSUME appointment[b].status = "CONFIRMED", appointment[b].since < Target(b) - 1
      PROVE  /\ now + 1 = Target(b) /\ fired # {} => Seen(b)
             /\ Target(b) < now + 1 => Seen(b)
    BY <1>1, <1>2, <1>4 DEF SeenInTime
<1>5. ASSUME appointment[b].status = "CONFIRMED", appointment[b].since < Target(b) - 1
      PROVE  /\ now' \in {Target(b) - 1, Target(b)} /\ (fired' # {} \/ locked' = now') => Seen(b)'
             /\ now' = Target(b) /\ ~missed' => Seen(b)'
             /\ Target(b) < now' => Seen(b)'
    <2>1. fired' = {} /\ locked' # now'
        BY <1>1, <1>2
    <2>2. ~missed' => fired # {}
        BY <1>2
    <2> QED
        BY <1>2, <1>3, <1>4, <1>5, <2>1, <2>2
<1> QED
    BY <1>2, <1>5 DEF SeenInTime

\* A booking that gets another time has its two ticks before it, or none is owed.
LEMMA TimeMoved ==
    ASSUME RemindersTypeOK, RunsInv, NEW c \in Appointments, NEW at \in AppointmentTimes,
           confirmAppointment(c, at) \/ rescheduleAppointment(c, at),
           NEW b \in Appointments, ClaimUsed(b), SeenInTime(b)
    PROVE  ClaimUsed(b)' /\ SeenInTime(b)'
<1>1. /\ now' = now /\ locked' = locked /\ fired' = fired /\ missed' = missed /\ claims' = claims
      /\ clientTold' = clientTold /\ run' = run /\ lost' = lost /\ now \in Nat /\ at \in Nat
      /\ appointment' = [appointment EXCEPT ![c] = [status |-> "CONFIRMED", at |-> at, since |-> now]]
    BY BookingParts, RemindersAssumption DEF confirmAppointment, rescheduleAppointment, Confirmed, redisVars,
                                             toldVars, RemindersAssumption
<1>2. ClaimUsed(b)'
    BY <1>1 DEF ClaimUsed, RunStep
<1>3. CASE b # c
    <2>1. appointment'[b] = appointment[b]
        BY <1>1, <1>3 DEF RemindersTypeOK
    <2>2. Seen(b) => Seen(b)'
        BY <1>1, <2>1 DEF Seen, OnItsWay, RunStep, Notice, ClaimedBefore, Target, Near
    <2> QED
        BY <1>1, <1>2, <2>1, <2>2, TimeKept
<1>4. CASE b = c
    <2>1. appointment'[b].since = now /\ appointment'[b].at = at
        BY <1>1, <1>4 DEF RemindersTypeOK
    <2>2. Target(b)' = ReadTime(at) - REMINDER_MINUTES_BEFORE /\ Target(b)' \in Int
        BY <1>1, <2>1, ReadTimeType, RemindersAssumption DEF Target, RemindersAssumption
    <2> QED
        BY <1>1, <1>2, <2>1, <2>2 DEF SeenInTime
<1> QED
    BY <1>3, <1>4

LEMMA TimeStep ==
    RemindersTypeOK /\ RunsInv /\ TimeInv /\ [RemindersNext]_remindersVars => TimeInv'
<1> SUFFICES ASSUME RemindersTypeOK, RunsInv, TimeInv, [RemindersNext]_remindersVars,
                    NEW b \in Appointments
             PROVE  ClaimUsed(b)' /\ SeenInTime(b)'
    BY DEF TimeInv
<1>1. ClaimUsed(b) /\ SeenInTime(b)
    BY DEF TimeInv
<1>2. CASE nextMinute
    <2>1. ClaimUsed(b)'
        BY <1>1, <1>2 DEF nextMinute, redisVars, toldVars, ClaimUsed, RunStep
    <2> QED
        BY <1>1, <1>2, <2>1, TimeMinute
<1>3. CASE redisFlips \/ UNCHANGED remindersVars
    BY <1>1, <1>3 DEF redisFlips, remindersVars, redisVars, toldVars, ClaimUsed, SeenInTime, Seen,
                      OnItsWay, RunStep, Notice, ClaimedBefore, Target, Near
<1>4. ASSUME NEW c \in Appointments, NEW status \in {"NO_SHOW", "over"}, leaveAppointment(c, status)
      PROVE  ClaimUsed(b)' /\ SeenInTime(b)'
    <2>1. ClaimUsed(b)'
        BY <1>1, <1>4 DEF leaveAppointment, redisVars, toldVars, ClaimUsed, RunStep
    <2>2. CASE b = c
        <3>1. appointment'[b].status # "CONFIRMED"
            BY <1>4, <2>2 DEF leaveAppointment, RemindersTypeOK, Appointment
        <3> QED
            BY <2>1, <3>1 DEF SeenInTime
    <2>3. CASE b # c
        <3>1. appointment'[b] = appointment[b]
            BY <1>4, <2>3 DEF leaveAppointment, RemindersTypeOK
        <3>2. Seen(b) => Seen(b)'
            BY <1>4, <3>1 DEF leaveAppointment, redisVars, toldVars, Seen, OnItsWay, RunStep, Notice,
                              ClaimedBefore, Target, Near
        <3> QED
            BY <1>1, <1>4, <2>1, <3>1, <3>2, TimeKept DEF leaveAppointment, redisVars
    <2> QED
        BY <2>2, <2>3
<1> QED
    BY <1>1, <1>2, <1>3, <1>4, TimeTick, TimeClaim, TimeRun, TimeRestart, TimeMoved DEF RemindersNext

LEMMA TimeInit == RemindersInit => TimeInv
    BY DEF RemindersInit, TimeInv, ClaimUsed, SeenInTime

\* A client whose booking has stood long enough is told of its present time when the two
\* ticks that see that time are over, unless a send failed, a restart cut a run off or
\* the claim made for an earlier time still stood.
THEOREM ToldInTime == RemindersSpec => []RemindedInTime
<1>1. TimeInv => RemindedInTime
    BY DEF TimeInv, SeenInTime, Seen, RemindedInTime, Notice
<1> QED
    BY <1>1, TimeInit, RunsTypeInit, TypeStep, TimeStep, PTL DEF RemindersSpec

(***************************************************************************)
(* On a server whose clock is UTC the ticks that see a booking are those   *)
(* of its own time, so that its client is told ahead of it.                *)
(***************************************************************************)
ToldAhead ==
    \A b \in Appointments :
        LET ahead == appointment[b].at - REMINDER_MINUTES_BEFORE IN
        appointment[b].status = "CONFIRMED" /\ appointment[b].since < ahead - 1 /\ ahead < now =>
            clientTold[Notice(b)] >= 1 \/ OnItsWay(b) \/ Notice(b) \in lost \/ ClaimedBefore(b)

\* With UTC on the server the client is told by the target of the booked time itself.
THEOREM ToldAheadOnUTC ==
    ASSUME UtcOffset = 0
    PROVE  RemindersSpec => []ToldAhead
<1>1. ASSUME RemindersTypeOK, TimeInv
      PROVE  ToldAhead
    <2>1. ASSUME NEW b \in Appointments
          PROVE  Target(b) = appointment[b].at - REMINDER_MINUTES_BEFORE
        BY <1>1, ReadTimeOfUTC DEF Target, RemindersTypeOK, Appointment
    <2> QED
        BY <1>1, <2>1 DEF TimeInv, SeenInTime, Seen, ToldAhead
<1> QED
    BY <1>1, TimeInit, RunsTypeInit, TypeStep, TimeStep, PTL DEF RemindersSpec

-------------------------------------------------------------------------------
(* The cached catalogue.                                                   *)

CacheInv == CacheTypeOK /\ CacheStaleOnlyIfRaced

(* Keys, and what is read under them.                                      *)
LEMMA KeysDiffer == OfferKeys \intersect CategoryKeys = {}
    BY DEF OfferKeys, CategoryKeys

LEMMA NothingIsEntry == Nothing \in Entry
<1>1. -1 \in -1..MaxVersions
    BY CacheAssumption DEF CacheAssumption
<1>2. [o \in Offers |-> -1] \in [Offers -> -1..MaxVersions]
    BY <1>1
<1> QED
    BY <1>1, <1>2 DEF Nothing, Entry

LEMMA IdleReaderType == IdleReader \in Reading
    BY NothingIsEntry DEF IdleReader, Reading, Keys, OfferKeys

LEMMA IdleWriterType == IdleWriter \in Writing
    BY DEF IdleWriter, Writing

LEMMA RowsType ==
    ASSUME CacheTypeOK, NEW k
    PROVE  RowsOf(k) \in [Offers -> -1..MaxVersions]
<1>1. -1 \in -1..MaxVersions /\ Version \subseteq -1..MaxVersions
    BY CacheAssumption DEF CacheAssumption, Version
<1>2. \A o \in Offers : offer[o] \in -1..MaxVersions
    BY <1>1 DEF CacheTypeOK, Row
<1> QED
    BY <1>1, <1>2 DEF RowsOf

(* A step of a reader that stores nothing.                                 *)
LEMMA ReadKeeps ==
    ASSUME CacheInv, NEW r \in Readers,
           reader' \in [Readers -> Reading],
           UNCHANGED <<rowVars, cached, redisUp, writer, raced, undeleted, redisFaults>>
    PROVE  CacheInv'
    BY DEF CacheInv, CacheTypeOK, CacheStaleOnlyIfRaced, Current, RowsOf, DeletionUnderWay,
           invalidateCache, rowVars

LEMMA ProducesKeeps ==
    ASSUME CacheInv, NEW r \in Readers, NEW entry \in Entry, NEW step \in {"idle", "enrich", "store"},
           Produces(r, entry, step)
    PROVE  CacheInv'
<1>1. reader' \in [Readers -> Reading]
    <2>1. reader[r] \in Reading
        BY DEF CacheInv, CacheTypeOK
    <2>2. [reader[r] EXCEPT !.entry = entry, !.step = step] \in Reading
        BY <2>1 DEF Reading
    <2>3. reader' = [reader EXCEPT ![r] = [reader[r] EXCEPT !.entry = entry, !.step = step]]
        BY DEF Produces, CacheInv, CacheTypeOK
    <2> QED
        BY <2>2, <2>3 DEF CacheInv, CacheTypeOK
<1> QED
    BY <1>1, ReadKeeps DEF Produces

LEMMA ReaderStep ==
    ASSUME CacheInv, NEW r \in Readers,
           \/ \E k \in Keys : remember(r, k)
           \/ findAll(r) \/ findOne(r) \/ findShopServices(r) \/ findCategories(r)
           \/ enrich(r)
    PROVE  CacheInv'
<1>1. CASE \E k \in Keys : remember(r, k)
    <2>1. reader' \in [Readers -> Reading]
        <3>1. PICK k \in Keys : remember(r, k)
            BY <1>1
        <3>2. [IdleReader EXCEPT !.step = "find", !.key = k] \in Reading
            BY IdleReaderType DEF Reading
        <3> QED
            BY <3>1, <3>2 DEF CacheInv, CacheTypeOK, remember
    <2> QED
        BY <1>1, <2>1, ReadKeeps DEF remember
<1>2. ASSUME NEW kind, findOffers(r, kind)
      PROVE  CacheInv'
    <2>1. [Nothing EXCEPT !.rows = RowsOf(reader[r].key)] \in Entry
        BY RowsType, NothingIsEntry DEF CacheInv, Entry
    <2> QED
        BY <1>2, <2>1, NothingIsEntry, ProducesKeeps DEF findOffers
<1>3. CASE findCategories(r) \/ enrich(r)
    <2>1. category \in -1..MaxVersions
        BY CacheAssumption DEF CacheInv, CacheTypeOK, CacheAssumption, Version
    <2>2. [Nothing EXCEPT !.names = category] \in Entry
        BY <2>1, NothingIsEntry DEF Entry
    <2>3. [reader[r].entry EXCEPT !.names = category] \in Entry
        BY <2>1 DEF CacheInv, CacheTypeOK, Reading, Entry
    <2> QED
        BY <1>3, <2>2, <2>3, ProducesKeeps DEF findCategories, enrich
<1> QED
    BY <1>1, <1>2, <1>3 DEF findAll, findOne, findShopServices

\* What is stored is current, or its key is one that a write overtook.
LEMMA SetexKeeps ==
    ASSUME CacheInv, NEW r \in Readers, setex(r)
    PROVE  CacheInv'
<1> DEFINE k == reader[r].key
<1>1. CacheTypeOK'
    BY IdleReaderType DEF CacheInv, CacheTypeOK, setex, Reading, rowVars
<1>2. \A l \in Keys, entry \in Entry : Current(l, entry)' <=> Current(l, entry)
    BY DEF setex, rowVars, Current, RowsOf
<1>3. \A l \in Keys : DeletionUnderWay(l) => DeletionUnderWay(l)'
    BY DEF setex, DeletionUnderWay, invalidateCache
<1>4. ASSUME NEW l \in Keys, cached'[l] # Nothing
      PROVE  Current(l, cached[l])' \/ DeletionUnderWay(l)' \/ l \in raced' \/ l \in undeleted'
    <2>1. CASE redisUp /\ l = k
        <3>1. cached'[l] = reader[r].entry /\ reader[r].entry \in Entry
            BY <2>1 DEF CacheInv, CacheTypeOK, Reading, setex
        <3> QED
            BY <2>1, <3>1, <1>2 DEF setex
    <2>2. CASE ~(redisUp /\ l = k)
        <3>1. cached'[l] = cached[l] /\ cached[l] \in Entry
            BY <2>2 DEF CacheInv, CacheTypeOK, setex
        <3>2. l \in raced => l \in raced'
            BY <2>2 DEF setex
        <3>3. l \in undeleted => l \in undeleted'
            BY <2>2 DEF setex
        <3> QED
            BY <3>1, <3>2, <3>3, <1>2, <1>3, <1>4 DEF CacheInv, CacheStaleOnlyIfRaced
    <2> QED
        BY <2>1, <2>2
<1> QED
    BY <1>1, <1>4 DEF CacheInv, CacheStaleOnlyIfRaced

-------------------------------------------------------------------------------
(* Writes.                                                                 *)

\* Whatever of its own keys a write leaves cached, it is about to delete, or says that
\* it could not; the keys of the other kind it does not touch.
LEMMA WriterOnly ==
    ASSUME CacheInv, NEW w \in Writers, NEW writing \in Writing,
           writer' = [writer EXCEPT ![w] = writing]
    PROVE  /\ writer' \in [Writers -> Writing]
           /\ writer'[w] = writing
           /\ \A v \in Writers \ {w} : writer'[v] = writer[v]
    BY DEF CacheInv, CacheTypeOK

\* A deletion that w has not begun is another's, and goes on.
LEMMA OthersDelete ==
    ASSUME CacheInv, NEW w \in Writers, NEW k \in Keys,
           \A v \in Writers \ {w} : writer'[v] = writer[v],
           DeletionUnderWay(k),
           \/ writer[w].step \notin {"scan", "delete"}
           \/ k \notin invalidateCache(w)
           \/ writer[w].step = "delete" /\ k \notin writer[w].keys
    PROVE  DeletionUnderWay(k)'
    BY DEF DeletionUnderWay, invalidateCache

\* A row changes, and its writer goes on to delete the keys of its kind.
LEMMA SavedKeeps ==
    ASSUME CacheInv, NEW w \in Writers, NEW writing \in Writing,
           writer[w].step \in {"idle", "save"},
           writing.step = "scan",
           writer' = [writer EXCEPT ![w] = writing],
           UNCHANGED <<cached, raced, undeleted>>,
           IF writing.target \in Offers THEN UNCHANGED category ELSE UNCHANGED <<offer, gone>>,
           CacheTypeOK'
    PROVE  CacheInv'
<1> SUFFICES ASSUME NEW k \in Keys, cached'[k] # Nothing
             PROVE  (Current(k, cached[k]) \/ DeletionUnderWay(k) \/ k \in raced \/ k \in undeleted)'
    BY DEF CacheInv, CacheStaleOnlyIfRaced
<1>1. writer'[w] = writing /\ \A v \in Writers \ {w} : writer'[v] = writer[v]
    BY WriterOnly
<1>2. CASE k \in invalidateCache(w)'
    BY <1>1, <1>2 DEF DeletionUnderWay
<1>3. CASE k \notin invalidateCache(w)'
    <2>1. Current(k, cached[k])' <=> Current(k, cached[k])
        BY <1>1, <1>3, KeysDiffer DEF invalidateCache, Current, RowsOf, Keys
    <2>2. DeletionUnderWay(k) => DeletionUnderWay(k)'
        BY <1>1, OthersDelete
    <2> QED
        BY <2>1, <2>2 DEF CacheInv, CacheStaleOnlyIfRaced
<1> QED
    BY <1>2, <1>3

LEMMA SaveKeeps ==
    ASSUME CacheInv, NEW w \in Writers,
           \/ saveService(w) \/ saveCategory(w)
           \/ \E o \in Offers : createService(w, o) \/ removeService(w, o)
    PROVE  CacheInv'
<1>1. CASE saveService(w)
    <2> DEFINE writing == [writer[w] EXCEPT !.step = "scan"]
    <2>1. writing \in Writing /\ writing.step = "scan" /\ writing.target = writer[w].target
        BY DEF CacheInv, CacheTypeOK, Writing
    <2>2. writer' = [writer EXCEPT ![w] = writing]
        BY <1>1 DEF saveService, Saved, CacheInv, CacheTypeOK
    <2>3. offer' \in Row
        BY <1>1, CacheAssumption DEF saveService, CacheInv, CacheTypeOK, Row, Version, CacheAssumption
    <2>4. CacheTypeOK'
        BY <1>1, <2>1, <2>2, <2>3 DEF saveService, Saved, CacheInv, CacheTypeOK
    <2> QED
        BY <1>1, <2>1, <2>2, <2>4, SavedKeeps DEF saveService, Saved
<1>2. CASE saveCategory(w)
    <2> DEFINE writing == [writer[w] EXCEPT !.step = "scan"]
    <2>1. writing \in Writing /\ writing.step = "scan" /\ writing.target = writer[w].target
        BY DEF CacheInv, CacheTypeOK, Writing
    <2>2. writer' = [writer EXCEPT ![w] = writing]
        BY <1>2 DEF saveCategory, Saved, CacheInv, CacheTypeOK
    <2>3. category' \in Version
        BY <1>2, CacheAssumption DEF saveCategory, CacheInv, CacheTypeOK, Version, CacheAssumption
    <2>4. CacheTypeOK'
        BY <1>2, <2>1, <2>2, <2>3 DEF saveCategory, Saved, CacheInv, CacheTypeOK
    <2>5. writing.target \notin Offers
        BY <1>2, <2>1, CacheAssumption DEF saveCategory, CacheAssumption
    <2> QED
        BY <1>2, <2>1, <2>2, <2>4, <2>5, SavedKeeps DEF saveCategory, Saved
<1>3. ASSUME NEW o \in Offers, createService(w, o) \/ removeService(w, o)
      PROVE  CacheInv'
    <2> DEFINE writing == [IdleWriter EXCEPT !.step = "scan", !.target = o]
    <2>1. writing \in Writing /\ writing.step = "scan" /\ writing.target = o
        BY DEF IdleWriter, Writing
    <2>2. 1 \in Version
        BY CacheAssumption DEF CacheAssumption, Version
    <2>3. CASE createService(w, o)
        <3>1. CacheTypeOK'
            BY <2>1, <2>2, <2>3 DEF createService, CacheInv, CacheTypeOK, Row
        <3> QED
            BY <2>1, <2>3, <3>1, SavedKeeps DEF createService
    <2>4. CASE removeService(w, o)
        <3>1. CacheTypeOK'
            BY <2>1, <2>4 DEF removeService, CacheInv, CacheTypeOK
        <3> QED
            BY <2>1, <2>4, <3>1, SavedKeeps DEF removeService
    <2> QED
        BY <1>3, <2>3, <2>4
<1> QED
    BY <1>1, <1>2, <1>3

LEMMA SavingKeeps ==
    ASSUME CacheInv, NEW w \in Writers,
           writeCategory(w) \/ \E o \in Offers : updateService(w, o)
    PROVE  CacheInv'
<1>1. PICK target \in Offers \union {"category"} : Saving(w, target)
    BY DEF writeCategory, updateService
<1> DEFINE writing == [IdleWriter EXCEPT !.step = "save", !.target = target]
<1>2. writing \in Writing
    BY DEF IdleWriter, Writing
<1>3. CacheTypeOK' /\ \A v \in Writers \ {w} : writer'[v] = writer[v]
    BY <1>1, <1>2 DEF Saving, CacheInv, CacheTypeOK, rowVars
<1>4. \A k \in Keys : DeletionUnderWay(k) => DeletionUnderWay(k)'
    BY <1>1, <1>3, OthersDelete DEF Saving
<1> QED
    BY <1>1, <1>3, <1>4 DEF Saving, rowVars, CacheInv, CacheStaleOnlyIfRaced, Current, RowsOf

\* A write ends: the keys that it was to delete are gone, or known as not deleted.
LEMMA EndKeeps ==
    ASSUME CacheInv, NEW w \in Writers,
           writer[w].step \in {"scan", "delete"},
           writer' = [writer EXCEPT ![w] = IdleWriter],
           undeleted' = undeleted \union {k \in invalidateCache(w) : cached[k] # Nothing},
           redisUp' \in BOOLEAN, redisFaults' \in 0..MaxRedisFaults,
           UNCHANGED <<rowVars, cached, reader, raced>>
    PROVE  CacheInv'
<1>1. CacheTypeOK' /\ \A v \in Writers \ {w} : writer'[v] = writer[v]
    BY IdleWriterType DEF CacheInv, CacheTypeOK, rowVars, invalidateCache, Keys
<1>2. ASSUME NEW k \in Keys, cached'[k] # Nothing
      PROVE  (Current(k, cached[k]) \/ DeletionUnderWay(k) \/ k \in raced \/ k \in undeleted)'
    <2>1. CASE k \in invalidateCache(w)
        BY <1>2, <2>1
    <2>2. CASE k \notin invalidateCache(w)
        BY <1>1, <1>2, <2>2, OthersDelete
           DEF rowVars, CacheInv, CacheStaleOnlyIfRaced, Current, RowsOf
    <2> QED
        BY <2>1, <2>2
<1> QED
    BY <1>1, <1>2 DEF CacheInv, CacheStaleOnlyIfRaced

LEMMA ScanKeeps ==
    ASSUME CacheInv, NEW w \in Writers, scan(w)
    PROVE  CacheInv'
<1>1. CASE Unanswered(w)
    BY <1>1, EndKeeps DEF scan, Unanswered, CacheInv, CacheTypeOK
<1>2. CASE ~Unanswered(w)
    <2> DEFINE found == {k \in invalidateCache(w) : cached[k] # Nothing}
               writing == [writer[w] EXCEPT !.step = "delete", !.keys = found]
    <2>1. found \subseteq Keys
        BY DEF invalidateCache, Keys
    <2>2. writing \in Writing /\ writing.step = "delete" /\ writing.keys = found
          /\ writing.target = writer[w].target
        BY <2>1 DEF CacheInv, CacheTypeOK, Writing
    <2>3. writer' = [writer EXCEPT ![w] = writing]
        BY <1>2 DEF scan, CacheInv, CacheTypeOK
    <2>4. CacheTypeOK' /\ writer'[w] = writing /\ \A v \in Writers \ {w} : writer'[v] = writer[v]
        BY <1>2, <2>2, <2>3 DEF scan, CacheInv, CacheTypeOK, rowVars
    <2>5. ASSUME NEW k \in Keys, cached'[k] # Nothing, DeletionUnderWay(k)
          PROVE  DeletionUnderWay(k)'
        <3>1. CASE k \in invalidateCache(w)
            BY <1>2, <2>2, <2>4, <2>5, <3>1 DEF scan, DeletionUnderWay, invalidateCache
        <3>2. CASE k \notin invalidateCache(w)
            BY <2>4, <2>5, <3>2, OthersDelete
        <3> QED
            BY <3>1, <3>2
    <2> QED
        BY <1>2, <2>4, <2>5 DEF scan, rowVars, CacheInv, CacheStaleOnlyIfRaced, Current, RowsOf
<1> QED
    BY <1>1, <1>2

LEMMA DelKeeps ==
    ASSUME CacheInv, NEW w \in Writers, del(w)
    PROVE  CacheInv'
<1>1. CASE Unanswered(w)
    BY <1>1, EndKeeps DEF del, Unanswered, CacheInv, CacheTypeOK
<1>2. CASE ~Unanswered(w)
    <2>1. CacheTypeOK' /\ \A v \in Writers \ {w} : writer'[v] = writer[v]
        BY <1>2, NothingIsEntry, IdleWriterType DEF del, CacheInv, CacheTypeOK, rowVars
    <2>2. ASSUME NEW k \in Keys, cached'[k] # Nothing
          PROVE  (Current(k, cached[k]) \/ DeletionUnderWay(k) \/ k \in raced \/ k \in undeleted)'
        <3>1. k \notin writer[w].keys /\ cached'[k] = cached[k]
            BY <1>2, <2>2 DEF del
        <3>2. DeletionUnderWay(k) => DeletionUnderWay(k)'
            BY <1>2, <2>1, <3>1, OthersDelete DEF del
        <3> QED
            BY <1>2, <2>2, <3>1, <3>2 DEF del, rowVars, CacheInv, CacheStaleOnlyIfRaced, Current, RowsOf
    <2> QED
        BY <2>1, <2>2 DEF CacheInv, CacheStaleOnlyIfRaced
<1> QED
    BY <1>1, <1>2

-------------------------------------------------------------------------------
(* Faults.                                                                 *)

LEMMA FaultKeeps ==
    ASSUME CacheInv,
           cacheFlips \/ \E k \in Keys : expire(k)
    PROVE  CacheInv'
<1>1. redisFaults' \in 0..MaxRedisFaults
    BY CacheAssumption DEF cacheFlips, expire, Fault, CacheInv, CacheTypeOK, CacheAssumption
<1>2. CASE cacheFlips
    BY <1>1, <1>2 DEF cacheFlips, rowVars, CacheInv, CacheTypeOK, CacheStaleOnlyIfRaced, Current,
                      RowsOf, DeletionUnderWay, invalidateCache
<1>3. ASSUME NEW k \in Keys, expire(k)
      PROVE  CacheInv'
    <2>1. CacheTypeOK'
        BY <1>1, <1>3, NothingIsEntry DEF expire, rowVars, CacheInv, CacheTypeOK
    <2>2. \A l \in Keys : cached'[l] # Nothing => l # k /\ cached'[l] = cached[l]
        BY <1>3 DEF expire, CacheInv, CacheTypeOK
    <2> QED
        BY <1>3, <2>1, <2>2 DEF expire, rowVars, CacheInv, CacheStaleOnlyIfRaced, Current, RowsOf,
                                DeletionUnderWay, invalidateCache
<1> QED
    BY <1>2, <1>3

LEMMA RestartKeeps ==
    ASSUME CacheInv, NEW w \in Writers, writerRestarts(w)
    PROVE  CacheInv'
<1>1. redisFaults' \in 0..MaxRedisFaults
    BY CacheAssumption DEF writerRestarts, Fault, CacheInv, CacheTypeOK, CacheAssumption
<1> QED
    BY <1>1, EndKeeps DEF writerRestarts, CacheInv, CacheTypeOK

-------------------------------------------------------------------------------
LEMMA CacheInvInit == CacheInit => CacheInv
<1> SUFFICES ASSUME CacheInit PROVE CacheInv
    OBVIOUS
<1>1. offer \in Row /\ category \in Version /\ redisFaults \in 0..MaxRedisFaults
    BY CacheAssumption DEF CacheInit, Row, Version, CacheAssumption
<1> QED
    BY <1>1, NothingIsEntry, IdleReaderType, IdleWriterType
       DEF CacheInit, CacheInv, CacheTypeOK, CacheStaleOnlyIfRaced

LEMMA CacheInvStep == CacheInv /\ [CacheNext]_cacheVars => CacheInv'
<1> SUFFICES ASSUME CacheInv, [CacheNext]_cacheVars PROVE CacheInv'
    OBVIOUS
<1>1. CASE UNCHANGED cacheVars
    BY <1>1 DEF cacheVars, rowVars, CacheInv, CacheTypeOK, CacheStaleOnlyIfRaced, Current, RowsOf,
                DeletionUnderWay, invalidateCache
<1>2. CASE CacheNext
    BY <1>2, ReaderStep, SetexKeeps, SavingKeeps, SaveKeeps, ScanKeeps, DelKeeps, FaultKeeps,
       RestartKeeps DEF CacheNext
<1> QED
    BY <1>1, <1>2

\* The state of the catalogue and of its cache is of its type.
THEOREM CacheTypes == CacheSpec => []CacheTypeOK
<1>1. CacheInv => CacheTypeOK
    BY DEF CacheInv
<1> QED
    BY <1>1, CacheInvInit, CacheInvStep, PTL DEF CacheSpec

\* Whatever reads and writes cross and however often Redis fails, what is cached of a
\* row is the row, unless a read that a write overtook put it there, or a deletion of
\* it was lost.
THEOREM StaleOnlyIfRaced == CacheSpec => []CacheStaleOnlyIfRaced
<1>1. CacheInv => CacheStaleOnlyIfRaced
    BY DEF CacheInv
<1> QED
    BY <1>1, CacheInvInit, CacheInvStep, PTL DEF CacheSpec

-------------------------------------------------------------------------------
(* The shops' rows.                                                        *)
LEMMA NoShopType == NoShop \in Shop
    BY DEF NoShop, Shop

LEMMA IdleEditorType == IdleEditor \in EditorStep
    BY NoShopType, DirectoryAssumption DEF DirectoryAssumption, IdleEditor, EditorStep, SaveOf, Save

LEMMA IdleRunType == IdleStatusRun \in StatusRunStep
    BY DEF IdleStatusRun, StatusRunStep

\* What a save writes is a row, whatever columns it takes from where.
LEMMA StoredType ==
    ASSUME DirectoryTypeOK, NEW c \in Save
    PROVE  Stored(c) \in [Shops -> Shop]
<1>1. c.shop \in Shops /\ c.row \in Shop /\ c.found \in Shop /\ shop[c.shop] \in Shop
      /\ shop \in [Shops -> Shop]
    BY DEF DirectoryTypeOK, Save
<1>2. Written(c.row, c.found, shop[c.shop]) \in Shop
    BY <1>1 DEF Written, Shop
<1> QED
    BY <1>1, <1>2 DEF Stored

LEMMA DirectoryTypeInit == DirectoryInit => DirectoryTypeOK
<1> SUFFICES ASSUME DirectoryInit PROVE DirectoryTypeOK
    OBVIOUS
<1>1. PICK h \in {"day", "-"}, a \in {"null", "closed"} :
         shop = [s \in Shops |->
                   IF s \in everMade
                   THEN [NoShop EXCEPT !.exists = TRUE, !.owned = TRUE, !.hours = h, !.auto_status = a]
                   ELSE NoShop]
    BY DEF DirectoryInit
<1>2. [NoShop EXCEPT !.exists = TRUE, !.owned = TRUE, !.hours = h, !.auto_status = a] \in Shop
    BY DEF NoShop, Shop
<1>3. shop \in [Shops -> Shop]
    BY <1>1, <1>2, NoShopType
<1>4. editor \in [Editors -> EditorStep] /\ statusRun \in [StatusRuns -> StatusRunStep]
    BY IdleRunType, IdleEditorType DEF DirectoryInit
<1> QED
    BY <1>3, <1>4, DirectoryAssumption DEF DirectoryInit, DirectoryTypeOK, DirectoryAssumption

LEMMA CanSave ==
    ASSUME DirectoryTypeOK, NEW e \in Editors, NEW s \in Shops, NEW row \in Shop, WillSave(e, s, row)
    PROVE  DirectoryTypeOK'
<1>1. [IdleEditor EXCEPT !.step = "save", !.saving = SaveOf(s, row, NoShop)] \in EditorStep
    BY IdleEditorType, NoShopType DEF EditorStep, SaveOf, Save
<1>2. editor' \in [Editors -> EditorStep]
    BY <1>1 DEF DirectoryTypeOK, WillSave
<1> QED
    BY <1>2, DirectoryAssumption DEF DirectoryTypeOK, WillSave, DirectoryAssumption

LEMMA RequestType ==
    ASSUME DirectoryTypeOK, NEW e \in Editors, Request(e)
    PROVE  DirectoryTypeOK'
<1> USE DirectoryAssumption DEF DirectoryAssumption
<1>1. \A s \in Shops : shop[s] \in Shop
    BY DEF DirectoryTypeOK
<1>2. editor[e] \in EditorStep
    BY DEF DirectoryTypeOK
<1>3. ASSUME NEW s \in Shops, createShop(e, s) PROVE DirectoryTypeOK'
  <2>1. \A owned \in BOOLEAN :
           [NoShop EXCEPT !.exists = TRUE, !.owned = owned, !.hours = "day"] \in Shop
      BY DEF NoShop, Shop
  <2>2. \A next \in {"idle", "enroller"} : [editor[e] EXCEPT !.step = next] \in EditorStep
      BY <1>2 DEF EditorStep
  <2>3. shop' \in [Shops -> Shop]
      BY <1>3, <2>1 DEF createShop, DirectoryTypeOK
  <2>4. editor' \in [Editors -> EditorStep]
      BY <1>3, <2>2 DEF createShop, DirectoryTypeOK
  <2> QED
      BY <1>3, <2>3, <2>4 DEF createShop, DirectoryTypeOK
<1>4. ASSUME NEW s \in Shops,
             updateShop(e, s) \/ toggleActive(e, s) \/ updateStatus(e, s)
                \/ toggleVerification(e, s) \/ updateShopToken(e, s)
      PROVE  DirectoryTypeOK'
  <2>1. /\ \A h \in {"none", "day", "-"}, a \in BOOLEAN :
              [shop[s] EXCEPT !.hours = h, !.active = a] \in Shop
        /\ \A owned \in BOOLEAN : [shop[s] EXCEPT !.owned = owned] \in Shop
        /\ [shop[s] EXCEPT !.active = ~shop[s].active] \in Shop
        /\ \A status \in {"ouvert", "free", "closed"} : [shop[s] EXCEPT !.status = status] \in Shop
      BY <1>1 DEF Shop
  <2> QED
      BY <1>1, <1>4, <2>1, CanSave DEF updateShop, toggleActive, updateStatus, toggleVerification, updateShopToken
<1>5. CASE readEnroller(e)
  <2>1. [editor[e] EXCEPT !.step = "points", !.points = points] \in EditorStep
      BY <1>2 DEF EditorStep, DirectoryTypeOK
  <2>2. editor' \in [Editors -> EditorStep]
      BY <1>5, <2>1 DEF readEnroller, DirectoryTypeOK
  <2> QED
      BY <1>5, <2>2 DEF readEnroller, DirectoryTypeOK
<1>6. CASE saveEnroller(e)
  <2>1. points' \in Nat
      BY <1>2, <1>6 DEF saveEnroller, EditorStep
  <2>2. editor' \in [Editors -> EditorStep]
      BY <1>6, IdleEditorType DEF saveEnroller, DirectoryTypeOK
  <2> QED
      BY <1>6, <2>1, <2>2 DEF saveEnroller, DirectoryTypeOK
<1>7. CASE saveShop(e)
  <2> DEFINE c == editor[e].saving
             new == [editor[e] EXCEPT !.step = "update", !.saving = [c EXCEPT !.found = shop[c.shop]]]
  <2>1. [c EXCEPT !.found = shop[c.shop]] \in Save
      BY <1>1, <1>2 DEF EditorStep, Save
  <2>2. new \in EditorStep
      BY <1>2, <2>1 DEF EditorStep
  <2>3. editor' = [editor EXCEPT ![e] = new]
      BY <1>2, <1>7 DEF saveShop, DirectoryTypeOK, EditorStep
  <2> HIDE DEF new
  <2>4. editor' \in [Editors -> EditorStep]
      BY <2>2, <2>3 DEF DirectoryTypeOK
  <2> QED
      BY <1>7, <2>4 DEF saveShop, DirectoryTypeOK
<1>8. CASE writeShop(e)
  <2>1. shop' \in [Shops -> Shop]
      BY <1>2, <1>8, StoredType DEF writeShop, EditorStep
  <2>2. editor' \in [Editors -> EditorStep]
      BY <1>8, IdleEditorType DEF writeShop, DirectoryTypeOK
  <2> QED
      BY <1>8, <2>1, <2>2 DEF writeShop, DirectoryTypeOK
<1> QED
    BY <1>3, <1>4, <1>5, <1>6, <1>7, <1>8 DEF Request

LEMMA VisitType ==
    ASSUME DirectoryTypeOK, NEW s \in Shops, recordVisit(s) \/ removeShop(s)
    PROVE  DirectoryTypeOK'
<1>1. [shop[s] EXCEPT !.views = shop[s].views + 1] \in Shop
    BY DEF DirectoryTypeOK, Shop
<1>2. shop' \in [Shops -> Shop]
    BY <1>1, NoShopType DEF DirectoryTypeOK, recordVisit, removeShop
<1> QED
    BY <1>2, DirectoryAssumption DEF DirectoryTypeOK, recordVisit, removeShop, DirectoryAssumption

\* A run saves a row of the same type.
LEMMA RecordType ==
    ASSUME NEW row \in Shop
    PROVE  record(row) \subseteq Shop
<1>1. computeEffectiveStatus(row) \in {"open", "closed"}
    BY DEF computeEffectiveStatus
<1>2. [row EXCEPT !.auto_status = computeEffectiveStatus(row)] \in Shop
    BY <1>1 DEF Shop
<1> QED
    BY <1>2 DEF record

LEMMA StatusRunType ==
    ASSUME DirectoryTypeOK, NEW j \in StatusRuns, StatusRun(j) \/ abortStatusRun(j)
    PROVE  DirectoryTypeOK'
<1>1. statusRun[j] \in StatusRunStep
    BY DEF DirectoryTypeOK
<1>2. CASE checkShopStatuses(j)
  <2> DEFINE C == {[shop |-> s, row |-> shop[s]] : s \in {x \in Shops : shop[x].exists /\ shop[x].active}}
  <2>1. C \in SUBSET Copy
      BY DEF DirectoryTypeOK, Copy
  <2>2. [running |-> TRUE, saving |-> {}, copies |-> C] \in StatusRunStep
      BY <2>1 DEF StatusRunStep
  <2>3. statusRun' \in [StatusRuns -> StatusRunStep]
      BY <1>2, <2>2 DEF checkShopStatuses, DirectoryTypeOK
  <2> QED
      BY <1>2, <2>3 DEF checkShopStatuses, DirectoryTypeOK
<1>3. ASSUME NEW c \in statusRun[j].copies, checkShop(j, c) PROVE DirectoryTypeOK'
  <2> DEFINE saving == {SaveOf(c.shop, row, shop[c.shop]) : row \in record(c.row)}
  <2>1. c.shop \in Shops /\ c.row \in Shop /\ shop[c.shop] \in Shop
      BY <1>1 DEF StatusRunStep, Copy, DirectoryTypeOK
  <2>2. saving \in SUBSET Save
      BY <2>1, RecordType DEF SaveOf, Save
  <2> HIDE DEF saving
  <2>3. [statusRun[j] EXCEPT !.copies = statusRun[j].copies \ {c}, !.saving = saving] \in StatusRunStep
      BY <1>1, <2>2 DEF StatusRunStep
  <2>4. statusRun' \in [StatusRuns -> StatusRunStep]
      BY <1>3, <2>3 DEF checkShop, DirectoryTypeOK, saving
  <2> QED
      BY <1>3, <2>4 DEF checkShop, DirectoryTypeOK
<1>4. ASSUME NEW c \in statusRun[j].saving, writeStatus(j, c) PROVE DirectoryTypeOK'
  <2>1. shop' \in [Shops -> Shop]
      BY <1>1, <1>4, StoredType DEF writeStatus, StatusRunStep
  <2>2. [statusRun[j] EXCEPT !.saving = {}] \in StatusRunStep
      BY <1>1 DEF StatusRunStep
  <2>3. statusRun' \in [StatusRuns -> StatusRunStep]
      BY <1>4, <2>2, IdleRunType DEF writeStatus, DirectoryTypeOK
  <2> QED
      BY <1>4, <2>1, <2>3 DEF writeStatus, DirectoryTypeOK
<1>5. CASE endStatusRun(j) \/ abortStatusRun(j)
  <2>1. [statusRun[j] EXCEPT !.running = FALSE] \in StatusRunStep
      BY <1>1 DEF StatusRunStep
  <2>2. statusRun' \in [StatusRuns -> StatusRunStep]
      BY <1>5, <2>1, IdleRunType DEF endStatusRun, abortStatusRun, DirectoryTypeOK
  <2> QED
      BY <1>5, <2>2, DirectoryAssumption
      DEF endStatusRun, abortStatusRun, DirectoryTypeOK, DirectoryAssumption
<1> QED
    BY <1>2, <1>3, <1>4, <1>5 DEF StatusRun

LEMMA DirectoryTypeStep == DirectoryTypeOK /\ [DirectoryNext]_directoryVars => DirectoryTypeOK'
<1> SUFFICES ASSUME DirectoryTypeOK, [DirectoryNext]_directoryVars PROVE DirectoryTypeOK'
    OBVIOUS
<1>1. CASE turnOfHours
    BY <1>1, DirectoryAssumption DEF turnOfHours, DirectoryTypeOK, DirectoryAssumption
<1>2. CASE UNCHANGED directoryVars
    BY <1>2 DEF directoryVars, DirectoryTypeOK
<1> QED
    BY <1>1, <1>2, RequestType, VisitType, StatusRunType DEF DirectoryNext

\* However requests, runs of the job and saves of old copies cross, a row keeps a status
\* and hours that the job can tell the next status from.
THEOREM DirectoryTypes == DirectorySpec => []DirectoryTypeOK
    BY DirectoryTypeInit, DirectoryTypeStep, PTL DEF DirectorySpec

-------------------------------------------------------------------------------
(* The three of them, one of which a behaviour of the runs is about.       *)
LEMMA StepOfEach ==
    [MCNext]_allVars => /\ [RemindersNext]_remindersVars
                        /\ [DirectoryNext]_directoryVars
                        /\ [CacheNext]_cacheVars
    BY DEF MCNext, allVars

\* The parts share no state: each keeps to its type beside the other two.
THEOREM BackgroundTypes == MCSpec => []TypeOK
<1>1. MCInit => RemindersInit /\ DirectoryInit /\ CacheInit
    BY DEF MCInit
<1>2. RemindersTypeOK /\ DirectoryTypeOK /\ CacheInv => TypeOK
    BY DEF TypeOK, CacheInv
<1> QED
    BY <1>1, <1>2, StepOfEach, RunsTypeInit, TypeStep, DirectoryTypeInit, DirectoryTypeStep,
       CacheInvInit, CacheInvStep, PTL
    DEF MCSpec

\* So does each to what it promises: nobody is told twice or too late, and nothing stale
\* is cached that no write overtook.
THEOREM BackgroundPromises == MCSpec => [](RemindedOnce /\ RemindedInTime /\ CacheStaleOnlyIfRaced)
<1>1. MCInit => RemindersInit /\ CacheInit
    BY DEF MCInit
<1>2. OnceInv /\ TimeInv /\ CacheInv => RemindedOnce /\ RemindedInTime /\ CacheStaleOnlyIfRaced
    BY DEF OnceInv, ToldOnce, RemindedOnce, TimeInv, SeenInTime, Seen, RemindedInTime, Notice, CacheInv
<1> QED
    BY <1>1, <1>2, OnceInit, TimeInit, StepOfEach, RunsTypeInit, TypeStep, OnceStep, TimeStep, CacheInvInit,
       CacheInvStep, PTL
    DEF MCSpec
===============================================================================
