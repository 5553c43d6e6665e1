---------------------------- MODULE WorkerRelease ----------------------------
(***************************************************************************)
(* The booking lifecycle together with the job that frees workers left     *)
(* 'occupe' by a service nobody checked out of.  The job takes no lock: it *)
(* reads the busy workers, then their services, then frees the rest.       *)
(***************************************************************************)
EXTENDS BookingLifecycle

CONSTANT STALE_IN_SERVICE_GRACE     \* STALE_IN_SERVICE_GRACE_MINUTES

VARIABLE sweep  \* the job: how far it is, and the workers it is about

Phase == {"idle", "busyRead", "staleRead"}
NoSweep == [phase |-> "idle", ids |-> {}]

Later(m, n) == IF m < n THEN n ELSE m

\* The scheduled end, or a late client's full time.
ExpectedServiceEnd(r) ==
    IF r.end = 0 THEN r.slot
    ELSE IF r.inAt = 0 THEN r.end
    ELSE Later(r.end, (r.inAt - 1) + Later(0, r.end - r.slot))

Live(b) ==
    /\ row[b].status = "IN_SERVICE"
    /\ now <= ExpectedServiceEnd(row[b]) + STALE_IN_SERVICE_GRACE

Serving(w) == \E b \in Bookings : WorkerOf[b] = w /\ Live(b)

readBusyWorkers ==
    /\ sweep.phase = "idle"
    /\ \E w \in Workers : worker[w]
    /\ sweep' = [phase |-> "busyRead", ids |-> {w \in Workers : worker[w]}]
    /\ UNCHANGED vars

\* Mutated form: the job goes on though nobody is stale.
readServicesGoOn ==
    /\ sweep.phase = "busyRead"
    /\ sweep' = [phase |-> "staleRead", ids |-> {w \in sweep.ids : ~Serving(w)}]
    /\ UNCHANGED vars

\* Mutated form: a service in progress keeps its worker however long it lasts.
readServicesOfAnyAge ==
    LET stale == {w \in sweep.ids :
                    ~\E b \in Bookings : WorkerOf[b] = w /\ row[b].status = "IN_SERVICE"} IN
    /\ sweep.phase = "busyRead"
    /\ sweep' = IF stale = {} THEN NoSweep ELSE [phase |-> "staleRead", ids |-> stale]
    /\ UNCHANGED vars

readServices ==
    LET stale == {w \in sweep.ids : ~Serving(w)} IN
    /\ sweep.phase = "busyRead"
    /\ sweep' = IF stale = {} THEN NoSweep ELSE [phase |-> "staleRead", ids |-> stale]
    /\ UNCHANGED vars

freeStaleWorkers ==
    /\ sweep.phase = "staleRead"
    /\ worker' = [w \in Workers |-> worker[w] /\ w \notin sweep.ids]
    /\ sweep' = NoSweep
    /\ UNCHANGED <<row, paymentVars, now, minted, used, finished, ops, payoutVars, faults>>

allVars == <<vars, sweep>>

ReleaseInit == Init /\ sweep = NoSweep

releaseStaleBusyWorkers == readBusyWorkers \/ readServices \/ freeStaleWorkers

ReleaseNext ==
    \/ Run /\ UNCHANGED sweep
    \/ crash /\ sweep' = NoSweep
    \/ releaseStaleBusyWorkers

ReleaseSpec == ReleaseInit /\ [][ReleaseNext]_allVars

\* The clock and the cron job run; each step of the job follows the last.
ReleaseFairSpec ==
    ReleaseSpec /\ WF_allVars(tick /\ UNCHANGED sweep) /\ WF_allVars(releaseStaleBusyWorkers)

\* The job's state; it carries ids exactly while it runs, so that neither query nor
\* the UPDATE is ever made for an empty list.
SweepTypeOK ==
    /\ sweep \in [phase : Phase, ids : SUBSET Workers]
    /\ sweep.phase = "idle" <=> sweep.ids = {}

\* "the worker would stay 'occupe' forever": a busy worker without a live service
\* is freed, or has begun another service, even if nobody ever checks out.
BusyWorkerIsFreed ==
    \A w \in Workers : (worker[w] /\ ~Serving(w)) ~> (~worker[w] \/ Serving(w))
==============================================================================
