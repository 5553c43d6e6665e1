------------------------------ MODULE ShopDirectory ------------------------------
(***************************************************************************)
(* The rows of the shops and the job that opens and closes them.  Every    *)
(* handler but the visit and the removal reads a row, changes its copy     *)
(* and saves it.  A save first looks for the row, then writes the columns  *)
(* in which the copy differs from what it found; a row that was not there  *)
(* is inserted anew.  The job does so for copies it read when its run      *)
(* began.  Its lock keeps two instances from the same tick, but not a run  *)
(* from the one after it.                                                  *)
(***************************************************************************)
EXTENDS Integers

CONSTANTS
    Shops,
    Editors,            \* bound: requests under way
    StatusRuns,         \* bound: runs of the job that overlap
    GradePoints,        \* what an enroller earns with a shop
    MaxEdits,           \* bound: requests
    MaxTurns,           \* bound: times at which the shops' hours begin or end
    MaxAborts           \* bound: runs of the job that fail

ASSUME DirectoryAssumption ==
    /\ Shops # {}
    /\ GradePoints \in Nat /\ MaxEdits \in Nat /\ MaxTurns \in Nat /\ MaxAborts \in Nat

\* hours: "none" stands for all that is open whatever the time, "-" for a day off.
Shop == [exists : BOOLEAN, owned : BOOLEAN, active : BOOLEAN,
         status : {"ouvert", "free", "closed"},
         hours : {"none", "day", "-"},
         auto_status : {"null", "open", "closed"},
         views : Nat]
NoShop == [exists |-> FALSE, owned |-> FALSE, active |-> TRUE, status |-> "ouvert",
           hours |-> "none", auto_status |-> "null", views |-> 0]

Copy == [shop : Shops, row : Shop]
Save == [shop : Shops, row : Shop, found : Shop]
EditorStep == [step : {"idle", "save", "update", "enroller", "points"}, saving : Save, points : Nat]
StatusRunStep == [running : BOOLEAN, copies : SUBSET Copy, saving : SUBSET Save]

VARIABLES
    shop,
    everMade,       \* ids are not used again
    points,         \* of the enroller who registers the shops
    editor,
    statusRun,      \* the copies a run has still to look at
    daytime,        \* the clock is within the hours of a day
    edits, turns, aborts

directoryVars == <<shop, everMade, points, editor, statusRun, daytime, edits, turns, aborts>>

DirectoryTypeOK ==
    /\ shop \in [Shops -> Shop]
    /\ everMade \subseteq Shops
    /\ points \in Nat
    /\ editor \in [Editors -> EditorStep]
    /\ statusRun \in [StatusRuns -> StatusRunStep]
    /\ daytime \in BOOLEAN
    /\ edits \in 0..MaxEdits /\ turns \in 0..MaxTurns /\ aborts \in 0..MaxAborts

SaveOf(s, row, found) == [shop |-> s, row |-> row, found |-> found]
IdleEditor == [step |-> "idle", saving |-> SaveOf(CHOOSE s \in Shops : TRUE, NoShop, NoShop), points |-> 0]
IdleStatusRun == [running |-> FALSE, copies |-> {}, saving |-> {}]

DirectoryInit ==
    /\ everMade \in SUBSET Shops
    /\ \E h \in {"day", "-"}, a \in {"null", "closed"} :
          shop = [s \in Shops |->
                    IF s \in everMade
                    THEN [NoShop EXCEPT !.exists = TRUE, !.owned = TRUE, !.hours = h, !.auto_status = a]
                    ELSE NoShop]
    /\ points = 0
    /\ editor = [e \in Editors |-> IdleEditor]
    /\ statusRun = [j \in StatusRuns |-> IdleStatusRun]
    /\ daytime \in BOOLEAN
    /\ edits = 0 /\ turns = 0 /\ aborts = 0

-------------------------------------------------------------------------------
computeEffectiveStatus(row) ==
    IF \/ row.status = "closed"
       \/ row.hours = "-"
       \/ row.hours = "day" /\ ~daytime
    THEN "closed"
    ELSE "open"

\* The job leaves the others to those who set their status.
Automatic(row) == row.status = "ouvert"

-------------------------------------------------------------------------------
(* How a row is saved.                                                     *)

\* The columns in which the copy differs from the row that was found.
Written(row, found, present) ==
    LET Column(copy, old, new) == IF copy # old THEN copy ELSE new IN
    [exists |-> TRUE,
     owned |-> Column(row.owned, found.owned, present.owned),
     active |-> Column(row.active, found.active, present.active),
     status |-> Column(row.status, found.status, present.status),
     hours |-> Column(row.hours, found.hours, present.hours),
     auto_status |-> Column(row.auto_status, found.auto_status, present.auto_status),
     views |-> Column(row.views, found.views, present.views)]

\* The id that a save would insert has been inserted since.
Taken(c) == ~c.found.exists /\ shop[c.shop].exists

\* UPDATE, which touches no row if it has gone since, or INSERT.
Stored(c) ==
    IF c.found.exists # shop[c.shop].exists THEN shop
    ELSE [shop EXCEPT ![c.shop] = IF c.found.exists THEN Written(c.row, c.found, @) ELSE c.row]

-------------------------------------------------------------------------------
(* Requests.                                                               *)

\* A request read the row of s and will save the changed copy.
WillSave(e, s, row) ==
    /\ editor[e].step = "idle"
    /\ edits < MaxEdits
    /\ edits' = edits + 1
    /\ shop[s].exists
    /\ editor' = [editor EXCEPT ![e] = [IdleEditor EXCEPT !.step = "save", !.saving = SaveOf(s, row, NoShop)]]
    /\ UNCHANGED <<shop, everMade, points, statusRun, daytime, turns, aborts>>

\* The wallet of the new shop is the one that its first credit would make.
createShop(e, s) ==
    /\ editor[e].step = "idle"
    /\ edits < MaxEdits
    /\ edits' = edits + 1
    /\ s \notin everMade
    /\ everMade' = everMade \union {s}
    /\ \E owned \in BOOLEAN :
          shop' = [shop EXCEPT ![s] = [NoShop EXCEPT !.exists = TRUE, !.owned = owned, !.hours = "day"]]
    /\ \E next \in {"idle", "enroller"} : editor' = [editor EXCEPT ![e].step = next]
    /\ UNCHANGED <<points, statusRun, daytime, turns, aborts>>

readEnroller(e) ==
    /\ editor[e].step = "enroller"
    /\ editor' = [editor EXCEPT ![e].step = "points", ![e].points = points]
    /\ UNCHANGED <<shop, everMade, points, statusRun, daytime, edits, turns, aborts>>

saveEnroller(e) ==
    /\ editor[e].step = "points"
    /\ points' = editor[e].points + GradePoints
    /\ editor' = [editor EXCEPT ![e] = IdleEditor]
    /\ UNCHANGED <<shop, everMade, statusRun, daytime, edits, turns, aborts>>

updateShop(e, s) ==
    \/ \E h \in {"none", "day", "-"}, a \in BOOLEAN :
          WillSave(e, s, [shop[s] EXCEPT !.hours = h, !.active = a])
    \/ \E owned \in BOOLEAN : WillSave(e, s, [shop[s] EXCEPT !.owned = owned])

toggleActive(e, s) == WillSave(e, s, [shop[s] EXCEPT !.active = ~@])

updateStatus(e, s) ==
    /\ shop[s].owned
    /\ \E status \in {"ouvert", "free", "closed"} : WillSave(e, s, [shop[s] EXCEPT !.status = status])

\* The mark and the token are in no property: what is saved is the copy as it was.
toggleVerification(e, s) == WillSave(e, s, shop[s])

updateShopToken(e, s) == shop[s].owned /\ WillSave(e, s, shop[s])

saveShop(e) ==
    /\ editor[e].step = "save"
    /\ editor' = [editor EXCEPT ![e].step = "update", ![e].saving.found = shop[editor[e].saving.shop]]
    /\ UNCHANGED <<shop, everMade, points, statusRun, daytime, edits, turns, aborts>>

\* A row that is inserted twice fails the second request.
writeShop(e) ==
    /\ editor[e].step = "update"
    /\ shop' = Stored(editor[e].saving)
    /\ editor' = [editor EXCEPT ![e] = IdleEditor]
    /\ UNCHANGED <<everMade, points, statusRun, daytime, edits, turns, aborts>>

recordVisit(s) ==
    /\ edits < MaxEdits
    /\ edits' = edits + 1
    /\ shop[s].exists
    /\ shop' = [shop EXCEPT ![s].views = @ + 1]
    /\ UNCHANGED <<everMade, points, editor, statusRun, daytime, turns, aborts>>

removeShop(s) ==
    /\ edits < MaxEdits
    /\ edits' = edits + 1
    /\ shop[s].exists
    /\ shop' = [shop EXCEPT ![s] = NoShop]
    /\ UNCHANGED <<everMade, points, editor, statusRun, daytime, turns, aborts>>

-------------------------------------------------------------------------------
(* The job.                                                                *)

checkShopStatuses(j) ==
    /\ ~statusRun[j].running
    /\ statusRun' = [statusRun EXCEPT ![j] =
          [running |-> TRUE, saving |-> {},
           copies |-> {[shop |-> s, row |-> shop[s]] : s \in {x \in Shops : shop[x].exists /\ shop[x].active}}]]
    /\ UNCHANGED <<shop, everMade, points, editor, daytime, edits, turns, aborts>>

\* Mutated form: a shop is opened, and never closed again.
recordNeverCloses(row) ==
    IF Automatic(row) /\ row.auto_status # "open" /\ computeEffectiveStatus(row) = "open"
    THEN {[row EXCEPT !.auto_status = "open"]}
    ELSE {}

\* Mutated form: what is recorded is the status that the provider chose.
recordStatus(row) ==
    IF Automatic(row) /\ row.auto_status # computeEffectiveStatus(row)
    THEN {[row EXCEPT !.auto_status = row.status]}
    ELSE {}

\* What a run saves of a copy: its status, if it is not the recorded one.
record(row) ==
    IF Automatic(row) /\ row.auto_status # computeEffectiveStatus(row)
    THEN {[row EXCEPT !.auto_status = computeEffectiveStatus(row)]}
    ELSE {}

\* The next copy; the owner's mail goes out before the one after it.
checkShop(j, c) ==
    /\ statusRun[j].saving = {}
    /\ c \in statusRun[j].copies
    /\ statusRun' = [statusRun EXCEPT ![j].copies = @ \ {c},
                                      ![j].saving = {SaveOf(c.shop, row, shop[c.shop]) : row \in record(c.row)}]
    /\ UNCHANGED <<shop, everMade, points, editor, daytime, edits, turns, aborts>>

\* A row that is inserted twice ends the run.
writeStatus(j, c) ==
    /\ c \in statusRun[j].saving
    /\ shop' = Stored(c)
    /\ statusRun' = [statusRun EXCEPT ![j] = IF Taken(c) THEN IdleStatusRun ELSE [@ EXCEPT !.saving = {}]]
    /\ UNCHANGED <<everMade, points, editor, daytime, edits, turns, aborts>>

endStatusRun(j) ==
    /\ statusRun[j].running
    /\ statusRun[j].copies = {} /\ statusRun[j].saving = {}
    /\ statusRun' = [statusRun EXCEPT ![j].running = FALSE]
    /\ UNCHANGED <<shop, everMade, points, editor, daytime, edits, turns, aborts>>

\* A save fails, or the instance restarts: the other shops wait for the next tick.
abortStatusRun(j) ==
    /\ statusRun[j].running
    /\ aborts < MaxAborts
    /\ aborts' = aborts + 1
    /\ statusRun' = [statusRun EXCEPT ![j] = IdleStatusRun]
    /\ UNCHANGED <<shop, everMade, points, editor, daytime, edits, turns>>

turnOfHours ==
    /\ turns < MaxTurns
    /\ turns' = turns + 1
    /\ daytime' = ~daytime
    /\ UNCHANGED <<shop, everMade, points, editor, statusRun, edits, aborts>>

-------------------------------------------------------------------------------
Request(e) ==
    \/ \E s \in Shops :
          createShop(e, s) \/ updateShop(e, s) \/ toggleActive(e, s) \/ updateStatus(e, s)
             \/ toggleVerification(e, s) \/ updateShopToken(e, s)
    \/ readEnroller(e) \/ saveEnroller(e) \/ saveShop(e) \/ writeShop(e)

StatusRun(j) ==
    \/ checkShopStatuses(j)
    \/ \E c \in statusRun[j].copies : checkShop(j, c)
    \/ \E c \in statusRun[j].saving : writeStatus(j, c)
    \/ endStatusRun(j)

DirectoryNext ==
    \/ \E e \in Editors : Request(e)
    \/ \E s \in Shops : recordVisit(s) \/ removeShop(s)
    \/ \E j \in StatusRuns : StatusRun(j) \/ abortStatusRun(j)
    \/ turnOfHours

\* What has been awaited goes on; ticks come, and their runs go through the list.
DirectoryFairness ==
    /\ \A e \in Editors : WF_directoryVars(saveShop(e) \/ writeShop(e) \/ readEnroller(e) \/ saveEnroller(e))
    /\ \A j \in StatusRuns : WF_directoryVars(StatusRun(j))

DirectorySpec == DirectoryInit /\ [][DirectoryNext]_directoryVars /\ DirectoryFairness

-------------------------------------------------------------------------------
(* Properties.                                                             *)

\* The recorded status of a visible shop that leaves it to its hours is the one that
\* they give.
Settled(s) ==
    shop[s].exists /\ shop[s].active /\ Automatic(shop[s]) =>
        shop[s].auto_status = computeEffectiveStatus(shop[s])

\* When the requests and the clock leave a shop alone, its recorded status comes to be
\* right and stays so, whatever saves of old copies by requests, by a run and by the
\* run after it have crossed, and whichever runs failed half-way.
AutoSettles == \A s \in Shops : <>[]Settled(s)
===============================================================================
