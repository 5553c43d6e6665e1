------------------------------ MODULE MCBackground ------------------------------
(* What runs behind the bookings: the reminders, the shops' rows with the  *)
(* job that opens and closes them, and the cached catalogue.  They share   *)
(* nothing but Redis, so a behaviour is about one of them.                 *)
EXTENDS Reminders, ShopDirectory, CatalogueCache

VARIABLE topic      \* bound: the part that a behaviour is about

MCHouseOf == [o \in Offers |-> CHOOSE h \in Houses : TRUE]

RunRank == CHOOSE f \in [Runs -> 1..Cardinality(Runs)] : \A r, q \in Runs : f[r] = f[q] => r = q

allVars == <<remindersVars, directoryVars, cacheVars, topic>>

MCInit ==
    /\ RemindersInit
    /\ DirectoryInit
    /\ CacheInit
    /\ \/ topic = "shops" /\ \A s \in Shops : shop[s].hours # "-"
       \/ /\ topic \in {"reminders", "offers", "categories"}
          /\ everMade = {} /\ daytime
    /\ topic # "offers" => \A o \in Offers : offer[o] = 1

\* A behaviour writes services, or the category they are enriched with.
CacheTopic ==
    \/ /\ topic = "offers"
       /\ \A w \in Writers : writer'[w].target # "category"
       /\ \A r \in Readers : reader'[r].key \in OfferKeys
    \/ topic = "categories" /\ \A w \in Writers : writer'[w].target \notin Offers

\* No write tells keys of the same kind apart: one at a time is read or cached.
OneKey ==
    \A k, l \in Keys : cached'[k] # Nothing /\ k # l =>
        cached'[l] = Nothing /\ \A r \in Readers : reader'[r].step = "idle" \/ reader'[r].key = k

\* Runs are alike: the one that begins is the first that is idle.
FirstIdle ==
    \A r \in Runs : \A q \in Runs :
        RunStep(r, "idle") /\ run'[r].step # "idle" /\ RunStep(q, "idle") => RunRank[r] <= RunRank[q]

\* Instances are alike while none has a run.
FirstInstance ==
    (\A r \in Runs : RunStep(r, "idle")) /\ fired = {} =>
        fired' \in {{}, {CHOOSE i \in Instances : TRUE}}

\* A booking is made at the start, and moves or ends between two reminders.
ChangedBetween ==
    appointment' # appointment =>
        \/ now = 0 /\ \A b \in Appointments : appointment[b].status = "none"
        \/ now = 3 /\ \A b \in Appointments : appointment[b].since < now

\* What ticks after the last reminder is left out.
QuietEnd == now = LastMinute => fired' = {}

\* After one request comes at most one that makes or removes a row, or a run that fails.
OneSave ==
    /\ edits' > edits /\ edits > 0 => \E s \in Shops : shop'[s].exists # shop[s].exists
    /\ edits' + aborts' <= 2

MCNext ==
    /\ UNCHANGED topic
    /\ \/ topic = "reminders" /\ RemindersNext /\ FirstIdle /\ FirstInstance /\ ChangedBetween /\ QuietEnd
          /\ UNCHANGED <<directoryVars, cacheVars>>
       \/ topic = "shops" /\ DirectoryNext /\ OneSave /\ UNCHANGED <<remindersVars, cacheVars>>
       \/ CacheNext /\ CacheTopic /\ OneKey /\ UNCHANGED <<remindersVars, directoryVars>>

\* The fairness of ShopDirectory, for the behaviours about it.
MCFairness ==
    /\ \A e \in Editors :
          WF_allVars(topic = "shops" /\ (saveShop(e) \/ writeShop(e) \/ readEnroller(e) \/ saveEnroller(e))
                        /\ UNCHANGED <<remindersVars, cacheVars, topic>>)
    /\ \A j \in StatusRuns :
          WF_allVars(topic = "shops" /\ StatusRun(j) /\ UNCHANGED <<remindersVars, cacheVars, topic>>)

MCSpec == MCInit /\ [][MCNext]_allVars /\ MCFairness

(* The state of each part is of its type. *)
TypeOK == RemindersTypeOK /\ DirectoryTypeOK /\ CacheTypeOK
===============================================================================
