------------------------------ MODULE CatalogueCache ------------------------------
(***************************************************************************)
(* The cached reads of the services and of their categories.  A read that  *)
(* is not in Redis goes to the database and is stored for the next ones; a *)
(* write saves its row, then deletes what is cached of its kind.  Reads    *)
(* and writes of several instances cross, and Redis may not answer.        *)
(*                                                                         *)
(* A row is the number of its version, 0 before it is made.  What services *)
(* are enriched with (the names of categories, the shop) is one row,       *)
(* category.                                                               *)
(***************************************************************************)
EXTENDS Integers, FiniteSets

CONSTANTS
    Offers,             \* the services' ids
    Houses,             \* the shops' ids
    HouseOf,
    Readers, Writers,   \* bound: calls under way
    MaxVersions,        \* bound: versions of a row
    MaxRedisFaults      \* bound: changes of Redis' state, restarts, keys that expire

ASSUME CacheAssumption ==
    /\ HouseOf \in [Offers -> Houses]
    /\ {"category", "none"} \intersect Offers = {}
    /\ MaxVersions \in Nat \ {0} /\ MaxRedisFaults \in Nat

OfferKeys == ({"one"} \X Offers) \union ({"house"} \X Houses) \union {<<"all", "offers">>}
CategoryKeys == {<<"cat", "all">>}
Keys == OfferKeys \union CategoryKeys

OffersOf(k) == {o \in Offers : k = <<"one", o>> \/ k = <<"house", HouseOf[o]>> \/ k = <<"all", "offers">>}

Version == 0..MaxVersions
Row == [Offers -> Version]
\* What a key holds: of the rows that are not its own it says nothing (-1).
Entry == [rows : [Offers -> -1..MaxVersions], names : -1..MaxVersions]
Nothing == [rows |-> [o \in Offers |-> -1], names |-> -1]

VARIABLES
    offer, category,    \* the rows
    gone,               \* services that are not there
    cached,             \* Redis
    redisUp,
    reader, writer,
    raced,              \* history: keys stored by a read that a write overtook
    undeleted,          \* history: keys whose deletion was lost
    redisFaults

rowVars == <<offer, gone, category>>
cacheVars == <<rowVars, cached, redisUp, reader, writer, raced, undeleted, redisFaults>>

Reading == [step : {"idle", "find", "enrich", "store"}, key : Keys, entry : Entry]
Writing == [step : {"idle", "save", "scan", "delete"},
            target : Offers \union {"category", "none"}, keys : SUBSET Keys]
IdleReader == [step |-> "idle", key |-> <<"all", "offers">>, entry |-> Nothing]
IdleWriter == [step |-> "idle", target |-> "none", keys |-> {}]

CacheTypeOK ==
    /\ offer \in Row /\ gone \subseteq Offers /\ category \in Version
    /\ cached \in [Keys -> Entry]
    /\ redisUp \in BOOLEAN
    /\ reader \in [Readers -> Reading]
    /\ writer \in [Writers -> Writing]
    /\ raced \subseteq Keys /\ undeleted \subseteq Keys
    /\ redisFaults \in 0..MaxRedisFaults

CacheInit ==
    /\ offer \in [Offers -> {0, 1}] /\ gone = {o \in Offers : offer[o] = 0}
    /\ category = 1
    /\ cached = [k \in Keys |-> Nothing]
    /\ redisUp = TRUE
    /\ reader = [r \in Readers |-> IdleReader]
    /\ writer = [w \in Writers |-> IdleWriter]
    /\ raced = {} /\ undeleted = {}
    /\ redisFaults = 0

-------------------------------------------------------------------------------
(* Reads.                                                                  *)

\* A key that is there is the answer; otherwise the producer of the key runs.
remember(r, k) ==
    /\ reader[r].step = "idle"
    /\ ~redisUp \/ cached[k] = Nothing
    /\ reader' = [reader EXCEPT ![r] = [IdleReader EXCEPT !.step = "find", !.key = k]]
    /\ UNCHANGED <<rowVars, cached, redisUp, writer, raced, undeleted, redisFaults>>

RowsOf(k) == [o \in Offers |-> IF o \in OffersOf(k) \ gone THEN offer[o] ELSE -1]

Produces(r, entry, step) ==
    /\ reader' = [reader EXCEPT ![r].entry = entry, ![r].step = step]
    /\ UNCHANGED <<rowVars, cached, redisUp, writer, raced, undeleted, redisFaults>>

\* The rows of the key; a service that is not there throws.
findOffers(r, kind) ==
    LET k == reader[r].key IN
    /\ reader[r].step = "find"
    /\ k \in OfferKeys /\ k[1] = kind
    /\ IF kind = "one" /\ k[2] \in gone
       THEN Produces(r, Nothing, "idle")
       ELSE Produces(r, [Nothing EXCEPT !.rows = RowsOf(k)], "enrich")

findAll(r) == findOffers(r, "all")
findOne(r) == findOffers(r, "one")
findShopServices(r) == findOffers(r, "house")

enrich(r) ==
    /\ reader[r].step = "enrich"
    /\ Produces(r, [reader[r].entry EXCEPT !.names = category], "store")

findCategories(r) ==
    /\ reader[r].step = "find"
    /\ reader[r].key \in CategoryKeys
    /\ Produces(r, [Nothing EXCEPT !.names = category], "store")

\* What a key should hold of the rows that its own deletions follow.
Current(k, entry) ==
    IF k \in CategoryKeys THEN entry.names = category ELSE entry.rows = RowsOf(k)

setex(r) ==
    LET k == reader[r].key IN
    /\ reader[r].step = "store"
    /\ IF redisUp
       THEN /\ cached' = [cached EXCEPT ![k] = reader[r].entry]
            /\ raced' = IF Current(k, reader[r].entry) THEN raced \ {k} ELSE raced \union {k}
            /\ undeleted' = undeleted \ {k}
       ELSE UNCHANGED <<cached, raced, undeleted>>
    /\ reader' = [reader EXCEPT ![r] = IdleReader]
    /\ UNCHANGED <<rowVars, redisUp, writer, redisFaults>>

-------------------------------------------------------------------------------
(* Writes.                                                                 *)

Saving(w, target) ==
    /\ writer[w].step = "idle"
    /\ writer' = [writer EXCEPT ![w] = [IdleWriter EXCEPT !.step = "save", !.target = target]]
    /\ UNCHANGED <<rowVars, cached, redisUp, reader, raced, undeleted, redisFaults>>

\* The row was found, and the caller may manage its shop.
updateService(w, o) == o \notin gone /\ Saving(w, o)

\* One is added, changed or removed.
writeCategory(w) == Saving(w, "category")

Saved(w) ==
    /\ writer' = [writer EXCEPT ![w].step = "scan"]
    /\ UNCHANGED <<cached, redisUp, reader, raced, undeleted, redisFaults>>

\* A row that has gone is inserted again.
saveService(w) ==
    /\ writer[w].step = "save"
    /\ writer[w].target \in Offers
    /\ offer[writer[w].target] < MaxVersions
    /\ offer' = [offer EXCEPT ![writer[w].target] = @ + 1]
    /\ gone' = gone \ {writer[w].target}
    /\ UNCHANGED category
    /\ Saved(w)

saveCategory(w) ==
    /\ writer[w].step = "save"
    /\ writer[w].target = "category"
    /\ category < MaxVersions
    /\ category' = category + 1
    /\ UNCHANGED <<offer, gone>>
    /\ Saved(w)

createService(w, o) ==
    /\ writer[w].step = "idle"
    /\ offer[o] = 0
    /\ offer' = [offer EXCEPT ![o] = 1]
    /\ gone' = gone \ {o}
    /\ writer' = [writer EXCEPT ![w] = [IdleWriter EXCEPT !.step = "scan", !.target = o]]
    /\ UNCHANGED <<category, cached, redisUp, reader, raced, undeleted, redisFaults>>

removeService(w, o) ==
    /\ writer[w].step = "idle"
    /\ o \notin gone
    /\ gone' = gone \union {o}
    /\ writer' = [writer EXCEPT ![w] = [IdleWriter EXCEPT !.step = "scan", !.target = o]]
    /\ UNCHANGED <<offer, category, cached, redisUp, reader, raced, undeleted, redisFaults>>

\* Mutated form: only the keys of single services are deleted.
invalidateOne(w) ==
    IF writer[w].target \in Offers THEN {"one"} \X Offers ELSE CategoryKeys

invalidateCache(w) ==
    IF writer[w].target \in Offers THEN OfferKeys ELSE CategoryKeys

\* Redis does not answer: a warning is logged and the write is done.
Unanswered(w) ==
    /\ ~redisUp
    /\ undeleted' = undeleted \union {k \in invalidateCache(w) : cached[k] # Nothing}
    /\ writer' = [writer EXCEPT ![w] = IdleWriter]
    /\ UNCHANGED <<rowVars, cached, redisUp, reader, raced, redisFaults>>

scan(w) ==
    /\ writer[w].step = "scan"
    /\ \/ Unanswered(w)
       \/ /\ redisUp
          /\ writer' = [writer EXCEPT ![w].step = "delete",
                                      ![w].keys = {k \in invalidateCache(w) : cached[k] # Nothing}]
          /\ UNCHANGED <<rowVars, cached, redisUp, reader, raced, undeleted, redisFaults>>

del(w) ==
    /\ writer[w].step = "delete"
    /\ \/ Unanswered(w)
       \/ /\ redisUp
          /\ cached' = [k \in Keys |-> IF k \in writer[w].keys THEN Nothing ELSE cached[k]]
          /\ raced' = raced \ writer[w].keys /\ undeleted' = undeleted \ writer[w].keys
          /\ writer' = [writer EXCEPT ![w] = IdleWriter]
          /\ UNCHANGED <<rowVars, redisUp, reader, redisFaults>>

-------------------------------------------------------------------------------
Fault == redisFaults < MaxRedisFaults /\ redisFaults' = redisFaults + 1

cacheFlips ==
    /\ Fault
    /\ redisUp' = ~redisUp
    /\ UNCHANGED <<rowVars, cached, reader, writer, raced, undeleted>>

expire(k) ==
    /\ Fault
    /\ cached[k] # Nothing
    /\ cached' = [cached EXCEPT ![k] = Nothing]
    /\ raced' = raced \ {k} /\ undeleted' = undeleted \ {k}
    /\ UNCHANGED <<rowVars, redisUp, reader, writer>>

\* The instance of a writer restarts after the save.
writerRestarts(w) ==
    /\ Fault
    /\ writer[w].step \in {"scan", "delete"}
    /\ undeleted' = undeleted \union {k \in invalidateCache(w) : cached[k] # Nothing}
    /\ writer' = [writer EXCEPT ![w] = IdleWriter]
    /\ UNCHANGED <<rowVars, cached, redisUp, reader, raced>>

CacheNext ==
    \/ \E r \in Readers :
          \/ \E k \in Keys : remember(r, k)
          \/ findAll(r) \/ findOne(r) \/ findShopServices(r) \/ findCategories(r)
          \/ enrich(r) \/ setex(r)
    \/ \E w \in Writers :
          \/ \E o \in Offers : createService(w, o) \/ updateService(w, o) \/ removeService(w, o)
          \/ writeCategory(w)
          \/ saveService(w) \/ saveCategory(w)
          \/ scan(w) \/ del(w) \/ writerRestarts(w)
    \/ \E k \in Keys : expire(k)
    \/ cacheFlips

CacheSpec == CacheInit /\ [][CacheNext]_cacheVars

-------------------------------------------------------------------------------
(* Properties.                                                             *)

\* A write that is not yet over will delete the key.
DeletionUnderWay(k) ==
    \E w \in Writers : /\ k \in invalidateCache(w)
                       /\ \/ writer[w].step = "scan"
                          \/ writer[w].step = "delete" /\ k \in writer[w].keys

\* What is cached of a service or a category is its row as it is now, once the writes
\* are over: only a read that a write overtook may have put the old row back, and only
\* an answer that Redis owed may have left it there.
CacheStaleOnlyIfRaced ==
    \A k \in Keys :
        cached[k] # Nothing =>
            Current(k, cached[k]) \/ DeletionUnderWay(k) \/ k \in raced \/ k \in undeleted
===============================================================================
