----------------------------- MODULE CarsCache -----------------------------
(***************************************************************************)
(* The Redis cache of the two public endpoints, beside the car edits that  *)
(* invalidate it.  A reader that misses queries the table and stores its   *)
(* answer, statement by statement; an editor that has committed walks over *)
(* the cars:* keys with SCAN and deletes them one by one.  Commits, reads, *)
(* stores and deletions of different requests interleave freely.           *)
(*                                                                         *)
(* The key "list" stands for cars:list:<hash of one set of filters>, a car *)
(* i for cars:detail:<i>.  The two TTLs differ in length only.             *)
(***************************************************************************)
EXTENDS CarService

CONSTANT Reader   \* requests to the public endpoints in progress at a time

ASSUME ListAssumption == "list" \notin CarId /\ IsFiniteSet(CarId)

VARIABLES
    cache,   \* the cars:* keys of Redis
    reader,  \* where each public request stands and what it holds
    due      \* the keys that each session's SCAN is bound to return still

cacheVars == <<cache, reader, due>>
allVars == <<carVars, cacheVars>>

CacheKey == CarId \cup {"list"}
Present == {k \in CacheKey : cache[k] # None}

(* What the endpoints return of a car; it is published and not deleted.    *)
View(car) == [name |-> car.name, cols |-> car.cols]
PublishedIds(table) ==
    {i \in Ids(table) : table[i].status = "published" /\ ~table[i].deleted}

Total(table) == Cardinality(PublishedIds(table))
Items(table) == [i \in PublishedIds(table) |-> View(table[i])]
Detail(table, i) == IF i \in PublishedIds(table) THEN View(table[i]) ELSE None

(* The answer to key k when nothing is cached and nothing changes.         *)
Response(table, k) ==
    IF k = "list" THEN [total |-> Total(table), items |-> Items(table)]
                  ELSE Detail(table, k)

Idle == [at |-> "idle", key |-> None, got |-> None]

CacheInit ==
    /\ Init
    /\ cache = [k \in CacheKey |-> None]
    /\ reader = [r \in Reader |-> Idle]
    /\ due = [s \in Session |-> {}]

-----------------------------------------------------------------------------

Reads(r, at, k, got) ==
    /\ reader' = [reader EXCEPT ![r] = [at |-> at, key |-> k, got |-> got]]
    /\ NoCommit /\ UNCHANGED <<cacheBehind, pc, loaded, cache, due>>

(* cache_get finds a response and the request ends.                        *)
Hit(r, k) ==
    /\ reader[r] = Idle /\ cache[k] # None
    /\ NoCommit /\ UNCHANGED <<cacheBehind, pc, loaded, cacheVars>>

Miss(r, k) ==
    /\ reader[r] = Idle /\ cache[k] = None
    /\ Reads(r, "missed", k, None)

(* The two statements of list_cars; each sees what is committed by then.   *)
CountList(r) ==
    /\ reader[r].at = "missed" /\ reader[r].key = "list"
    /\ Reads(r, "counted", "list", [total |-> Total(cars)])

QueryList(r) ==
    /\ reader[r].at = "counted"
    /\ Reads(r, "answered", "list",
             [total |-> reader[r].got.total, items |-> Items(cars)])

QueryDetail(r) ==
    /\ reader[r].at = "missed" /\ reader[r].key \in PublishedIds(cars)
    /\ Reads(r, "answered", reader[r].key, Detail(cars, reader[r].key))

(* Mutant: a car that is not there is cached like one that is.             *)
CacheNotPublished(r) ==
    /\ reader[r].at = "missed" /\ reader[r].key \in CarId \ PublishedIds(cars)
    /\ Reads(r, "answered", reader[r].key, None)

(* get_public_car returns None: 404, which is not cached.                  *)
NotPublished(r) ==
    /\ reader[r].at = "missed" /\ reader[r].key \in CarId \ PublishedIds(cars)
    /\ reader' = [reader EXCEPT ![r] = Idle]
    /\ NoCommit /\ UNCHANGED <<cacheBehind, pc, loaded, cache, due>>

(* An entry: the response, whether it expires, and, for the properties,    *)
(* whether it was what the table said when it was stored.                  *)
Stored(k, got, expires) ==
    [resp |-> got, expires |-> expires, current |-> got = Response(cars, k)]

(* Mutant: SET without ex.                                                 *)
StoreForever(r) ==
    /\ reader[r].at = "answered"
    /\ cache' = [cache EXCEPT ![reader[r].key] =
                    Stored(reader[r].key, reader[r].got, FALSE)]
    /\ reader' = [reader EXCEPT ![r] = Idle]
    /\ NoCommit /\ UNCHANGED <<cacheBehind, pc, loaded, due>>

(* cache_set, over whatever the key holds by now.                          *)
Store(r) ==
    /\ reader[r].at = "answered"
    /\ cache' = [cache EXCEPT ![reader[r].key] =
                    Stored(reader[r].key, reader[r].got, TRUE)]
    /\ reader' = [reader EXCEPT ![r] = Idle]
    /\ NoCommit /\ UNCHANGED <<cacheBehind, pc, loaded, due>>

(* The request dies, or Redis or the database fails it.                    *)
LoseReader(r) ==
    /\ MayCrash /\ reader[r] # Idle
    /\ reader' = [reader EXCEPT ![r] = Idle]
    /\ NoCommit /\ UNCHANGED <<cacheBehind, pc, loaded, cache, due>>

(* A key that goes away: no SCAN in progress is bound to return it, even   *)
(* if it is stored again before the SCAN ends.                             *)
Remove(k) ==
    /\ cache' = [cache EXCEPT ![k] = None]
    /\ due' = [s \in Session |-> due[s] \ {k}]

(* The key reaches its TTL, or Redis evicts it before.                     *)
Expire(k) ==
    /\ cache[k] # None /\ cache[k].expires
    /\ Remove(k)
    /\ NoCommit /\ UNCHANGED <<cacheBehind, pc, loaded, reader>>

-----------------------------------------------------------------------------

(* Mutant: only the keys of the listing are dropped.                       *)
BeginScanOfLists(s) ==
    /\ pc[s] = "edited"
    /\ due' = [due EXCEPT ![s] = Present \cap {"list"}]
    /\ cacheBehind' = FALSE
    /\ Goto(s, "scanning")
    /\ NoCommit /\ UNCHANGED <<loaded, cache, reader>>

(* invalidate_cars_cache starts: SCAN is bound to return the keys that are *)
(* there from its first call to its last.  From here on what remains to be *)
(* invalidated is what is due.                                             *)
BeginScan(s) ==
    /\ pc[s] = "edited"
    /\ due' = [due EXCEPT ![s] = Present]
    /\ cacheBehind' = FALSE
    /\ Goto(s, "scanning")
    /\ NoCommit /\ UNCHANGED <<loaded, cache, reader>>

(* SCAN returns a key, which may be one stored since, and it is deleted.   *)
DropKey(s, k) ==
    /\ pc[s] = "scanning" /\ cache[k] # None
    /\ Remove(k)
    /\ NoCommit /\ UNCHANGED <<cacheBehind, pc, loaded, reader>>

EndScan(s) ==
    /\ pc[s] = "scanning" /\ due[s] = {}
    /\ Goto(s, "idle")
    /\ NoCommit /\ UNCHANGED <<cacheBehind, loaded, cacheVars>>

(* The request dies, or Redis fails, among the deletions.                  *)
CrashInScan(s) ==
    /\ MayCrash /\ pc[s] = "scanning"
    /\ cacheBehind' = (cacheBehind \/ due[s] # {})
    /\ due' = [due EXCEPT ![s] = {}]
    /\ Goto(s, "idle")
    /\ NoCommit /\ UNCHANGED <<loaded, cache, reader>>

ReadOf(r) == \/ \E k \in CacheKey : Hit(r, k) \/ Miss(r, k)
             \/ CountList(r) \/ QueryList(r) \/ QueryDetail(r)
             \/ NotPublished(r) \/ Store(r) \/ LoseReader(r)

ScanOf(s) == \/ BeginScan(s) \/ EndScan(s) \/ CrashInScan(s)
             \/ \E k \in CacheKey : DropKey(s, k)

CacheNext ==
    \/ \E s \in Session : (Handle(s) \/ CrashInEdit(s)) /\ UNCHANGED cacheVars
    \/ \E s \in Session : ScanOf(s)
    \/ \E r \in Reader : ReadOf(r)
    \/ \E k \in CacheKey : Expire(k)

CacheSpec == CacheInit /\ [][CacheNext]_allVars

(* Redis expires every key that has a TTL.                                 *)
FairCache == CacheSpec /\ \A k \in CacheKey : WF_allVars(Expire(k))

-----------------------------------------------------------------------------

EntryStored(k) ==
    /\ cache[k].current \in BOOLEAN /\ cache[k].expires \in BOOLEAN
    /\ IF k = "list" THEN /\ cache[k].resp.total \in Nat
                          /\ DOMAIN cache[k].resp.items \subseteq CarId
                     ELSE cache[k].resp \in {View(c) : c \in Car}

CacheTypeOK ==
    /\ TableOK
    /\ pc \in [Session -> EditPC \cup {"scanning"}]
    /\ due \in [Session -> SUBSET CacheKey]
    /\ \A k \in Present : EntryStored(k)

Stale(k) == cache[k] # None /\ cache[k].resp # Response(cars, k)
ToBeInvalidated(k) ==
    cacheBehind \/ \E s \in Session : pc[s] = "scanning" /\ k \in due[s]

(* "invalidate_cars_cache() which drops every cars:* key" (README.md:137): *)
(* a response that was right when it was stored is not served after a      *)
(* change of what it shows for longer than the editor takes to get to it,  *)
(* whichever requests commit, scan, store and expire in between.  (One     *)
(* that was out of date when it was stored can: see the README.)           *)
OnlyRacesLeaveStale ==
    \A k \in CacheKey : Stale(k) /\ cache[k].current => ToBeInvalidated(k)

(* Whatever races or crashes have left behind, once the cars no longer     *)
(* change every response that is out of date goes for good: the TTLs       *)
(* bound what the invalidation misses.                                     *)
StaleEndsForGood ==
    <>[][cars' = cars]_allVars => <>[](\A k \in CacheKey : ~Stale(k))

=============================================================================
