---------------------------- MODULE CarEditsProofs ----------------------------
(***************************************************************************)
(* Proofs about the two components that run beside the edits of            *)
(* CarService, each on its own specification.  CarsCache: a response that  *)
(* was right when it was stored outlives a change only as long as its      *)
(* invalidation is under way.  CarForms: what a save writes, field by      *)
(* field, beside every other edit.                                         *)
(***************************************************************************)
EXTENDS CarsCache, CarForms, CarServiceProofs, FiniteSetTheorems

-----------------------------------------------------------------------------
(* The cache.                                                              *)

DomainsOK == /\ DOMAIN cache = CacheKey
             /\ DOMAIN pc = Session
             /\ DOMAIN due = Session

CacheIInv == DomainsOK /\ OnlyRacesLeaveStale

LEMMA CacheInitIInv == CacheInit => CacheIInv
BY DEF CacheInit, Init, CacheIInv, DomainsOK, OnlyRacesLeaveStale, Stale

(* A step that leaves the table, the cache and what is due alone, and that *)
(* moves no session away from its scan, leaves the invariant alone.        *)
LEMMA QuietStep ==
    ASSUME CacheIInv, cars' = cars, cache' = cache, due' = due,
           cacheBehind' = cacheBehind, DOMAIN pc' = Session,
           \A s \in Session : pc[s] = "scanning" => pc'[s] = "scanning"
    PROVE  CacheIInv'
<1>1. DomainsOK'
  BY DEF CacheIInv, DomainsOK
<1>2. ASSUME NEW k \in CacheKey, Stale(k)', cache'[k].current
      PROVE  ToBeInvalidated(k)'
  <2>1. ToBeInvalidated(k)
    BY <1>2 DEF CacheIInv, OnlyRacesLeaveStale, Stale, Response, Total, Items,
       Detail, PublishedIds, Ids
  <2> QED BY <2>1 DEF ToBeInvalidated
<1> QED BY <1>1, <1>2 DEF CacheIInv, OnlyRacesLeaveStale

(* After a commit everything is still to be invalidated.                   *)
LEMMA CommitStep ==
    ASSUME CacheIInv, cacheBehind', UNCHANGED cacheVars, DOMAIN pc' = Session
    PROVE  CacheIInv'
BY DEF CacheIInv, DomainsOK, OnlyRacesLeaveStale, ToBeInvalidated, cacheVars

LEMMA EditStep ==
    ASSUME CacheIInv, NEW s \in Session, Handle(s) \/ CrashInEdit(s),
           UNCHANGED cacheVars
    PROVE  CacheIInv'
<1>1. \/ cacheBehind' = TRUE
      \/ /\ cars' = cars /\ cacheBehind' = cacheBehind
         /\ pc' = pc \/ pc[s] # "scanning"
  BY DEF Handle, BeginEdit, NotFound, CreateCar, UpdateCar, PublishCar, ArchiveCar,
     SoftDeleteCar, CrashInEdit, Commit, NoCommit, EditPC
<1>2. pc' = pc \/ \E label : pc' = [pc EXCEPT ![s] = label]
  BY DEF Handle, BeginEdit, NotFound, CreateCar, UpdateCar, PublishCar, ArchiveCar,
     SoftDeleteCar, CrashInEdit, Commit, Goto
<1>3. DOMAIN pc' = Session
  BY <1>2 DEF CacheIInv, DomainsOK
<1>4. CASE cacheBehind' = TRUE
  BY <1>3, <1>4, CommitStep
<1>5. CASE /\ cars' = cars /\ cacheBehind' = cacheBehind
           /\ pc' = pc \/ pc[s] # "scanning"
  BY <1>2, <1>3, <1>5, QuietStep DEF cacheVars, CacheIInv, DomainsOK
<1> QED BY <1>1, <1>4, <1>5

LEMMA RemoveStep ==
    ASSUME CacheIInv, NEW k \in CacheKey, Remove(k), cars' = cars,
           UNCHANGED <<cacheBehind, pc>>
    PROVE  CacheIInv'
<1>1. DomainsOK'
  BY DEF CacheIInv, DomainsOK, Remove
<1>2. ASSUME NEW j \in CacheKey, Stale(j)', cache'[j].current
      PROVE  ToBeInvalidated(j)'
  <2>1. j # k /\ cache'[j] = cache[j]
    BY <1>2 DEF CacheIInv, DomainsOK, Remove, Stale
  <2>2. ToBeInvalidated(j)
    BY <1>2, <2>1 DEF CacheIInv, OnlyRacesLeaveStale, Stale, Response, Total,
       Items, Detail, PublishedIds, Ids
  <2> QED BY <2>1, <2>2 DEF ToBeInvalidated, Remove
<1> QED BY <1>1, <1>2 DEF CacheIInv, OnlyRacesLeaveStale

(* A response enters the cache marked current only if it is.               *)
LEMMA StoreStep ==
    ASSUME CacheIInv, NEW r \in Reader, Store(r)
    PROVE  CacheIInv'
<1>0. cars' = cars /\ pc' = pc /\ due' = due /\ cacheBehind' = cacheBehind
  BY DEF Store, NoCommit
<1>1. DomainsOK'
  BY DEF CacheIInv, DomainsOK, Store
<1>2. ASSUME NEW k \in CacheKey, Stale(k)', cache'[k].current
      PROVE  ToBeInvalidated(k)'
  <2>1. Response(cars', k) = Response(cars, k)
    BY <1>0 DEF Response, Total, Items, Detail, PublishedIds, Ids
  <2>2. CASE k = reader[r].key
    BY <1>2, <2>1, <2>2 DEF CacheIInv, DomainsOK, Store, Stored, Stale
  <2>3. CASE k # reader[r].key
    <3>1. cache'[k] = cache[k]
      BY <2>3 DEF CacheIInv, DomainsOK, Store
    <3>2. ToBeInvalidated(k)
      BY <1>2, <2>1, <3>1 DEF CacheIInv, OnlyRacesLeaveStale, Stale
    <3> QED BY <1>0, <3>2 DEF ToBeInvalidated
  <2> QED BY <2>2, <2>3
<1> QED BY <1>1, <1>2 DEF CacheIInv, OnlyRacesLeaveStale

(* What a session was to invalidate becomes due to its scan.               *)
LEMMA BeginScanStep ==
    ASSUME CacheIInv, NEW s \in Session, BeginScan(s)
    PROVE  CacheIInv'
<1>1. DomainsOK'
  BY DEF CacheIInv, DomainsOK, BeginScan, Goto
<1>2. ASSUME NEW k \in CacheKey, Stale(k)' PROVE ToBeInvalidated(k)'
  <2>1. k \in Present /\ k \in due'[s] /\ pc'[s] = "scanning"
    BY <1>2 DEF CacheIInv, DomainsOK, BeginScan, Goto, Stale, Present
  <2> QED BY <2>1 DEF ToBeInvalidated
<1> QED BY <1>1, <1>2 DEF CacheIInv, OnlyRacesLeaveStale

(* A scan ends with nothing due, or is cut short and leaves it behind.     *)
LEMMA LeaveScanStep ==
    ASSUME CacheIInv, NEW s \in Session, EndScan(s) \/ CrashInScan(s)
    PROVE  CacheIInv'
<1>0. /\ cars' = cars /\ cache' = cache /\ pc' = [pc EXCEPT ![s] = "idle"]
      /\ \A t \in Session \ {s} : due'[t] = due[t]
      /\ \/ due[s] = {} /\ cacheBehind' = cacheBehind
         \/ cacheBehind' = (cacheBehind \/ due[s] # {})
  BY DEF EndScan, CrashInScan, NoCommit, Goto, cacheVars, CacheIInv, DomainsOK
<1>1. DomainsOK'
  BY DEF CacheIInv, DomainsOK, EndScan, CrashInScan, Goto, cacheVars
<1>2. ASSUME NEW k \in CacheKey, Stale(k)', cache'[k].current
      PROVE  ToBeInvalidated(k)'
  <2>1. ToBeInvalidated(k)
    BY <1>0, <1>2 DEF CacheIInv, OnlyRacesLeaveStale, Stale, Response, Total,
       Items, Detail, PublishedIds, Ids
  <2>2. CASE cacheBehind
    BY <1>0, <2>2 DEF ToBeInvalidated
  <2>3. ASSUME NEW t \in Session, pc[t] = "scanning", k \in due[t]
        PROVE  ToBeInvalidated(k)'
    <3>1. CASE t = s
      BY <1>0, <2>3, <3>1 DEF ToBeInvalidated
    <3>2. CASE t # s
      BY <1>0, <2>3, <3>2 DEF ToBeInvalidated, CacheIInv, DomainsOK
    <3> QED BY <3>1, <3>2
  <2> QED BY <2>1, <2>2, <2>3 DEF ToBeInvalidated
<1> QED BY <1>1, <1>2 DEF CacheIInv, OnlyRacesLeaveStale

THEOREM CacheStepIInv ==
    ASSUME CacheIInv, [CacheNext]_allVars
    PROVE  CacheIInv'
<1>1. ASSUME NEW s \in Session, (Handle(s) \/ CrashInEdit(s)) /\ UNCHANGED cacheVars
      PROVE  CacheIInv'
  BY <1>1, EditStep
<1>2. ASSUME NEW s \in Session, ScanOf(s) PROVE CacheIInv'
  <2>1. CASE BeginScan(s)
    BY <2>1, BeginScanStep
  <2>2. CASE EndScan(s) \/ CrashInScan(s)
    BY <2>2, LeaveScanStep
  <2>3. ASSUME NEW k \in CacheKey, DropKey(s, k) PROVE CacheIInv'
    BY <2>3, RemoveStep DEF DropKey, NoCommit
  <2> QED BY <1>2, <2>1, <2>2, <2>3 DEF ScanOf
<1>3. ASSUME NEW r \in Reader, ReadOf(r) PROVE CacheIInv'
  <2>1. CASE Store(r)
    BY <2>1, StoreStep
  <2>2. CASE ~Store(r)
    <3>1. /\ cars' = cars /\ cache' = cache /\ due' = due
          /\ cacheBehind' = cacheBehind /\ pc' = pc
      BY <1>3, <2>2 DEF ReadOf, Hit, Miss, CountList, QueryList, QueryDetail,
         NotPublished, LoseReader, Reads, NoCommit, cacheVars
    <3> QED BY <3>1, QuietStep DEF CacheIInv, DomainsOK
  <2> QED BY <2>1, <2>2
<1>4. ASSUME NEW k \in CacheKey, Expire(k) PROVE CacheIInv'
  BY <1>4, RemoveStep DEF Expire, NoCommit
<1>5. CASE UNCHANGED allVars
  <2>1. /\ cars' = cars /\ cache' = cache /\ due' = due
        /\ cacheBehind' = cacheBehind /\ pc' = pc
    BY <1>5 DEF allVars, carVars, cacheVars
  <2> QED BY <2>1, QuietStep DEF CacheIInv, DomainsOK
<1> QED BY <1>1, <1>2, <1>3, <1>4, <1>5 DEF CacheNext

(* A response that was right when it was stored is out of date only while  *)
(* a commit has not reached its invalidation or a scan has it still to     *)
(* drop, for any number of editors, readers and cars, crashes included     *)
(* (cars.py:46-79, cache.py:35-51).                                        *)
THEOREM CacheSpecOnlyRaces == CacheSpec => []OnlyRacesLeaveStale
<1>1. CacheIInv => OnlyRacesLeaveStale
  BY DEF CacheIInv
<1> QED BY CacheInitIInv, CacheStepIInv, <1>1, PTL DEF CacheSpec

-----------------------------------------------------------------------------
(* Type correctness.                                                       *)

(* What cars_list and car_detail return has the shape of a response.       *)
Answer(k, got) ==
    IF k = "list" THEN got.total \in Nat /\ DOMAIN got.items \subseteq CarId
                  ELSE got \in {View(c) : c \in Car}

(* A reader holds what its place in the endpoint calls for.                *)
ReaderOK(r) ==
    /\ reader[r].at # "idle" => reader[r].key \in CacheKey
    /\ reader[r].at = "counted" => reader[r].got.total \in Nat
    /\ reader[r].at = "answered" => Answer(reader[r].key, reader[r].got)

ScanPcOK == pc \in [Session -> EditPC \cup {"scanning"}]

StoreTypeOK ==
    /\ DOMAIN cache = CacheKey
    /\ due \in [Session -> SUBSET CacheKey]
    /\ \A k \in Present : EntryStored(k)
    /\ DOMAIN reader = Reader /\ \A r \in Reader : ReaderOK(r)

CacheTypeInv == IInv /\ ScanPcOK /\ StoreTypeOK

LEMMA AnswersTyped ==
    ASSUME NEW table \in Table
    PROVE  /\ Total(table) \in Nat
           /\ DOMAIN Items(table) \subseteq CarId
           /\ \A i \in PublishedIds(table) : i \in CarId /\ i # "list"
                                             /\ Detail(table, i) \in {View(c) : c \in Car}
<1>1. PublishedIds(table) \subseteq CarId
  BY DEF PublishedIds, Ids
<1>2. Total(table) \in Nat
  <2>1. IsFiniteSet(PublishedIds(table))
    BY <1>1, ListAssumption, FS_Subset
  <2> QED BY <2>1, FS_CardinalityType DEF Total
<1>3. \A i \in PublishedIds(table) : table[i] \in Car
  BY TableFacts DEF PublishedIds, Ids
<1> QED BY <1>1, <1>2, <1>3, ListAssumption DEF Items, Detail

LEMMA CacheInitTypes == CacheInit => CacheTypeInv
<1> SUFFICES ASSUME CacheInit PROVE CacheTypeInv
  OBVIOUS
<1>1. IInv /\ ScanPcOK
  BY InitIInv DEF CacheInit, Init, ScanPcOK, EditPC
<1>2. StoreTypeOK
  BY DEF CacheInit, StoreTypeOK, Present, ReaderOK, Idle
<1> QED BY <1>1, <1>2 DEF CacheTypeInv

(* An edit up to its commit: only the car service moves.                   *)
LEMMA EditTypes ==
    ASSUME CacheTypeInv, NEW s \in Session, Handle(s) \/ CrashInEdit(s),
           UNCHANGED cacheVars
    PROVE  CacheTypeInv'
<1>1. IInv'
  BY EditIInv DEF Edit, CacheTypeInv
<1>2. ScanPcOK'
  BY DEF CacheTypeInv, ScanPcOK, EditPC, Handle, BeginEdit, NotFound, CreateCar,
         UpdateCar, PublishCar, ArchiveCar, SoftDeleteCar, CrashInEdit, Commit, Goto
<1>3. StoreTypeOK'
  BY DEF CacheTypeInv, StoreTypeOK, cacheVars, Present, EntryStored, ReaderOK
<1> QED BY <1>1, <1>2, <1>3 DEF CacheTypeInv

(* A step of a scan, of a reader or of a TTL: nothing is committed.        *)
LEMMA NoCommitTypes ==
    ASSUME CacheTypeInv, NoCommit, loaded' = loaded, cacheBehind' \in BOOLEAN
    PROVE  IInv'
<1>1. loaded' \in [Session -> Table] /\ LoadedExist'
  BY DEF CacheTypeInv, IInv, TableOK, LoadedExist, NoCommit, Ids
<1> QED BY <1>1, NoCommitIInv DEF CacheTypeInv

LEMMA RemoveTypes ==
    ASSUME CacheTypeInv, NEW k \in CacheKey, Remove(k), reader' = reader
    PROVE  StoreTypeOK'
<1>1. /\ DOMAIN cache' = CacheKey /\ cache'[k] = None
      /\ \A j \in CacheKey \ {k} : cache'[j] = cache[j]
  BY DEF CacheTypeInv, StoreTypeOK, Remove
<1>2. due' \in [Session -> SUBSET CacheKey]
  BY DEF CacheTypeInv, StoreTypeOK, Remove
<1> QED BY <1>1, <1>2 DEF CacheTypeInv, StoreTypeOK, Present, EntryStored, ReaderOK

LEMMA ScanTypes ==
    ASSUME CacheTypeInv, NEW s \in Session, ScanOf(s)
    PROVE  CacheTypeInv'
<1>1. NoCommit /\ loaded' = loaded /\ cacheBehind' \in BOOLEAN
  BY DEF ScanOf, BeginScan, EndScan, CrashInScan, DropKey, NoCommit, CacheTypeInv, IInv,
         TableOK
<1>2. ScanPcOK'
  BY DEF ScanOf, BeginScan, EndScan, CrashInScan, DropKey, Goto, CacheTypeInv, ScanPcOK,
         EditPC
<1>3. StoreTypeOK'
  <2>1. ASSUME NEW k \in CacheKey, DropKey(s, k) PROVE StoreTypeOK'
    BY <2>1, RemoveTypes DEF DropKey
  <2>2. CASE BeginScan(s) \/ EndScan(s) \/ CrashInScan(s)
    <3>1. cache' = cache /\ reader' = reader /\ due' \in [Session -> SUBSET CacheKey]
      BY <2>2 DEF BeginScan, EndScan, CrashInScan, cacheVars, CacheTypeInv, StoreTypeOK,
                  Present
    <3> QED BY <3>1 DEF CacheTypeInv, StoreTypeOK, Present, EntryStored, ReaderOK
  <2> QED BY <2>1, <2>2 DEF ScanOf
<1> QED BY <1>1, <1>2, <1>3, NoCommitTypes DEF CacheTypeInv

LEMMA ReadTypes ==
    ASSUME CacheTypeInv, NEW r \in Reader, ReadOf(r)
    PROVE  CacheTypeInv'
<1>0. NoCommit /\ loaded' = loaded /\ cacheBehind' = cacheBehind /\ pc' = pc /\ due' = due
  BY DEF ReadOf, Hit, Miss, CountList, QueryList, QueryDetail, NotPublished, Store,
         LoseReader, Reads, cacheVars
<1>1. IInv'
  BY <1>0, NoCommitTypes DEF CacheTypeInv, IInv, TableOK
<1>2. ScanPcOK'
  BY <1>0 DEF CacheTypeInv, ScanPcOK
<1>3. cars \in Table
  BY DEF CacheTypeInv, IInv, TableOK
<1>4. CASE Store(r)
  <2>0. reader[r].key \in CacheKey /\ Answer(reader[r].key, reader[r].got)
    BY <1>4 DEF Store, CacheTypeInv, StoreTypeOK, ReaderOK
  <2>a. PICK k \in CacheKey : k = reader[r].key
    BY <2>0
  <2>b. PICK got : got = reader[r].got
    OBVIOUS
  <2>1. k = reader[r].key /\ got = reader[r].got /\ Answer(k, got)
    BY <2>0, <2>a, <2>b
  <2> DEFINE entry == Stored(k, got, TRUE)
  <2>2. /\ cache' = [cache EXCEPT ![k] = entry]
        /\ reader' = [reader EXCEPT ![r] = Idle]
    BY <1>4, <2>1 DEF Store
  <2>3. /\ entry.resp = got
        /\ entry.current \in BOOLEAN /\ entry.expires \in BOOLEAN
    BY <2>1 DEF Stored
  <2> HIDE DEF entry
  <2>4. \A j \in Present' : EntryStored(j)'
    <3>1. DOMAIN cache = CacheKey
      BY DEF CacheTypeInv, StoreTypeOK
    <3>2. EntryStored(k)'
      BY <2>1, <2>2, <2>3, <3>1 DEF EntryStored, Answer
    <3>3. \A j \in CacheKey \ {k} : cache'[j] = cache[j]
      BY <2>2, <3>1
    <3> QED BY <3>2, <3>3 DEF CacheTypeInv, StoreTypeOK, Present, EntryStored
  <2>5. DOMAIN reader' = Reader /\ \A q \in Reader : ReaderOK(q)'
    BY <2>2 DEF CacheTypeInv, StoreTypeOK, ReaderOK, Idle
  <2>6. StoreTypeOK'
    BY <1>0, <2>2, <2>4, <2>5 DEF CacheTypeInv, StoreTypeOK
  <2> QED BY <1>1, <1>2, <2>6 DEF CacheTypeInv
<1>5. ASSUME cache' = cache, DOMAIN reader' = Reader,
             \A q \in Reader \ {r} : reader'[q] = reader[q], ReaderOK(r)'
      PROVE  CacheTypeInv'
  <2>1. StoreTypeOK'
    BY <1>0, <1>5 DEF CacheTypeInv, StoreTypeOK, Present, EntryStored, ReaderOK
  <2> QED BY <1>1, <1>2, <2>1 DEF CacheTypeInv
<1>6. CASE \E k \in CacheKey : Hit(r, k)
  BY <1>5, <1>6 DEF Hit, cacheVars, CacheTypeInv, StoreTypeOK, ReaderOK
<1>7. ASSUME NEW at, NEW k, NEW got, Reads(r, at, k, got),
             /\ k \in CacheKey
             /\ at = "counted" => got.total \in Nat
             /\ at = "answered" => Answer(k, got)
      PROVE  CacheTypeInv'
  <2>1. cache' = cache /\ reader' = [reader EXCEPT ![r] = [at |-> at, key |-> k, got |-> got]]
    BY <1>7 DEF Reads
  <2>2. ReaderOK(r)'
    BY <1>7, <2>1 DEF ReaderOK, CacheTypeInv, StoreTypeOK
  <2> QED BY <1>5, <2>1, <2>2 DEF CacheTypeInv, StoreTypeOK
<1>8. ASSUME NEW k \in CacheKey, Miss(r, k) PROVE CacheTypeInv'
  <2>1. Reads(r, "missed", k, None)
    BY <1>8 DEF Miss
  <2> QED BY <1>7, <2>1
<1>9. CASE CountList(r)
  <2>1. Reads(r, "counted", "list", [total |-> Total(cars)])
    BY <1>9 DEF CountList
  <2>2. [total |-> Total(cars)].total \in Nat
    BY <1>3, AnswersTyped
  <2> QED BY <1>7, <2>1, <2>2 DEF CacheKey
<1>10. CASE QueryList(r)
  <2> DEFINE got == [total |-> reader[r].got.total, items |-> Items(cars)]
  <2>1. Reads(r, "answered", "list", got) /\ reader[r].at = "counted"
    BY <1>10 DEF QueryList
  <2>2. Answer("list", got)
    BY <1>3, <2>1, AnswersTyped DEF Answer, CacheTypeInv, StoreTypeOK, ReaderOK
  <2> HIDE DEF got
  <2> QED BY <1>7, <2>1, <2>2 DEF CacheKey
<1>11. CASE QueryDetail(r)
  <2> DEFINE k == reader[r].key
             got == Detail(cars, k)
  <2>1. Reads(r, "answered", k, got) /\ k \in PublishedIds(cars)
    BY <1>11 DEF QueryDetail
  <2>2. k \in CacheKey /\ Answer(k, got)
    BY <1>3, <2>1, AnswersTyped DEF Answer, CacheKey
  <2> HIDE DEF k, got
  <2> QED BY <1>7, <2>1, <2>2
<1>12. CASE NotPublished(r) \/ LoseReader(r)
  <2>1. cache' = cache /\ reader' = [reader EXCEPT ![r] = Idle]
    BY <1>12 DEF NotPublished, LoseReader
  <2>2. ReaderOK(r)'
    BY <2>1 DEF ReaderOK, Idle, CacheTypeInv, StoreTypeOK
  <2> QED BY <1>5, <2>1, <2>2 DEF CacheTypeInv, StoreTypeOK
<1> QED BY <1>4, <1>6, <1>8, <1>9, <1>10, <1>11, <1>12 DEF ReadOf

LEMMA CacheStepTypes ==
    ASSUME CacheTypeInv, [CacheNext]_allVars
    PROVE  CacheTypeInv'
<1>1. ASSUME NEW s \in Session, (Handle(s) \/ CrashInEdit(s)) /\ UNCHANGED cacheVars
      PROVE  CacheTypeInv'
  BY <1>1, EditTypes
<1>2. ASSUME NEW k \in CacheKey, Expire(k) PROVE CacheTypeInv'
  <2>1. StoreTypeOK'
    BY <1>2, RemoveTypes DEF Expire
  <2>2. IInv' /\ ScanPcOK'
    BY <1>2, NoCommitTypes DEF Expire, CacheTypeInv, IInv, TableOK, ScanPcOK
  <2> QED BY <2>1, <2>2 DEF CacheTypeInv
<1>3. CASE UNCHANGED allVars
  <2>1. StoreTypeOK' /\ ScanPcOK'
    BY <1>3 DEF allVars, carVars, cacheVars, CacheTypeInv, StoreTypeOK, ScanPcOK, Present,
                EntryStored, ReaderOK
  <2>2. IInv'
    BY <1>3 DEF allVars, carVars, CacheTypeInv, IInv, TableOK, LoadedExist, EidUnique,
                EidsUnique, Ids, EntryOK
  <2> QED BY <2>1, <2>2 DEF CacheTypeInv
<1> QED BY <1>1, <1>2, <1>3, ScanTypes, ReadTypes DEF CacheNext

(* CacheTypeOK: whatever requests store, drop and expire, a key holds a    *)
(* response of its endpoint or nothing (cars.py:46-79).                    *)
THEOREM CacheSpecTypeOK == CacheSpec => []CacheTypeOK
<1>1. CacheTypeInv => CacheTypeOK
  BY DEF CacheTypeInv, CacheTypeOK, IInv, ScanPcOK, StoreTypeOK
<1> QED BY CacheInitTypes, CacheStepTypes, <1>1, PTL DEF CacheSpec

-----------------------------------------------------------------------------
(* The form.                                                               *)

Form == {r \in [car : CarId, read : Car,
                input : [FormField -> UNION {Input(f) : f \in FormField}]] :
            \A f \in FormField : r.input[f] \in Input(f)}

(* Tabs and posts hold forms, and a request that carries a form has loaded *)
(* its car and not committed.                                              *)
FormsOK == /\ tab \in [Tab -> Form \cup {None}]
           /\ posted \in [Session -> Form \cup {None}]
           /\ \A s \in Session : posted[s] # None => pc[s] = "editing"

FInv == IInv /\ PcOK /\ FormsOK

LEMMA FormFacts ==
    /\ FormColumns \subseteq Columns /\ FormField \subseteq Field
    /\ "price" \in FormField /\ NamePart \subseteq FormField /\ "status" \in FormField
    /\ \A n \in NamePart : n \notin FormColumns /\ n # "status"
    /\ "status" \notin FormColumns
BY FieldFacts DEF FormColumns, FormField, Field

(* A value that is rendered and posted back is still one of its field.     *)
LEMMA EchoTyped ==
    ASSUME NEW car \in Car, NEW f \in FormField
    PROVE  Echo(f, Get(car, f)) \in Input(f)
<1>1. CASE f \in NamePart
  <2>1. Get(car, f) \in Word /\ f # "description"
    BY <1>1 DEF Get, Car, Name, NamePart
  <2>2. Echo(f, Get(car, f)) \in Word
    BY <2>1, FormAssumption DEF Echo
  <2>3. Input(f) = Word
    BY <1>1, FieldFacts DEF Input
  <2> QED BY <2>2, <2>3
<1>2. CASE f = "status"
  <2>1. Get(car, f) \in Status /\ f \notin NamePart
    BY <1>2, FieldFacts DEF Get, Car
  <2>2. Echo(f, Get(car, f)) \in Status
    BY <1>2, <2>1, FormAssumption DEF Echo
  <2>3. Input(f) = Status
    BY <1>2, <2>1 DEF Input
  <2> QED BY <2>2, <2>3
<1>3. CASE f \in FormColumns
  <2>1. Get(car, f) \in Value \cup {None} /\ f \notin NamePart /\ f # "status"
    BY <1>3, FormFacts DEF Get, Car, Cells
  <2>2. Echo(f, Get(car, f)) \in Value \cup {None}
    BY <2>1, FormAssumption DEF Echo
  <2> QED BY <2>1, <2>2 DEF Input
<1> QED BY <1>1, <1>2, <1>3 DEF FormField

LEMMA FormPayloadTyped ==
    ASSUME NEW form \in Form, Valid(form)
    PROVE  FormPayload(form) \in Payload
<1>1. \A f \in FormField : form.input[f] \in Input(f)
  BY DEF Form
<1>2. Restrict(form.input, NamePart) \in Name /\ form.input["status"] \in Status
  <2>1. ASSUME NEW n \in NamePart PROVE form.input[n] \in Word
    <3>1. Input(n) = Word
      BY FieldFacts DEF Input
    <3> QED BY <1>1, <3>1, FormFacts
  <2>2. form.input["status"] \in Status
    <3>1. Input("status") = Status
      BY FieldFacts DEF Input
    <3> QED BY <1>1, <3>1, FormFacts
  <2> QED BY <2>1, <2>2 DEF Restrict, Name
<1>3. \A c \in FormColumns : form.input[c] \in Value \cup {None}
  <2> TAKE c \in FormColumns
  <2>1. form.input[c] \in Input(c) /\ c \notin NamePart /\ c # "status"
    BY <1>1, FormFacts DEF FormField
  <2> QED BY <2>1 DEF Input, Valid
<1> QED BY <1>2, <1>3 DEF FormPayload, Payload, Name

-----------------------------------------------------------------------------

(* What an edit may do to the place of a request in its handler.           *)
LEMMA EditPlaces ==
    ASSUME PcOK, NEW s \in Session, Edit(s)
    PROVE  PcOK' /\ \A q \in Session \ {s} : pc'[q] = pc[q]
<1>1. pc' = pc \/ \E label \in EditPC : pc' = [pc EXCEPT ![s] = label]
  BY DEF Edit, Handle, BeginEdit, NotFound, CreateCar, UpdateCar, PublishCar,
     ArchiveCar, SoftDeleteCar, InvalidateAfterEdit, CrashInEdit, Commit, Goto, EditPC
<1> QED BY <1>1 DEF PcOK

LEMMA FormInitInv == FormInit => FInv
<1> SUFFICES ASSUME FormInit PROVE FInv
  OBVIOUS
<1>1. IInv /\ PcOK
  BY InitIInv DEF FormInit, Init, PcOK, EditPC
<1> QED BY <1>1 DEF FormInit, FInv, FormsOK

LEMMA FormNextInv ==
    ASSUME FInv, [FormNext]_vars PROVE FInv'
<1>1. IInv /\ PcOK /\ tab \in [Tab -> Form \cup {None}]
      /\ posted \in [Session -> Form \cup {None}] /\ cars \in Table
  BY DEF FInv, FormsOK, IInv, TableOK
<1>2. CASE UNCHANGED vars
  BY <1>2 DEF vars, carVars, formVars, FInv, FormsOK, PcOK, IInv, TableOK, LoadedExist,
     EidUnique, EidsUnique, Ids, EntryOK
<1>3. ASSUME NoCommit, UNCHANGED <<cacheBehind, pc, loaded, posted>>,
             tab' \in [Tab -> Form \cup {None}]
      PROVE  FInv'
  <2>1. IInv'
    BY <1>1, <1>3, NoCommitIInv DEF IInv, TableOK, LoadedExist, NoCommit, Ids
  <2> QED BY <1>3, <2>1 DEF FInv, FormsOK, PcOK
<1>4. ASSUME NEW b \in Tab, NEW i \in CarId, OpenForm(b, i) PROVE FInv'
  <2> DEFINE form == [car |-> i, read |-> cars[i],
                      input |-> [f \in FormField |-> Echo(f, Get(cars[i], f))]]
  <2>1. cars[i] \in Car
    BY <1>1, <1>4 DEF OpenForm, Table, Ids
  <2>2. form \in Form
    BY <2>1, EchoTyped DEF Form
  <2>3. tab' = [tab EXCEPT ![b] = form]
    BY <1>4 DEF OpenForm
  <2> HIDE DEF form
  <2>4. tab' \in [Tab -> Form \cup {None}]
    BY <1>1, <2>2, <2>3
  <2> QED BY <1>3, <1>4, <2>4 DEF OpenForm
<1>5. ASSUME NEW b \in Tab, NEW t \in Typed, Type(b, t[1], t[2]) PROVE FInv'
  <2>1. tab[b] \in Form /\ t[1] \in FormField /\ t[2] \in Input(t[1])
    BY <1>1, <1>5, FormAssumption DEF Type
  <2>2. [tab[b] EXCEPT !.input[t[1]] = t[2]] \in Form
    BY <2>1 DEF Form
  <2>3. tab' = [tab EXCEPT ![b] = [tab[b] EXCEPT !.input[t[1]] = t[2]]]
    BY <1>5 DEF Type
  <2>4. tab' \in [Tab -> Form \cup {None}]
    BY <1>1, <2>2, <2>3
  <2> QED BY <1>3, <1>5, <2>4 DEF Type
<1>6. ASSUME NEW s \in Session, NEW b \in Tab, BeginPost(s, b) PROVE FInv'
  <2>1. tab[b] \in Form /\ tab[b].car \in CarId /\ BeginEdit(s, tab[b].car)
    BY <1>1, <1>6 DEF BeginPost, Form
  <2>2. IInv'
    BY <1>1, <2>1, BeginEditIInv
  <2>3. pc' = [pc EXCEPT ![s] = "editing"] /\ posted' = [posted EXCEPT ![s] = tab[b]]
        /\ tab' = tab
    BY <1>6, <2>1 DEF BeginPost, BeginEdit, Goto
  <2> QED BY <1>1, <2>1, <2>2, <2>3 DEF FInv, FormsOK, PcOK, EditPC
<1>7. ASSUME NEW s \in Session, NEW b \in Tab, FormNotFound(s, b) PROVE FInv'
  <2>1. NoCommit /\ UNCHANGED <<cacheBehind, pc, loaded, posted, tab>>
    BY <1>7 DEF FormNotFound, NotFound, formVars
  <2> QED BY <1>1, <1>3, <2>1
<1>8. ASSUME NEW s \in Session, IInv', PcOK', \A q \in Session \ {s} : pc'[q] = pc[q],
             posted' \in [Session -> Form \cup {None}], posted'[s] = None, tab' = tab,
             \A q \in Session \ {s} : posted'[q] = posted[q]
      PROVE  FInv'
  BY <1>1, <1>8 DEF FInv, FormsOK
<1>9. ASSUME NEW s \in Session, SaveForm(s) PROVE FInv'
  <2>1. posted[s] \in Form /\ posted[s].car \in CarId /\ Valid(posted[s])
    BY <1>1, <1>9 DEF SaveForm, Form
  <2>2. IInv'
    BY <1>1, <1>9, <2>1, FormPayloadTyped, UpdateCarIInv DEF SaveForm
  <2>3. pc' = [pc EXCEPT ![s] = "edited"] /\ posted' = [posted EXCEPT ![s] = None]
        /\ tab' = tab
    BY <1>9 DEF SaveForm, UpdateCar, Commit, Goto
  <2> QED BY <1>1, <1>8, <2>2, <2>3 DEF PcOK, EditPC
<1>10. ASSUME NEW s \in Session, RefuseForm(s) PROVE FInv'
  <2>1. Nothing \in Table /\ \A i \in CarId : Nothing[i] = NoCar
    BY DEF Nothing, Table
  <2>2. IInv'
    BY <1>1, <1>10, <2>1, NoCommitIInv
       DEF RefuseForm, Forget, IInv, TableOK, LoadedExist, NoCommit, Ids
  <2> QED BY <1>1, <1>8, <1>10, <2>2 DEF RefuseForm, Goto, PcOK, EditPC
<1>11. ASSUME NEW s \in Session, CrashInForm(s) PROVE FInv'
  <2>1. Edit(s)
    BY <1>11 DEF CrashInForm, Edit
  <2>2. IInv' /\ PcOK' /\ \A q \in Session \ {s} : pc'[q] = pc[q]
    BY <1>1, <2>1, EditIInv, EditPlaces
  <2> QED BY <1>1, <1>8, <1>11, <2>2 DEF CrashInForm
<1>12. ASSUME NEW s \in Session, OtherEdit(s) PROVE FInv'
  <2>1. IInv' /\ PcOK' /\ \A q \in Session \ {s} : pc'[q] = pc[q]
    BY <1>1, <1>12, EditIInv, EditPlaces DEF OtherEdit
  <2> QED BY <1>1, <1>8, <1>12, <2>1 DEF OtherEdit, formVars
<1>13. ASSUME NEW s \in Session, NEW i \in CarId, NEW input \in CreatePayloads,
              PostNew(s, i, input)
       PROVE  FInv'
  <2>1. input \in Car
    BY PayloadAssumption
  <2>2. NewCar(input) \in Car
    <3>1. \A c \in Columns : Echo(c, input.cols[c]) \in Value \cup {None}
      BY <2>1, FormAssumption DEF Echo, Car, Cells
    <3> QED BY <2>1, <3>1 DEF NewCar, Car, Cells, Source
  <2>3. IInv'
    BY <1>1, <1>13, <2>2, CreateCarIInv DEF PostNew
  <2>4. pc[s] = "idle" /\ pc' = [pc EXCEPT ![s] = "edited"] /\ UNCHANGED formVars
    BY <1>13 DEF PostNew, CreateCar, Commit, Goto
  <2>5. posted[s] = None
    BY <2>4 DEF FInv, FormsOK
  <2> QED BY <1>1, <1>8, <2>3, <2>4, <2>5 DEF PcOK, EditPC, formVars
<1> QED BY <1>2, <1>4, <1>5, <1>6, <1>7, <1>9, <1>10, <1>11, <1>12, <1>13 DEF FormNext

THEOREM FormSpecInv == FormSpec => []FInv
BY FormInitInv, FormNextInv, PTL DEF FormSpec

-----------------------------------------------------------------------------

(* Only SaveForm writes the form of a request.                             *)
LEMMA SavesOnlyBySaveForm ==
    ASSUME FInv, FormNext, NEW s \in Session, Saves(s)
    PROVE  SaveForm(s)
<1>1. posted[s] # None /\ pc[s] = "editing" /\ pc'[s] = "edited"
      /\ pc \in [Session -> EditPC]
  BY DEF Saves, FInv, FormsOK, PcOK
<1>2. ASSUME NEW q \in Session, OtherEdit(q) PROVE FALSE
  <2>1. q # s
    BY <1>1, <1>2 DEF OtherEdit
  <2> QED BY <1>1, <1>2, <2>1, EditPlaces DEF OtherEdit, FInv
<1>3. ASSUME NEW q \in Session, RefuseForm(q) \/ CrashInForm(q) PROVE FALSE
  BY <1>1, <1>3 DEF RefuseForm, CrashInForm, CrashInEdit, Goto
<1>4. ASSUME NEW q \in Session, SaveForm(q) PROVE q = s
  BY <1>1, <1>4 DEF SaveForm, UpdateCar, Commit, Goto
<1>5. ASSUME NEW q \in Session, NEW b \in Tab, BeginPost(q, b) \/ FormNotFound(q, b)
      PROVE FALSE
  BY <1>1, <1>5 DEF BeginPost, BeginEdit, FormNotFound, NotFound, Goto
<1>6. ASSUME NEW q \in Session, NEW i, NEW input, PostNew(q, i, input) PROVE FALSE
  <2>1. pc[q] = "idle" /\ pc' = [pc EXCEPT ![q] = "edited"]
    BY <1>6 DEF PostNew, CreateCar, Commit, Goto
  <2> QED BY <1>1, <2>1
<1>7. ASSUME UNCHANGED pc PROVE FALSE
  BY <1>1, <1>7
<1> QED BY <1>2, <1>3, <1>4, <1>5, <1>6, <1>7 DEF FormNext, OpenForm, Type

(* What a save does to the car: a field that differs in the form from the  *)
(* car as the request has loaded it becomes what the form says, every      *)
(* other one stays as it is at the commit.                                 *)
LEMMA SaveWrites ==
    ASSUME FInv, NEW s \in Session, SaveForm(s)
    PROVE  LET form == posted[s]
               i == form.car
           IN /\ form \in Form /\ i \in CarId /\ cars[i] \in Car /\ loaded[s][i] \in Car
              /\ cars'[i] = SetFields(cars[i], FormPayload(form),
                                      Changed(loaded[s][i], FormPayload(form)))
              /\ \A f \in FormField : PayloadValue(FormPayload(form), f) = form.input[f]
              /\ \A f \in FormField : form.input[f] # Unset
              /\ \A f \in Columns \ FormColumns :
                    PayloadValue(FormPayload(form), f) = Unset
<1> DEFINE form == posted[s]
           i == form.car
<1>1. form \in Form /\ i \in CarId /\ Valid(form) /\ UpdateCar(s, i, FormPayload(form))
  BY DEF SaveForm, FInv, FormsOK, Form
<1>2. loaded[s][i] \in Car /\ cars[i] \in Car /\ cars \in Table
  BY <1>1, LoadedCar DEF UpdateCar, FInv
<1>3. cars'[i] = SetFields(cars[i], FormPayload(form),
                           Changed(loaded[s][i], FormPayload(form)))
  BY <1>1, <1>2 DEF UpdateCar, Commit, Table
<1>4. \A f \in FormField : PayloadValue(FormPayload(form), f) = form.input[f]
  <2> TAKE f \in FormField
  <2>1. CASE f \in NamePart
    BY <2>1 DEF PayloadValue, FormPayload, Restrict
  <2>2. CASE f = "status"
    BY <2>2, FormFacts DEF PayloadValue, FormPayload
  <2>3. CASE f \in FormColumns
    BY <2>3, FormFacts DEF PayloadValue, FormPayload
  <2> QED BY <2>1, <2>2, <2>3 DEF FormField
<1>5. \A f \in Columns \ FormColumns : PayloadValue(FormPayload(form), f) = Unset
  BY FieldFacts DEF PayloadValue, FormPayload
<1>6. \A f \in FormField : form.input[f] # Unset
  <2> TAKE f \in FormField
  <2>1. form.input[f] \in Input(f)
    BY <1>1 DEF Form
  <2>2. Unset \notin Input(f)
    BY PayloadAssumption, FormAssumption DEF Input
  <2> QED BY <2>1, <2>2
<1> HIDE DEF form
<1> QED BY <1>1, <1>2, <1>3, <1>4, <1>5, <1>6 DEF form

(* A save resets no field by itself: what it changes without the operator  *)
(* having touched it had been changed by somebody else since the form was  *)
(* opened (OnlyStaleFormsRevert).                                          *)
THEOREM SpecOnlyStaleRevert == FormSpec => OnlyStaleFormsRevert
<1> DEFINE P(s) ==
      LET form == posted[s]
          was(f) == Get(cars[form.car], f)
          now(f) == Get(cars'[form.car], f)
      IN \A f \in Untouched(form) :
            now(f) # was(f) => \/ was(f) # Get(form.read, f)
                               \/ now(f) = Echo(f, was(f))
<1>1. ASSUME FInv, FormNext, NEW s \in Session, Saves(s) PROVE P(s)
  <2> DEFINE form == posted[s]
             i == form.car
  <2> SUFFICES ASSUME NEW f \in Untouched(form),
                      Get(cars'[i], f) # Get(cars[i], f),
                      Get(cars[i], f) = Get(form.read, f)
               PROVE  Get(cars'[i], f) = Echo(f, Get(cars[i], f))
    OBVIOUS
  <2>1. f \in FormField /\ form.input[f] = Echo(f, Get(form.read, f))
    BY DEF Untouched
  <2>2. SaveForm(s)
    BY <1>1, SavesOnlyBySaveForm
  <2> DEFINE p == FormPayload(form)
             fields == Changed(loaded[s][i], p)
  <2>3. cars[i] \in Car /\ cars'[i] = SetFields(cars[i], p, fields)
        /\ PayloadValue(p, f) = form.input[f]
    BY <1>1, <2>1, <2>2, SaveWrites
  <2> HIDE DEF p, fields, form
  <2>4. Get(cars'[i], f) = IF f \in fields THEN PayloadValue(p, f) ELSE Get(cars[i], f)
    BY <2>1, <2>3, FormFacts, GetSetFields
  <2> QED BY <2>1, <2>3, <2>4
<1>2. FInv /\ [FormNext]_vars => [\A s \in Session : Saves(s) => P(s)]_vars
  BY <1>1
<1> QED BY FormSpecInv, <1>2, PTL DEF FormSpec, OnlyStaleFormsRevert

(* What a save makes of a field of the form: the value that the form shows *)
(* or, if it writes nothing, the current one.                              *)
LEMMA SavedField ==
    ASSUME NEW current \in Car, NEW read \in Car, NEW p, NEW input,
           NEW f \in FormField, PayloadValue(p, f) = input[f], input[f] # Unset
    PROVE  Get(SetFields(current, p, Changed(read, p)), f) \in
              {input[f]} \cup (IF current = read THEN {} ELSE {Get(current, f)})
<1> DEFINE fields == Changed(read, p)
           now == SetFields(current, p, fields)
<1>1. f \in Field
  BY FormFacts
<1>2. Get(now, f) = IF f \in fields THEN PayloadValue(p, f) ELSE Get(current, f)
  <2> HIDE DEF fields
  <2> QED BY <1>1, GetSetFields
<1>3. f \notin fields => input[f] = Get(read, f)
  BY <1>1 DEF Changed
<1> HIDE DEF now, fields
<1>4. Get(now, f) \in {input[f]} \cup (IF current = read THEN {} ELSE {Get(current, f)})
  BY <1>2, <1>3
<1> QED BY <1>4 DEF now, fields

(* And of what the form does not show: nothing.                            *)
Hidden(car) == [car EXCEPT !.name = "", !.status = "draft",
                           !.cols = Restrict(@, Columns \ FormColumns)]

LEMMA HiddenStays ==
    ASSUME NEW current \in Car, NEW p, NEW fields,
           \A c \in Columns \ FormColumns : c \notin fields
    PROVE  Hidden(SetFields(current, p, fields)) = Hidden(current)
<1> DEFINE cols == [c \in Columns |-> IF c \in fields THEN p.cols[c] ELSE current.cols[c]]
           name == [n \in NamePart |-> IF n \in fields THEN p.name[n]
                                                      ELSE current.name[n]]
           status == IF "status" \in fields THEN p.status ELSE current.status
<1>1. SetFields(current, p, fields)
        = [current EXCEPT !.name = name, !.status = status, !.cols = cols]
  BY DEF SetFields
<1>2. Restrict(cols, Columns \ FormColumns) = Restrict(current.cols, Columns \ FormColumns)
  BY DEF Restrict
<1> HIDE DEF cols, name, status
<1>3. current = [eid |-> current.eid, name |-> current.name, cols |-> current.cols,
                 status |-> current.status, source |-> current.source,
                 deleted |-> current.deleted]
  BY DEF Car
<1> QED BY <1>1, <1>2, <1>3 DEF Hidden

(* A save that is not overtaken leaves the car as the form shows it, and   *)
(* no save changes what the form does not show (SavedAsShown).             *)
THEOREM SpecSavedAsShown == FormSpec => SavedAsShown
<1> DEFINE P(s) ==
      LET form == posted[s]
          i == form.car
          hidden(car) == [car EXCEPT !.name = "", !.status = "draft",
                                     !.cols = Restrict(@, Columns \ FormColumns)]
      IN /\ \A f \in FormField :
               Get(cars'[i], f) \in
                  {form.input[f]} \cup (IF cars[i] = loaded[s][i] THEN {}
                                        ELSE {Get(cars[i], f)})
         /\ hidden(cars'[i]) = hidden(cars[i])
<1>1. ASSUME FInv, FormNext, NEW s \in Session, Saves(s) PROVE P(s)
  <2> DEFINE form == posted[s]
             i == form.car
             car == loaded[s][i]
             p == FormPayload(form)
             fields == Changed(car, p)
  <2>1. SaveForm(s)
    BY <1>1, SavesOnlyBySaveForm
  <2>2. /\ cars[i] \in Car /\ car \in Car /\ cars'[i] = SetFields(cars[i], p, fields)
        /\ \A f \in FormField : PayloadValue(p, f) = form.input[f] /\ form.input[f] # Unset
        /\ \A f \in Columns \ FormColumns : PayloadValue(p, f) = Unset
    BY <1>1, <2>1, SaveWrites
  <2>3. ASSUME NEW f \in FormField
        PROVE  Get(cars'[i], f) \in
                 {form.input[f]} \cup (IF cars[i] = car THEN {} ELSE {Get(cars[i], f)})
    <3>1. /\ cars[i] \in Car /\ car \in Car /\ cars'[i] = SetFields(cars[i], p, fields)
          /\ PayloadValue(p, f) = form.input[f] /\ form.input[f] # Unset
      BY <2>2
    <3> DEFINE value == form.input[f]
               now == cars'[i]
               current == cars[i]
    <3> HIDE DEF form, i, car, p, value, now, current
    <3>2. Get(SetFields(current, p, Changed(car, p)), f)
            \in {value} \cup (IF current = car THEN {} ELSE {Get(current, f)})
      BY <3>1, SavedField DEF fields, value, current
    <3> QED BY <3>1, <3>2 DEF fields, value, now, current
  <2>4. \A c \in Columns \ FormColumns : c \notin fields
    BY <2>2 DEF Changed
  <2>5. Hidden(cars'[i]) = Hidden(cars[i])
    <3>1. cars[i] \in Car /\ cars'[i] = SetFields(cars[i], p, fields)
      BY <2>2
    <3> DEFINE current == cars[i]
    <3> HIDE DEF form, i, car, p, fields, current
    <3>2. Hidden(SetFields(current, p, fields)) = Hidden(current)
      BY <3>1, <2>4, HiddenStays DEF current
    <3> QED BY <3>1, <3>2 DEF current
  <2> QED BY <2>3, <2>5 DEF Hidden
<1>2. FInv /\ [FormNext]_vars => [\A s \in Session : Saves(s) => P(s)]_vars
  BY <1>1
<1> QED BY FormSpecInv, <1>2, PTL DEF FormSpec, SavedAsShown

-----------------------------------------------------------------------------
(* The forms and the audit log.                                            *)

LEMMA FormStepAudit ==
    ASSUME FInv, FormNext, NEW i \in CarId, cars'[i] # cars[i]
    PROVE  AccountedFor(i)
<1>1. IInv /\ cars \in Table
  BY DEF FInv, IInv, TableOK
<1>2. ASSUME NEW s \in Session, SaveForm(s) PROVE AccountedFor(i)
  <2>1. /\ posted[s].car \in CarId /\ FormPayload(posted[s]) \in Payload
        /\ UpdateCar(s, posted[s].car, FormPayload(posted[s]))
    BY <1>2, FormPayloadTyped DEF SaveForm, FInv, FormsOK, Form
  <2>2. AccountedFor(posted[s].car)
    BY <1>1, <2>1, UpdateCarAudit
  <2>3. i = posted[s].car
    BY <1>1, <2>1 DEF UpdateCar, Commit, Table
  <2> QED BY <2>2, <2>3
<1>3. ASSUME NEW s \in Session, OtherEdit(s) \/ CrashInForm(s) PROVE AccountedFor(i)
  BY <1>1, <1>3, EditAudit DEF OtherEdit, CrashInForm, Edit
<1>4. ASSUME NEW s \in Session, NEW j \in CarId, NEW input, PostNew(s, j, input)
      PROVE  AccountedFor(i)
  BY <1>1, <1>4, CreateCarAudit DEF PostNew
<1>5. CASE NoCommit
  BY <1>5 DEF NoCommit
<1> QED BY <1>2, <1>3, <1>4, <1>5
        DEF FormNext, OpenForm, Type, BeginPost, BeginEdit, FormNotFound, NotFound, RefuseForm

(* What the forms save is accounted for in the audit log like any other    *)
(* edit, whatever an operator types and however old the form is, and no    *)
(* two cars come to share an excel_row_id (AuditCoversCommit, EidUnique).  *)
THEOREM FormSpecAudit == FormSpec => []EidUnique /\ AuditCoversCommit
<1>1. FInv => EidUnique
  BY DEF FInv, IInv
<1>2. FInv /\ [FormNext]_vars =>
        [\A i \in CarId : cars'[i] # cars[i] => AccountedFor(i)]_carVars
  BY FormStepAudit DEF vars, carVars
<1> QED BY FormSpecInv, <1>1, <1>2, PTL DEF FormSpec, AuditCoversCommit

=============================================================================
