----------------------------- MODULE CarImages -----------------------------
(***************************************************************************)
(* The images of cars: rows of car_images, the copy of them that each car  *)
(* carries in images_json, the files, and the Celery tasks that make the   *)
(* WebP variants.  Upload, reorder and delete run concurrently; each reads *)
(* the car, flushes its row changes (which stay private until the commit,  *)
(* behind row locks), reads the rows back for images_json, and commits.    *)
(* A file, in contrast, is there or gone as soon as the call returns.      *)
(*                                                                         *)
(* Each handler ends with invalidate_cars_cache, which is in CarsCache.     *)
(* Image ids come from a sequence; the name of a file is a fresh uuid, and *)
(* here the id of its image.                                               *)
(***************************************************************************)
EXTENDS Integers, Sequences, FiniteSets, Functions

CONSTANTS
    CarId,       \* cars whose images are edited
    MaxImage,    \* bound on the ids that the sequence hands out
    Corrupt,     \* images that Pillow cannot open
    Orders,      \* the id lists that a reorder request may carry
    MaxRequests, \* bound on the requests that are served
    Session,     \* requests that may be in progress at the same time
    MaxRetries,  \* of image_optimize_task: 3 in the code
    MayCrash,    \* TRUE: a web worker may die in a request
    None

ImageId == 1..MaxImage
MaxBatch == 2   \* bound on the images of one upload

ImageRow == [car : CarId, order : Nat]

ASSUME ImagesAssumption ==
    /\ MaxImage \in Nat /\ MaxRetries \in Nat /\ MaxRequests \in Nat
    /\ Corrupt \subseteq ImageId
    /\ Orders \subseteq Seq(ImageId)
    /\ MayCrash \in BOOLEAN /\ None \notin ImageRow \cup CarId \cup Nat

VARIABLES
    rows,       \* the committed car_images
    imagesJson, \* cars.images_json
    deleted,    \* the soft-deleted cars
    last,       \* the latest id of the sequence
    served,     \* requests so far
    files,      \* the uploaded files on disk
    variants,   \* the images whose WebP variants are on disk
    tasks,      \* retries so far of each queued image_optimize_task
    working,    \* the tasks a worker is at
    pc, req,    \* where each request stands, and what it holds
    pend,       \* the row changes each request has flushed
    alone,      \* history: running requests that no commit has overtaken
    abandoned   \* history: images whose request died half-way

dbVars == <<rows, imagesJson, deleted>>
diskVars == <<files, variants>>
taskVars == <<tasks, working>>
reqVars == <<pc, req, pend>>
histVars == <<alone, abandoned>>
vars == <<dbVars, last, served, diskVars, taskVars, reqVars, histVars>>

NoReq == [kind |-> "none", car |-> None, ids |-> <<>>, json |-> <<>>,
          seen |-> <<>>, list |-> <<>>]
NoRows == <<>>   \* the function with an empty domain

Init ==
    /\ rows = [i \in ImageId |-> None]
    /\ imagesJson = [c \in CarId |-> <<>>]
    /\ deleted = {} /\ last = 0 /\ served = 0
    /\ files = {} /\ variants = {}
    /\ tasks = [i \in ImageId |-> None] /\ working = {}
    /\ pc = [s \in Session |-> "idle"]
    /\ req = [s \in Session |-> NoReq]
    /\ pend = [s \in Session |-> NoRows]
    /\ alone = {} /\ abandoned = {}

Goto(s, label) == pc' = [pc EXCEPT ![s] = label]
Held(s, r) == req' = [req EXCEPT ![s] = r]

(* The table as the transaction of s sees it: its own changes first.       *)
Sees(s) == [i \in ImageId |-> IF i \in DOMAIN pend[s] THEN pend[s][i] ELSE rows[i]]
ImagesOf(table, c) == {i \in ImageId : table[i] # None /\ table[i].car = c}

(* A flush that writes rows `ids` waits for the transactions that have     *)
(* written one of them.                                                    *)
Unlocked(s, ids) == \A t \in Session \ {s} : DOMAIN pend[t] \cap ids = {}

-----------------------------------------------------------------------------

Begin(s, kind, c, ids, label) ==
    /\ pc[s] = "idle" /\ served < MaxRequests
    /\ served' = served + 1
    /\ Held(s, [kind |-> kind, car |-> c, ids |-> ids, json |-> imagesJson[c],
                seen |-> <<>>, list |-> <<>>])
    /\ alone' = alone \cup {s}
    /\ Goto(s, label)
    /\ UNCHANGED <<dbVars, last, diskVars, taskVars, pend, abandoned>>

BeginUpload(s, c) == c \notin deleted /\ Begin(s, "upload", c, <<>>, "loaded")

BeginReorder(s, c, order) ==
    c \notin deleted /\ Begin(s, "reorder", c, order, "loaded")

BeginDelete(s, i) ==
    rows[i] # None /\ Begin(s, "delete", rows[i].car, <<i>>, "deleting")

(* 404: the car is soft-deleted, or the image has no row.                  *)
NotFound(s) ==
    /\ pc[s] = "idle"
    /\ deleted # {} \/ \E i \in ImageId : rows[i] = None
    /\ UNCHANGED vars

(* Mutant: image_optimize_task.delay is called in the loop.                *)
SaveImagesAndQueue(s, n) ==
    /\ pc[s] = "loaded" /\ req[s].kind = "upload"
    /\ last + n <= MaxImage
    /\ LET new == (last + 1)..(last + n)
           start == Len(req[s].json)
       IN /\ files' = files \cup new
          /\ pend' = [pend EXCEPT ![s] =
                [i \in new |-> [car |-> req[s].car, order |-> start + i - last - 1]]]
          /\ tasks' = [i \in ImageId |-> IF i \in new THEN 0 ELSE tasks[i]]
    /\ last' = last + n
    /\ Goto(s, "flushed")
    /\ UNCHANGED <<dbVars, served, variants, working, req, histVars>>

(* The loop over the uploads: n files are written and n rows are flushed,  *)
(* behind those that images_json listed when the car was loaded.  Nobody   *)
(* else sees these rows or knows these files, so the loop is one step.     *)
SaveImages(s, n) ==
    /\ pc[s] = "loaded" /\ req[s].kind = "upload"
    /\ last + n <= MaxImage
    /\ LET new == (last + 1)..(last + n)
           start == Len(req[s].json)
       IN /\ files' = files \cup new
          /\ pend' = [pend EXCEPT ![s] =
                [i \in new |-> [car |-> req[s].car, order |-> start + i - last - 1]]]
          /\ Held(s, [req[s] EXCEPT !.ids = [j \in 1..n |-> last + j]])
    /\ last' = last + n
    /\ Goto(s, "flushed")
    /\ UNCHANGED <<dbVars, served, variants, taskVars, histVars>>

(* The end of a request that has failed, or died: the transaction is       *)
(* rolled back, and what it did to files stays.                            *)
Fail(s) ==
    /\ pend' = [pend EXCEPT ![s] = NoRows]
    /\ alone' = alone \ {s}
    /\ Held(s, NoReq)
    /\ Goto(s, "idle")

(* 415 or 413 on the upload after the first n.                             *)
RejectImages(s, n) ==
    /\ pc[s] = "loaded" /\ req[s].kind = "upload"
    /\ last + n <= MaxImage
    /\ files' = files \cup ((last + 1)..(last + n))
    /\ last' = last + n
    /\ Fail(s)
    /\ UNCHANGED <<dbVars, served, variants, taskVars, abandoned>>

(* by_id of the reorder handler.                                           *)
LoadImages(s) ==
    /\ pc[s] = "loaded" /\ req[s].kind = "reorder"
    /\ Held(s, [req[s] EXCEPT !.seen =
                   [i \in ImagesOf(rows, req[s].car) |-> rows[i].order]])
    /\ Goto(s, "sorting")
    /\ UNCHANGED <<dbVars, last, served, diskVars, taskVars, pend, histVars>>

(* The sort_order an image gets: the last place it has in the list.        *)
PlaceIn(order, i) ==
    (CHOOSE j \in DOMAIN order :
        order[j] = i /\ \A k \in DOMAIN order : order[k] = i => k <= j) - 1

(* The rows whose sort_order differs from the one loaded.                  *)
Moved(s) == {i \in Range(req[s].ids) \cap DOMAIN req[s].seen :
                PlaceIn(req[s].ids, i) # req[s].seen[i]}
Vanished(s) == {i \in Moved(s) : rows[i] = None}

(* SQLAlchemy checks the row count of a single UPDATE and, depending on    *)
(* the driver, not that of several sent together.                          *)
FlushOrder(s) ==
    /\ pc[s] = "sorting"
    /\ Unlocked(s, Moved(s))
    /\ Vanished(s) = {} \/ Cardinality(Moved(s)) > 1
    /\ pend' = [pend EXCEPT ![s] =
                   [i \in Moved(s) \ Vanished(s) |->
                       [rows[i] EXCEPT !.order = PlaceIn(req[s].ids, i)]]]
    /\ Goto(s, "flushed")
    /\ UNCHANGED <<dbVars, last, served, diskVars, taskVars, req, histVars>>

(* StaleDataError: an UPDATE has matched no row.                           *)
FailOrder(s) ==
    /\ pc[s] = "sorting"
    /\ Unlocked(s, Moved(s))
    /\ Vanished(s) # {}
    /\ Fail(s)
    /\ UNCHANGED <<dbVars, last, served, diskVars, taskVars, abandoned>>

(* cars_storage.delete looks for the file and unlinks it in a thread.      *)
LookForFile(s) ==
    /\ pc[s] = "deleting"
    /\ Goto(s, IF req[s].ids[1] \in files THEN "unlinking" ELSE "fileRemoved")
    /\ UNCHANGED <<dbVars, last, served, diskVars, taskVars, req, pend, histVars>>

Unlink(s) ==
    /\ pc[s] = "unlinking" /\ req[s].ids[1] \in files
    /\ files' = files \ {req[s].ids[1]}
    /\ Goto(s, "fileRemoved")
    /\ UNCHANGED <<dbVars, last, served, variants, taskVars, req, pend, histVars>>

(* FileNotFoundError: another request has unlinked it in between.          *)
FailUnlink(s) ==
    /\ pc[s] = "unlinking" /\ req[s].ids[1] \notin files
    /\ Fail(s)
    /\ UNCHANGED <<dbVars, last, served, diskVars, taskVars, abandoned>>

(* Mutant: a request on a soft-deleted car ends here, after the file.      *)
FlushDeleteOfLiveCar(s) ==
    /\ pc[s] = "fileRemoved"
    /\ Unlocked(s, Range(req[s].ids))
    /\ IF req[s].car \in deleted
       THEN Fail(s)
       ELSE /\ pend' = [pend EXCEPT ![s] = [i \in Range(req[s].ids) |-> None]]
            /\ Held(s, [req[s] EXCEPT !.json = imagesJson[req[s].car]])
            /\ Goto(s, "flushed")
            /\ UNCHANGED alone
    /\ UNCHANGED <<dbVars, last, served, diskVars, taskVars, abandoned>>

(* DELETE, which warns only when the row is gone, and get_car.  Without a  *)
(* live car images_json stays as it is.                                    *)
FlushDelete(s) ==
    /\ pc[s] = "fileRemoved"
    /\ Unlocked(s, Range(req[s].ids))
    /\ pend' = [pend EXCEPT ![s] = [i \in Range(req[s].ids) |-> None]]
    /\ LET json == imagesJson[req[s].car]
       IN Held(s, [req[s] EXCEPT !.json = json, !.list = json])
    /\ Goto(s, IF req[s].car \in deleted THEN "refreshed" ELSE "flushed")
    /\ UNCHANGED <<dbVars, last, served, diskVars, taskVars, histVars>>

(* An entry of images_json.  The rows a reorder has loaded keep in memory  *)
(* the sort_order they were loaded or flushed with.                        *)
JsonEntry(s, i) ==
    [id |-> i, order |-> IF i \in DOMAIN req[s].seen \ DOMAIN pend[s]
                         THEN req[s].seen[i] ELSE Sees(s)[i].order]

(* Mutant: no ORDER BY sort_order.                                         *)
ListingsInAnyOrder(s) ==
    LET ids == ImagesOf(Sees(s), req[s].car)
    IN {[j \in DOMAIN q |-> JsonEntry(s, q[j])] :
           q \in Bijection(1..Cardinality(ids), ids)}

(* Mutant: the SELECT comes before the flush (autoflush is off).           *)
ListingsUnflushed(s) ==
    LET ids == ImagesOf(rows, req[s].car) \cap ImagesOf(Sees(s), req[s].car)
        sorted == {q \in Bijection(1..Cardinality(ids), ids) :
                      \A j, k \in DOMAIN q :
                         j < k => rows[q[j]].order <= rows[q[k]].order}
    IN {[j \in DOMAIN q |-> JsonEntry(s, q[j])] : q \in sorted}

(* What the SELECT of refresh_images_cache may return: equal sort_orders   *)
(* come in any order.                                                      *)
Listings(s) ==
    LET ids == ImagesOf(Sees(s), req[s].car)
        sorted == {q \in Bijection(1..Cardinality(ids), ids) :
                      \A j, k \in DOMAIN q :
                         j < k => Sees(s)[q[j]].order <= Sees(s)[q[k]].order}
    IN {[j \in DOMAIN q |-> JsonEntry(s, q[j])] : q \in sorted}

RefreshImagesCache(s) ==
    /\ pc[s] = "flushed"
    /\ \E q \in Listings(s) : Held(s, [req[s] EXCEPT !.list = q])
    /\ Goto(s, "refreshed")
    /\ UNCHANGED <<dbVars, last, served, diskVars, taskVars, pend, histVars>>

(* What a request still needs after its commit.                            *)
Uploaded(s) == IF req[s].kind = "upload" THEN req[s].ids ELSE <<>>

(* images_json is part of the UPDATE only if it differs from what the car  *)
(* had when it was loaded.                                                 *)
CommitImages(s) ==
    /\ pc[s] = "refreshed"
    /\ rows' = Sees(s)
    /\ imagesJson' = IF req[s].list = req[s].json THEN imagesJson
                     ELSE [imagesJson EXCEPT ![req[s].car] = req[s].list]
    /\ pend' = [pend EXCEPT ![s] = NoRows]
    /\ alone' = {}
    /\ Held(s, [NoReq EXCEPT !.ids = Uploaded(s)])
    /\ Goto(s, "committed")
    /\ UNCHANGED <<deleted, last, served, diskVars, taskVars, abandoned>>

Enqueue(ids) == tasks' = [i \in ImageId |-> IF i \in ids THEN 0 ELSE tasks[i]]

(* image_optimize_task.delay for each new image, and the end.              *)
FinishRequest(s) ==
    /\ pc[s] = "committed"
    /\ Enqueue(Range(req[s].ids))
    /\ Held(s, NoReq)
    /\ Goto(s, "idle")
    /\ UNCHANGED <<dbVars, last, served, diskVars, working, pend, histVars>>

-----------------------------------------------------------------------------

(* The request dies: among the calls of delay, so that some of its tasks   *)
(* are never queued, or before its commit.                                 *)
CrashAfterCommit(s, n) ==
    /\ MayCrash /\ pc[s] = "committed"
    /\ LET new == req[s].ids
       IN /\ n \in 0..Len(new)
          /\ Enqueue({new[j] : j \in 1..n})
          /\ abandoned' = abandoned \cup {new[j] : j \in (n + 1)..Len(new)}
    /\ Fail(s)
    /\ UNCHANGED <<dbVars, last, served, diskVars, working>>

CrashBeforeCommit(s) ==
    /\ MayCrash /\ pc[s] \notin {"idle", "committed"}
    /\ abandoned' = IF req[s].kind = "delete"
                    THEN abandoned \cup Range(req[s].ids) ELSE abandoned
    /\ Fail(s)
    /\ UNCHANGED <<dbVars, last, served, diskVars, taskVars>>

(* soft_delete_car commits.                                                *)
SoftDeleteCar(c) ==
    /\ c \notin deleted
    /\ deleted' = deleted \cup {c}
    /\ UNCHANGED <<rows, imagesJson, last, served, diskVars, taskVars, reqVars, histVars>>

(* A worker takes a task: the row or the file may be gone by then.         *)
StartOptimize(i) ==
    /\ tasks[i] # None /\ i \notin working
    /\ IF rows[i] # None /\ i \in files
       THEN working' = working \cup {i} /\ UNCHANGED tasks
       ELSE tasks' = [tasks EXCEPT ![i] = None] /\ UNCHANGED working
    /\ UNCHANGED <<dbVars, last, served, diskVars, reqVars, histVars>>

FinishOptimize(i) ==
    /\ i \in working /\ i \notin Corrupt
    /\ variants' = variants \cup {i}
    /\ tasks' = [tasks EXCEPT ![i] = None]
    /\ working' = working \ {i}
    /\ UNCHANGED <<dbVars, last, served, files, reqVars, histVars>>

(* Mutant: one retry too many.                                             *)
RetryOptimizeOnceMore(i) ==
    /\ i \in working /\ (i \in Corrupt \/ i \notin files)
    /\ tasks' = [tasks EXCEPT ![i] = IF @ <= MaxRetries THEN @ + 1 ELSE None]
    /\ working' = working \ {i}
    /\ UNCHANGED <<dbVars, last, served, diskVars, reqVars, histVars>>

(* Pillow raises; self.retry puts the task back until it has had enough.   *)
RetryOptimize(i) ==
    /\ i \in working /\ (i \in Corrupt \/ i \notin files)
    /\ tasks' = [tasks EXCEPT ![i] = IF @ < MaxRetries THEN @ + 1 ELSE None]
    /\ working' = working \ {i}
    /\ UNCHANGED <<dbVars, last, served, diskVars, reqVars, histVars>>

Upload(s) == \/ \E c \in CarId : BeginUpload(s, c)
             \/ \E n \in 1..MaxBatch : SaveImages(s, n)
             \/ \E n \in 0..MaxBatch - 1 : RejectImages(s, n)

Reorder(s) == \/ \E c \in CarId, order \in Orders : BeginReorder(s, c, order)
              \/ LoadImages(s) \/ FlushOrder(s) \/ FailOrder(s)

Delete(s) == \/ \E i \in ImageId : BeginDelete(s, i)
             \/ LookForFile(s) \/ Unlink(s) \/ FailUnlink(s) \/ FlushDelete(s)

Crash(s) == CrashBeforeCommit(s) \/ \E n \in 0..MaxImage : CrashAfterCommit(s, n)

Request(s) == \/ Upload(s) \/ Reorder(s) \/ Delete(s) \/ NotFound(s)
              \/ RefreshImagesCache(s) \/ CommitImages(s)
              \/ FinishRequest(s) \/ Crash(s)

Optimize(i) == StartOptimize(i) \/ FinishOptimize(i) \/ RetryOptimize(i)

Next == \/ \E s \in Session : Request(s)
        \/ \E c \in CarId : SoftDeleteCar(c)
        \/ \E i \in ImageId : Optimize(i)

Spec == Init /\ [][Next]_vars

(* A handler that has committed runs on, and the worker serves its queue.  *)
FairImages == /\ Spec
              /\ \A s \in Session : WF_vars(FinishRequest(s))
              /\ \A i \in ImageId : WF_vars(Optimize(i))

-----------------------------------------------------------------------------

ImagesTypeOK ==
    /\ rows \in [ImageId -> ImageRow \cup {None}]
    /\ \A c \in CarId : \A j \in DOMAIN imagesJson[c] : imagesJson[c][j].id \in 1..last
    /\ files \subseteq 1..last /\ variants \subseteq 1..last
    /\ tasks \in [ImageId -> 0..MaxRetries \cup {None}]
    /\ \A i \in working : tasks[i] # None
    /\ \A s \in Session : pc[s] = "idle" => req[s] = NoReq /\ s \notin alone
    /\ \A s, t \in Session : s # t => DOMAIN pend[s] \cap DOMAIN pend[t] = {}

(* images_json of car c lists its rows, each once, by sort_order.          *)
Mirrors(json, table, c) ==
    /\ {json[j].id : j \in DOMAIN json} = ImagesOf(table, c)
    /\ Len(json) = Cardinality(ImagesOf(table, c))
    /\ \A j \in DOMAIN json : json[j].order = table[json[j].id].order
    /\ \A j, k \in DOMAIN json : j < k => json[j].order <= json[k].order

(* Overlapping requests may leave an images_json that lists a removed      *)
(* image or lacks a new one.  Every later request on the car during which  *)
(* no other one commits puts it right, whatever state it was in            *)
(* (refresh_images_cache, car_service.py:180-188).                         *)
AloneRepairs ==
    [][\A s \in Session :
        LET c == req[s].car
        IN pc[s] = "refreshed" /\ pc'[s] = "committed" /\ s \in alone
              /\ c \notin deleted => Mirrors(imagesJson'[c], rows', c)]_vars

(* A reorder request that names every image of the car once, and meets no  *)
(* other commit, is obeyed: images_json is in the order it asked for       *)
(* (cars.py:206-211).                                                      *)
ReorderIsObeyed ==
    [][\A s \in Session :
        LET order == req[s].ids
            json == imagesJson'[req[s].car]
        IN pc[s] = "refreshed" /\ pc'[s] = "committed" /\ s \in alone
              /\ req[s].kind = "reorder" /\ IsInjective(order)
              /\ Range(order) = ImagesOf(rows, req[s].car)
           => [j \in DOMAIN json |-> json[j].id] = order]_vars

(* A row without its file is one whose deletion is under way, or died      *)
(* between the file and the commit (cars.py:228-234).                      *)
FilesOfRows ==
    \A i \in ImageId \ abandoned : rows[i] # None /\ i \notin files =>
        \E s \in Session : /\ req[s].kind = "delete" /\ req[s].ids = <<i>>
                           /\ pc[s] \in {"fileRemoved", "flushed", "refreshed"}

(* Every image that is committed gets its variants in the end, unless it   *)
(* is deleted, cannot be opened, or its request died before queueing the   *)
(* task (cars.py:183-185, tasks.py:37-61).                                 *)
OptimizedInTheEnd ==
    \A i \in ImageId \ Corrupt :
        rows[i] # None ~> \/ i \in variants \/ i \in abandoned
                          \/ rows[i] = None \/ i \notin files

=============================================================================
