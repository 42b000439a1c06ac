-------------------------- MODULE CarImagesProofs --------------------------
(***************************************************************************)
(* Proofs about CarImages for any number of cars, images, orders and       *)
(* requests, crashes included: a row loses its file only to its own        *)
(* deletion, and every request that no commit overtakes leaves images_json *)
(* the mirror of the rows, in the order a reorder asked for.               *)
(***************************************************************************)
EXTENDS CarImages, FiniteSetTheorems, TLAPS

Json == Seq([id : ImageId, order : Nat])
HeldRequest(seen) ==
    [kind : {"none", "upload", "reorder", "delete"}, car : CarId \cup {None},
     ids : Seq(ImageId), json : Json, seen : {seen}, list : Json]
Flushed == {"flushed", "refreshed"}
Places(kind) ==
    CASE kind = "upload" -> {"loaded"} \cup Flushed
      [] kind = "reorder" -> {"loaded", "sorting"} \cup Flushed
      [] kind = "delete" -> {"deleting", "unlinking", "fileRemoved"} \cup Flushed
      [] OTHER -> {"idle", "committed"}

(* What is stored, and that no id is ahead of the sequence.                *)
StoredOK ==
    /\ rows \in [ImageId -> ImageRow \cup {None}]
    /\ imagesJson \in [CarId -> Json]
    /\ last \in 0..MaxImage
    /\ files \subseteq 1..last /\ variants \subseteq 1..last
    /\ tasks \in [ImageId -> 0..MaxRetries \cup {None}]
    /\ working \subseteq {i \in ImageId : tasks[i] # None}
    /\ \A i \in ImageId : rows[i] # None \/ tasks[i] # None => i <= last
    /\ \A c \in CarId : \A j \in DOMAIN imagesJson[c] : imagesJson[c][j].id <= last

(* What a request holds is what its place in the handler calls for.        *)
RequestOK(s) ==
    /\ req[s] \in HeldRequest(req[s].seen)
    /\ DOMAIN req[s].seen \subseteq ImageId
    /\ \A i \in DOMAIN req[s].seen : req[s].seen[i] \in Nat
    /\ pc[s] \in Places(req[s].kind)
    /\ pc[s] = "idle" => req[s] = NoReq
    /\ req[s].kind # "none" => req[s].car \in CarId
    /\ req[s].kind = "delete" => \E i \in ImageId : req[s].ids = <<i>>
    /\ req[s].kind # "reorder" => \A j \in DOMAIN req[s].ids : req[s].ids[j] <= last
    /\ \A j \in DOMAIN req[s].json : req[s].json[j].id <= last
    /\ \A j \in DOMAIN req[s].list : req[s].list[j].id <= last

(* What a request has flushed: nothing, new rows whose files are there,    *)
(* new places of rows that it keeps locked, or the removal of its image.   *)
FlushOK(s) ==
    /\ pc[s] \notin Flushed => DOMAIN pend[s] = {}
    /\ DOMAIN pend[s] \subseteq 1..last
    /\ \A i \in DOMAIN pend[s] :
          CASE req[s].kind = "upload" ->
                  rows[i] = None /\ i \in files /\ pend[s][i] \in ImageRow
            [] req[s].kind = "reorder" ->
                  /\ rows[i] # None /\ pend[s][i] \in ImageRow
                  /\ pend[s][i].car = rows[i].car
            [] OTHER -> pend[s][i] = None
    /\ req[s].kind = "delete" /\ pc[s] \in Flushed =>
          \A i \in ImageId : req[s].ids = <<i>> => i \in DOMAIN pend[s]

Locked ==
    \A s, t \in Session : s # t => DOMAIN pend[s] \cap DOMAIN pend[t] = {}

(* Nobody deletes an image whose row is not committed.                     *)
Unknown ==
    \A s, t \in Session : \A i \in DOMAIN pend[t] :
        req[t].kind = "upload" => ~(req[s].kind = "delete" /\ req[s].ids = <<i>>)

(* What a request that no commit has overtaken knows.                      *)
AloneOK(s) ==
    s \in alone =>
        /\ req[s].kind # "none"
        /\ imagesJson[req[s].car] = req[s].json
        /\ req[s].kind # "reorder" => DOMAIN req[s].seen = {}
        /\ req[s].kind = "reorder" /\ pc[s] # "loaded" =>
              /\ DOMAIN req[s].seen = ImagesOf(rows, req[s].car)
              /\ \A i \in DOMAIN req[s].seen : req[s].seen[i] = rows[i].order
        /\ req[s].kind = "reorder" /\ pc[s] \in Flushed =>
              pend[s] = [i \in Moved(s) |->
                            [rows[i] EXCEPT !.order = PlaceIn(req[s].ids, i)]]
        /\ pc[s] = "refreshed" =>
              \/ req[s].list \in Listings(s)
              \/ req[s].kind = "delete" /\ req[s].car \in deleted

ImagesInv ==
    /\ StoredOK
    /\ DOMAIN pc = Session /\ DOMAIN req = Session /\ DOMAIN pend = Session
    /\ alone \subseteq Session
    /\ \A s \in Session : RequestOK(s) /\ FlushOK(s) /\ AloneOK(s)
    /\ Locked
    /\ Unknown
    /\ FilesOfRows

-----------------------------------------------------------------------------

(* The largest of a set of positions.                                      *)
LEMMA LargestPosition ==
    ASSUME NEW n \in Nat, NEW T \in SUBSET (1..n), T # {}
    PROVE  \E j \in T : \A k \in T : k <= j
  <1> DEFINE Gap == {n - j : j \in T}
  <1>1. Gap \subseteq Nat /\ Gap # {}
    <2>1. \A j \in T : j \in 1..n /\ n - j \in Nat
      OBVIOUS
    <2> QED  BY <2>1
  <1>2. PICK g \in Gap : \A h \in Gap : ~(<<h, g>> \in OpToRel(<, Nat))
    <2> HIDE DEF Gap
    <2> QED  BY <1>1, NatLessThanWellFounded, WFMin
  <1>3. \A h \in Gap : ~(h < g)
    BY <1>1, <1>2 DEF OpToRel
  <1>4. PICK j \in T : g = n - j
    OBVIOUS
  <1>5. \A k \in T : k <= j
    <2>1. \A k \in T : k \in Nat /\ n - k \in Gap
      OBVIOUS
    <2>2. \A k \in T : ~(n - k < n - j)
      BY <1>3, <1>4, <2>1
    <2> HIDE DEF Gap
    <2> QED  BY <2>1, <2>2
  <1> QED  BY <1>5

(* PlaceIn is the last position of the image in the list, from 0 up.       *)
LEMMA PlaceInIsLast ==
    ASSUME NEW order \in Seq(ImageId), NEW i \in Range(order)
    PROVE  /\ PlaceIn(order, i) \in Nat
           /\ \E j \in DOMAIN order : order[j] = i /\ PlaceIn(order, i) = j - 1
  <1> DEFINE T == {j \in DOMAIN order : order[j] = i}
  <1>1. /\ Len(order) \in Nat /\ T \in SUBSET (1..Len(order)) /\ T # {}
    BY DEF Range
  <1>2. \E j \in T : \A k \in T : k <= j
    <2> HIDE DEF T
    <2> QED  BY <1>1, LargestPosition
  <1>3. \E j \in DOMAIN order :
           order[j] = i /\ \A k \in DOMAIN order : order[k] = i => k <= j
    BY <1>2
  <1> DEFINE J == CHOOSE j \in DOMAIN order :
                     order[j] = i /\ \A k \in DOMAIN order : order[k] = i => k <= j
  <1>4. J \in DOMAIN order /\ order[J] = i
    BY <1>3
  <1>5. PlaceIn(order, i) = J - 1
    BY DEF PlaceIn
  <1> HIDE DEF J
  <1>6. J \in 1..Len(order)
    BY <1>4
  <1> QED  BY <1>1, <1>4, <1>5, <1>6

LEMMA HeldFields ==
    ASSUME NEW s \in Session, RequestOK(s)
    PROVE  /\ req[s].kind \in {"none", "upload", "reorder", "delete"}
           /\ req[s].ids \in Seq(ImageId) /\ req[s].json \in Json /\ req[s].list \in Json
  BY DEF RequestOK, HeldRequest

LEMMA HeldRecord ==
    ASSUME NEW kind \in {"none", "upload", "reorder", "delete"},
           NEW car \in CarId \cup {None}, NEW ids \in Seq(ImageId),
           NEW json \in Json, NEW seen, NEW list \in Json
    PROVE  [kind |-> kind, car |-> car, ids |-> ids, json |-> json,
            seen |-> seen, list |-> list] \in HeldRequest(seen)
  BY DEF HeldRequest

(* A handler changes these fields of what it holds, and no others.         *)
LEMMA HoldsIds ==
    ASSUME NEW s \in Session, RequestOK(s), NEW ids \in Seq(ImageId),
           req'[s] = [req[s] EXCEPT !.ids = ids]
    PROVE  /\ req'[s].kind = req[s].kind /\ req'[s].car = req[s].car
           /\ req'[s].ids = ids /\ req'[s].json = req[s].json
           /\ req'[s].seen = req[s].seen /\ req'[s].list = req[s].list
           /\ req'[s] \in HeldRequest(req'[s].seen)
  <1>1. req[s] \in HeldRequest(req[s].seen)
    BY DEF RequestOK
  <1> QED  BY <1>1 DEF HeldRequest

LEMMA HoldsSeen ==
    ASSUME NEW s \in Session, RequestOK(s), NEW seen,
           req'[s] = [req[s] EXCEPT !.seen = seen]
    PROVE  /\ req'[s].kind = req[s].kind /\ req'[s].car = req[s].car
           /\ req'[s].ids = req[s].ids /\ req'[s].json = req[s].json
           /\ req'[s].seen = seen /\ req'[s].list = req[s].list
           /\ req'[s] \in HeldRequest(req'[s].seen)
  <1>1. req[s] \in HeldRequest(req[s].seen)
    BY DEF RequestOK
  <1> QED  BY <1>1 DEF HeldRequest

LEMMA HoldsList ==
    ASSUME NEW s \in Session, RequestOK(s), NEW list \in Json,
           req'[s] = [req[s] EXCEPT !.list = list]
    PROVE  /\ req'[s].kind = req[s].kind /\ req'[s].car = req[s].car
           /\ req'[s].ids = req[s].ids /\ req'[s].json = req[s].json
           /\ req'[s].seen = req[s].seen /\ req'[s].list = list
           /\ req'[s] \in HeldRequest(req'[s].seen)
  <1>1. req[s] \in HeldRequest(req[s].seen)
    BY DEF RequestOK
  <1> QED  BY <1>1 DEF HeldRequest

LEMMA SequenceOf ==
    ASSUME NEW S, NEW n \in Nat, NEW f \in [1..n -> S]
    PROVE  f \in Seq(S) /\ Len(f) = n
  <1>1. f \in Seq(S)
    OBVIOUS
  <1>2. Len(f) \in Nat /\ 1..Len(f) = 1..n
    BY <1>1
  <1> QED  BY <1>1, <1>2

(* The listing of a request depends on nothing else.                       *)
LEMMA SameListings ==
    ASSUME NEW s \in Session, rows' = rows, pend'[s] = pend[s],
           req'[s].car = req[s].car, req'[s].seen = req[s].seen
    PROVE  Listings(s)' = Listings(s)
  <1>1. Sees(s)' = Sees(s)
    BY DEF Sees
  <1>2. \A i : JsonEntry(s, i)' = JsonEntry(s, i)
    BY <1>1 DEF JsonEntry
  <1> QED  BY <1>1, <1>2 DEF Listings, ImagesOf

(* The table that a transaction sees has rows, and no id the sequence has  *)
(* not handed out.                                                         *)
LEMMA SeenTable ==
    ASSUME StoredOK, NEW s \in Session, FlushOK(s), RequestOK(s)
    PROVE  /\ Sees(s) \in [ImageId -> ImageRow \cup {None}]
           /\ \A i \in ImageId : Sees(s)[i] # None => i <= last
  <1>1. DOMAIN pend[s] \subseteq 1..last /\ 1..last \subseteq ImageId
    BY ImagesAssumption DEF FlushOK, StoredOK, ImageId
  <1>2. \A i \in DOMAIN pend[s] : pend[s][i] \in ImageRow \cup {None}
    BY DEF FlushOK, RequestOK
  <1>3. \A i \in ImageId : rows[i] \in ImageRow \cup {None}
    BY DEF StoredOK
  <1>4. \A i \in ImageId : Sees(s)[i] \in ImageRow \cup {None}
    BY <1>1, <1>2, <1>3 DEF Sees
  <1>5. \A i \in ImageId : Sees(s)[i] # None => i <= last
    BY <1>1 DEF Sees, StoredOK
  <1> QED  BY <1>4, <1>5 DEF Sees

(* What a listing is: all the images of the car, each once, in the order   *)
(* in which the transaction sees them.                                     *)
LEMMA ListingIs ==
    ASSUME StoredOK, NEW s \in Session, FlushOK(s), RequestOK(s),
           NEW list \in Listings(s)
    PROVE  LET ids == ImagesOf(Sees(s), req[s].car)
               n == Cardinality(ids)
           IN /\ n \in Nat /\ list \in Json /\ Len(list) = n
              /\ \A j \in DOMAIN list : list[j] = JsonEntry(s, list[j].id)
              /\ [j \in 1..n |-> list[j].id] \in Bijection(1..n, ids)
              /\ \A j \in DOMAIN list : list[j].id <= last
              /\ \A j, k \in DOMAIN list : j < k =>
                    Sees(s)[list[j].id].order <= Sees(s)[list[k].id].order
  <1> DEFINE ids == ImagesOf(Sees(s), req[s].car)
             n == Cardinality(ids)
  <1>1. PICK q \in Bijection(1..n, ids) :
           /\ \A j, k \in DOMAIN q :
                 j < k => Sees(s)[q[j]].order <= Sees(s)[q[k]].order
           /\ list = [j \in DOMAIN q |-> JsonEntry(s, q[j])]
    BY DEF Listings
  <1>2. n \in Nat
    <2>1. ids \subseteq ImageId /\ IsFiniteSet(ImageId)
      BY ImagesAssumption, FS_Interval DEF ImagesOf, ImageId
    <2> HIDE DEF ids
    <2> QED  BY <2>1, FS_Subset, FS_CardinalityType
  <1>3. DOMAIN q = 1..n /\ \A j \in 1..n : q[j] \in ids
    BY DEF Bijection, Injection, Surjection, IsInjective
  <1>4. \A i \in ids : /\ JsonEntry(s, i) \in [id : ImageId, order : Nat]
                       /\ JsonEntry(s, i).id = i /\ i <= last
    <2> SUFFICES ASSUME NEW i \in ids
                 PROVE  /\ JsonEntry(s, i) \in [id : ImageId, order : Nat]
                        /\ JsonEntry(s, i).id = i /\ i <= last
      OBVIOUS
    <2>1. i \in ImageId /\ Sees(s)[i] \in ImageRow /\ i <= last
      BY SeenTable DEF ImagesOf
    <2>2. i \in DOMAIN req[s].seen => req[s].seen[i] \in Nat
      BY DEF RequestOK
    <2> QED  BY <2>1, <2>2 DEF JsonEntry, ImageRow
  <1>5. /\ DOMAIN list = 1..n
        /\ \A j \in 1..n : list[j] = JsonEntry(s, q[j]) /\ list[j].id = q[j]
    BY <1>1, <1>3, <1>4
  <1>6. list \in [1..n -> [id : ImageId, order : Nat]]
    BY <1>1, <1>3, <1>4
  <1>7. list \in Json /\ Len(list) = n
    <2> HIDE DEF n
    <2> QED  BY <1>2, <1>6, SequenceOf DEF Json
  <1>8. [j \in 1..n |-> list[j].id] = q
    BY <1>3, <1>5 DEF Bijection, Injection
  <1>9. \A j \in DOMAIN list : list[j].id <= last
    BY <1>3, <1>4, <1>5
  <1>10. \A j, k \in DOMAIN list : j < k =>
             Sees(s)[list[j].id].order <= Sees(s)[list[k].id].order
    <2> HIDE DEF n
    <2> QED  BY <1>1, <1>3, <1>5
  <1>11. \A j \in DOMAIN list : list[j] = JsonEntry(s, list[j].id)
    <2> HIDE DEF n
    <2> QED  BY <1>5
  <1> HIDE DEF n, ids
  <1>12. [j \in 1..n |-> list[j].id] \in Bijection(1..n, ids)
    BY <1>1, <1>8
  <1> QED  BY <1>2, <1>7, <1>9, <1>10, <1>11, <1>12 DEF n, ids

-----------------------------------------------------------------------------

LEMMA ElementOf ==
    ASSUME NEW S, NEW f \in Seq(S), NEW j \in DOMAIN f
    PROVE  f[j] \in S
  OBVIOUS

LEMMA JsonIds ==
    ASSUME NEW json \in Json, NEW j \in DOMAIN json
    PROVE  json[j].id \in Int /\ json[j].order \in Nat
  <1>1. json[j] \in [id : ImageId, order : Nat]
    BY ElementOf DEF Json
  <1> QED  BY <1>1 DEF ImageId

(* Of the other requests, one that keeps going keeps what it knows.        *)
LEMMA Bystander ==
    ASSUME StoredOK, StoredOK', last <= last',
           NEW t \in Session, RequestOK(t), FlushOK(t), AloneOK(t),
           pc'[t] = pc[t], req'[t] = req[t], pend'[t] = pend[t],
           \A i \in DOMAIN pend[t] :
              /\ rows'[i] = rows[i]
              /\ req[t].kind = "upload" /\ i \in files => i \in files',
           t \in alone' => /\ t \in alone /\ rows' = rows
                           /\ imagesJson' = imagesJson /\ deleted \subseteq deleted'
    PROVE  RequestOK(t)' /\ FlushOK(t)' /\ AloneOK(t)'
  <1>0. last \in Int /\ last' \in Int /\ ImageId \subseteq Int
    BY DEF StoredOK, ImageId
  <1>1. RequestOK(t)'
    <2> DEFINE IdsTo(n) ==
                  /\ req[t].kind # "reorder" =>
                        \A j \in DOMAIN req[t].ids : req[t].ids[j] <= n
                  /\ \A j \in DOMAIN req[t].json : req[t].json[j].id <= n
                  /\ \A j \in DOMAIN req[t].list : req[t].list[j].id <= n
    <2>1. /\ \A j \in DOMAIN req[t].ids : req[t].ids[j] \in Int
          /\ \A j \in DOMAIN req[t].json : req[t].json[j].id \in Int
          /\ \A j \in DOMAIN req[t].list : req[t].list[j].id \in Int
      BY <1>0, HeldFields, JsonIds, ElementOf
    <2>2. IdsTo(last) => IdsTo(last')
      BY <1>0, <2>1
    <2> QED  BY <2>2 DEF RequestOK
  <1>2. FlushOK(t)'
    <2>1. DOMAIN pend[t] \subseteq 1..last'
      BY <1>0 DEF FlushOK
    <2> QED  BY <2>1 DEF FlushOK
  <1>3. AloneOK(t)'
    <2> SUFFICES ASSUME t \in alone'
                 PROVE  AloneOK(t)'
      BY DEF AloneOK
    <2>1. Listings(t)' = Listings(t)
      BY SameListings
    <2>2. Moved(t)' = Moved(t)
      BY DEF Moved
    <2> QED  BY <2>1, <2>2 DEF AloneOK, ImagesOf
  <1> QED  BY <1>1, <1>2, <1>3

LEMMA NoJson == <<>> \in Json /\ DOMAIN <<>> = {}
  BY DEF Json

(* A request that is over holds nothing.                                   *)
LEMMA Over ==
    ASSUME NEW s \in Session, pc'[s] = "idle", req'[s] = NoReq,
           DOMAIN pend'[s] = {}, s \notin alone'
    PROVE  RequestOK(s)' /\ FlushOK(s)' /\ AloneOK(s)'
  <1>1. <<>> \in Seq(ImageId) /\ <<>> \in Json /\ DOMAIN <<>> = {}
    BY NoJson
  <1>2. RequestOK(s)'
    <2>1. NoReq \in HeldRequest(<<>>)
      BY <1>1, HeldRecord DEF NoReq
    <2> QED  BY <1>1, <2>1 DEF RequestOK, NoReq, Places
  <1>3. FlushOK(s)'
    BY <1>1 DEF FlushOK, NoReq, Flushed
  <1>4. AloneOK(s)'
    BY DEF AloneOK
  <1> QED  BY <1>2, <1>3, <1>4

-----------------------------------------------------------------------------
(* A step of one request.                                                  *)

Only(s) ==
    /\ DOMAIN pc' = Session /\ DOMAIN req' = Session /\ DOMAIN pend' = Session
    /\ \A t \in Session \ {s} :
          pc'[t] = pc[t] /\ req'[t] = req[t] /\ pend'[t] = pend[t]

Deletes(s, i) == /\ req[s].kind = "delete" /\ req[s].ids = <<i>>
                 /\ pc[s] \in {"fileRemoved", "flushed", "refreshed"}

LEMMA OneRequest ==
    ASSUME ImagesInv, NEW s \in Session, Only(s),
           StoredOK', last <= last', alone' \subseteq alone \cup {s},
           \A t \in Session \ {s} : \A i \in DOMAIN pend[t] :
              /\ rows'[i] = rows[i]
              /\ req[t].kind = "upload" /\ i \in files => i \in files'
              /\ i \notin DOMAIN pend'[s],
           \A t \in alone' \ {s} :
              rows' = rows /\ imagesJson' = imagesJson /\ deleted \subseteq deleted',
           RequestOK(s)', FlushOK(s)', AloneOK(s)',
           req'[s].kind = "delete" =>
              \A t \in Session \ {s} : \A i \in DOMAIN pend[t] :
                 req[t].kind = "upload" => req'[s].ids # <<i>>,
           req'[s].kind = "upload" =>
              \A t \in Session \ {s} : \A i \in DOMAIN pend'[s] :
                 req[t].kind = "delete" => req[t].ids # <<i>>,
           FilesOfRows'
    PROVE  ImagesInv'
  <1>1. \A t \in Session : RequestOK(t)' /\ FlushOK(t)' /\ AloneOK(t)'
    <2>1. SUFFICES ASSUME NEW t \in Session \ {s}
                   PROVE  RequestOK(t)' /\ FlushOK(t)' /\ AloneOK(t)'
      OBVIOUS
    <2>2. StoredOK /\ RequestOK(t) /\ FlushOK(t) /\ AloneOK(t)
      BY DEF ImagesInv
    <2>3. pc'[t] = pc[t] /\ req'[t] = req[t] /\ pend'[t] = pend[t]
      BY DEF Only
    <2>4. t \in alone' => /\ t \in alone /\ rows' = rows
                          /\ imagesJson' = imagesJson /\ deleted \subseteq deleted'
      OBVIOUS
    <2> QED  BY <2>2, <2>3, <2>4, Bystander
  <1>2. Locked'
    BY DEF ImagesInv, Locked, Only
  <1>3. Unknown'
    BY DEF ImagesInv, Unknown, Only
  <1>4. alone' \subseteq Session
    BY DEF ImagesInv
  <1> QED  BY <1>1, <1>2, <1>3, <1>4 DEF ImagesInv, Only

LEMMA NoFileIsLost ==
    ASSUME ImagesInv, NEW s \in Session, Only(s),
           rows' = rows, files \subseteq files', abandoned \subseteq abandoned',
           \A i \in ImageId : Deletes(s, i) => Deletes(s, i)' \/ i \in abandoned'
    PROVE  FilesOfRows'
  <1> SUFFICES ASSUME NEW i \in ImageId \ abandoned', rows'[i] # None, i \notin files'
               PROVE  \E t \in Session : Deletes(t, i)'
    BY DEF FilesOfRows, Deletes
  <1>1. PICK t \in Session : Deletes(t, i)
    BY DEF ImagesInv, FilesOfRows, Deletes
  <1>2. t # s => Deletes(t, i)'
    BY <1>1 DEF Deletes, Only
  <1> QED  BY <1>1, <1>2

LEMMA BeginStep ==
    ASSUME ImagesInv, NEW s \in Session, NEW kind \in {"upload", "reorder", "delete"},
           NEW c \in CarId, NEW ids \in Seq(ImageId), NEW label,
           label = (IF kind = "delete" THEN "deleting" ELSE "loaded"),
           kind # "reorder" => \A j \in DOMAIN ids : ids[j] <= last,
           kind = "delete" => \E i \in ImageId : ids = <<i>> /\ rows[i] # None,
           Begin(s, kind, c, ids, label)
    PROVE  ImagesInv'
  <1> USE DEF Begin, Goto, Held
  <1>1. /\ Only(s) /\ pc'[s] = label /\ pend'[s] = pend[s]
        /\ req'[s] = [kind |-> kind, car |-> c, ids |-> ids, json |-> imagesJson[c],
                      seen |-> <<>>, list |-> <<>>]
    BY DEF ImagesInv, Only
  <1>2. /\ req'[s].kind = kind /\ req'[s].car = c /\ req'[s].ids = ids
        /\ req'[s].json = imagesJson[c] /\ req'[s].list = <<>>
        /\ req'[s].seen = <<>>
    BY <1>1
  <1>3. UNCHANGED <<rows, imagesJson, deleted, last, files, variants, tasks,
                    working, abandoned>> /\ alone' = alone \cup {s}
    BY DEF dbVars, diskVars, taskVars
  <1>4. StoredOK'
    BY <1>3 DEF ImagesInv, StoredOK
  <1>5. DOMAIN pend[s] = {}
    BY DEF ImagesInv, FlushOK, Flushed
  <1>6. RequestOK(s)'
    <2>1. imagesJson[c] \in Json /\ <<>> \in Json /\ DOMAIN <<>> = {}
      BY NoJson DEF ImagesInv, StoredOK
    <2>2. pc'[s] \in Places(kind) /\ pc'[s] # "idle"
      BY <1>1 DEF Places
    <2>3. \A j \in DOMAIN imagesJson[c] : imagesJson[c][j].id <= last'
      BY <1>3 DEF ImagesInv, StoredOK
    <2>4. kind # "reorder" => \A j \in DOMAIN ids : ids[j] <= last'
      BY <1>3
    <2>5. req'[s] \in HeldRequest(req'[s].seen)
      <3>1. [kind |-> kind, car |-> c, ids |-> ids, json |-> imagesJson[c],
             seen |-> <<>>, list |-> <<>>] \in HeldRequest(<<>>)
        BY <2>1, HeldRecord
      <3> QED  BY <1>1, <1>2, <3>1
    <2> QED  BY <1>2, <2>1, <2>2, <2>3, <2>4, <2>5 DEF RequestOK
  <1>7. FlushOK(s)'
    BY <1>1, <1>5 DEF FlushOK, Flushed
  <1>8. AloneOK(s)'
    <2>1. DOMAIN <<>> = {}
      OBVIOUS
    <2> QED  BY <1>1, <1>2, <1>3, <2>1 DEF AloneOK, Flushed
  <1>9. FilesOfRows'
    <2>1. \A i : ~Deletes(s, i)
      BY DEF Deletes
    <2> QED  BY <1>1, <1>3, <2>1, NoFileIsLost
  <1>10. kind = "delete" => \A t \in Session \ {s} : \A i \in DOMAIN pend[t] :
             req[t].kind = "upload" => ids # <<i>>
    <2> SUFFICES ASSUME kind = "delete", NEW t \in Session \ {s}, NEW i \in DOMAIN pend[t],
                        req[t].kind = "upload", ids = <<i>>
                 PROVE  FALSE
      OBVIOUS
    <2>1. rows[i] = None
      BY DEF ImagesInv, FlushOK
    <2>2. PICK k \in ImageId : ids = <<k>> /\ rows[k] # None
      OBVIOUS
    <2> QED  BY <2>1, <2>2
  <1>11. last <= last'
    BY <1>3 DEF ImagesInv, StoredOK
  <1> QED
    BY <1>1, <1>2, <1>3, <1>4, <1>5, <1>6, <1>7, <1>8, <1>9, <1>10, <1>11, OneRequest

(* A request that fails or dies, or is done.                               *)
LEMMA EndStep ==
    ASSUME ImagesInv, NEW s \in Session,
           Only(s), pc'[s] = "idle", req'[s] = NoReq, DOMAIN pend'[s] = {},
           alone' \subseteq alone \ {s}, UNCHANGED dbVars, StoredOK', last <= last', files \subseteq files',
           abandoned \subseteq abandoned',
           \A i \in ImageId : Deletes(s, i) => i \in abandoned'
    PROVE  ImagesInv'
  <1>1. RequestOK(s)' /\ FlushOK(s)' /\ AloneOK(s)'
    BY Over
  <1>2. FilesOfRows'
    BY NoFileIsLost DEF dbVars
  <1>3. req'[s].kind = "none"
    BY DEF NoReq
  <1> QED  BY <1>1, <1>2, <1>3, OneRequest DEF dbVars

LEMMA Kinds ==
    ASSUME ImagesInv, NEW s \in Session
    PROVE  /\ pc[s] = "loaded" => req[s].kind \in {"upload", "reorder"}
           /\ pc[s] = "sorting" => req[s].kind = "reorder"
           /\ pc[s] \in {"deleting", "unlinking", "fileRemoved"} => req[s].kind = "delete"
           /\ pc[s] \in {"idle", "committed"} => req[s].kind = "none"
           /\ pc[s] \in Flushed => req[s].kind \in {"upload", "reorder", "delete"}
  BY HeldFields DEF ImagesInv, RequestOK, Places, Flushed

LEMMA FailStep ==
    ASSUME ImagesInv, NEW s \in Session,
           \/ \E n \in 0..MaxBatch - 1 : RejectImages(s, n)
           \/ FailOrder(s) \/ FailUnlink(s) \/ CrashBeforeCommit(s)
    PROVE  ImagesInv'
  <1>1. /\ Fail(s) /\ UNCHANGED dbVars /\ UNCHANGED <<served, variants, taskVars>>
        /\ \/ UNCHANGED <<last, files>>
           \/ \E n \in 0..MaxBatch - 1 :
                 /\ last' = last + n /\ last + n <= MaxImage
                 /\ files' = files \cup ((last + 1)..(last + n))
    BY DEF RejectImages, FailOrder, FailUnlink, CrashBeforeCommit, diskVars
  <1>2. /\ Only(s) /\ pc'[s] = "idle" /\ req'[s] = NoReq /\ DOMAIN pend'[s] = {}
        /\ alone' \subseteq alone \ {s}
    BY <1>1, NoJson DEF Fail, Goto, Held, Only, NoRows, ImagesInv
  <1>3. last' \in last..MaxImage /\ files \subseteq files' /\ files' \subseteq 1..last'
    <2>1. last \in 0..MaxImage /\ files \subseteq 1..last /\ MaxImage \in Nat
      BY ImagesAssumption DEF ImagesInv, StoredOK
    <2>2. CASE UNCHANGED <<last, files>>
      BY <2>1, <2>2
    <2>3. CASE \E n \in 0..MaxBatch - 1 :
                 /\ last' = last + n /\ last + n <= MaxImage
                 /\ files' = files \cup ((last + 1)..(last + n))
      BY <2>1, <2>3 DEF MaxBatch
    <2> QED  BY <1>1, <2>2, <2>3
  <1>4. StoredOK'
    <2>1. UNCHANGED <<rows, imagesJson, variants, tasks, working>>
      BY <1>1 DEF dbVars, taskVars
    <2>2. variants' \subseteq 1..last' /\ last' \in 0..MaxImage
      BY <1>3, <2>1, ImagesAssumption DEF ImagesInv, StoredOK
    <2>3. \A i \in ImageId : rows'[i] # None \/ tasks'[i] # None => i <= last'
      BY <1>3, <2>1 DEF ImagesInv, StoredOK, ImageId
    <2>4. \A c \in CarId : \A j \in DOMAIN imagesJson'[c] : imagesJson'[c][j].id <= last'
      BY <1>3, <2>1, JsonIds DEF ImagesInv, StoredOK
    <2> QED  BY <1>3, <2>1, <2>2, <2>3, <2>4 DEF ImagesInv, StoredOK
  <1>5. abandoned \subseteq abandoned'
        /\ \A i \in ImageId : Deletes(s, i) => i \in abandoned'
    <2>1. CASE CrashBeforeCommit(s)
      BY <2>1 DEF CrashBeforeCommit, Deletes, Range
    <2>2. CASE ~CrashBeforeCommit(s)
      <3>1. UNCHANGED abandoned /\ pc[s] \in {"loaded", "sorting", "unlinking"}
        BY <2>2 DEF RejectImages, FailOrder, FailUnlink
      <3> QED  BY <3>1 DEF Deletes
    <2> QED  BY <2>1, <2>2
  <1>6. last <= last'
    BY <1>3 DEF ImagesInv, StoredOK
  <1> QED  BY <1>1, <1>2, <1>3, <1>4, <1>5, <1>6, EndStep

LEMMA DoneStep ==
    ASSUME ImagesInv, NEW s \in Session,
           FinishRequest(s) \/ \E n \in 0..MaxImage : CrashAfterCommit(s, n)
    PROVE  ImagesInv'
  <1>1. \E ids \in SUBSET Range(req[s].ids) : Enqueue(ids)
    <2>1. CASE FinishRequest(s)
      BY <2>1 DEF FinishRequest
    <2>2. CASE \E n \in 0..MaxImage : CrashAfterCommit(s, n)
      <3>1. PICK n \in 0..MaxImage : CrashAfterCommit(s, n)
        BY <2>2
      <3>2. req[s].ids \in Seq(ImageId)
        BY HeldFields DEF ImagesInv
      <3>3. /\ n \in 0..Len(req[s].ids)
            /\ Enqueue({req[s].ids[j] : j \in 1..n})
        BY <3>1 DEF CrashAfterCommit
      <3>4. {req[s].ids[j] : j \in 1..n} \subseteq Range(req[s].ids)
        BY <3>2, <3>3 DEF Range
      <3> QED  BY <3>3, <3>4
    <2> QED  BY <2>1, <2>2
  <1>2. pc[s] = "committed"
    BY DEF FinishRequest, CrashAfterCommit
  <1>3. s \notin alone /\ DOMAIN pend[s] = {}
    BY <1>2, Kinds DEF ImagesInv, FlushOK, Flushed, AloneOK
  <1>4. /\ Only(s) /\ pc'[s] = "idle" /\ req'[s] = NoReq /\ DOMAIN pend'[s] = {}
        /\ alone' \subseteq alone \ {s}
    <2>1. CASE FinishRequest(s)
      BY <1>3, <2>1 DEF FinishRequest, Goto, Held, Only, ImagesInv, histVars
    <2>2. CASE \E n \in 0..MaxImage : CrashAfterCommit(s, n)
      <3>1. Fail(s)
        BY <2>2 DEF CrashAfterCommit
      <3> QED  BY <3>1, NoJson DEF Fail, Goto, Held, Only, NoRows, ImagesInv
    <2> QED  BY <2>1, <2>2
  <1>5. UNCHANGED <<dbVars, last, files, variants, working>> /\ abandoned \subseteq abandoned'
    BY DEF FinishRequest, CrashAfterCommit, diskVars, histVars
  <1>6. StoredOK'
    <2>1. PICK ids \in SUBSET Range(req[s].ids) : Enqueue(ids)
      BY <1>1
    <2>2. \A i \in ids : i \in ImageId /\ i <= last
      BY <1>2, Kinds, HeldFields, ElementOf DEF ImagesInv, RequestOK, Range
    <2>3. /\ tasks' \in [ImageId -> 0..MaxRetries \cup {None}]
          /\ \A i \in ImageId : /\ tasks'[i] # None => tasks[i] # None \/ i \in ids
                                /\ tasks[i] # None => tasks'[i] # None
      BY <2>1, ImagesAssumption DEF Enqueue, ImagesInv, StoredOK
    <2> QED  BY <1>5, <2>2, <2>3 DEF ImagesInv, StoredOK, dbVars
  <1>7. \A i : ~Deletes(s, i)
    BY <1>2 DEF Deletes
  <1>8. last <= last'
    BY <1>5 DEF ImagesInv, StoredOK
  <1> QED  BY <1>4, <1>5, <1>6, <1>7, <1>8, EndStep

LEMMA SaveStep ==
    ASSUME ImagesInv, NEW s \in Session, NEW n \in 1..MaxBatch, SaveImages(s, n)
    PROVE  ImagesInv'
  <1> DEFINE new == (last + 1)..(last + n)
             start == Len(req[s].json)
             ids == [j \in 1..n |-> last + j]
  <1>0. last \in Nat /\ n \in Nat /\ last + n <= MaxImage /\ MaxImage \in Nat
        /\ start \in Nat /\ ImageId = 1..MaxImage
    BY ImagesAssumption DEF ImagesInv, StoredOK, RequestOK, Json, MaxBatch, SaveImages,
                            ImageId
  <1>1. /\ pc[s] = "loaded" /\ req[s].kind = "upload" /\ req[s].car \in CarId
        /\ files' = files \cup new /\ last' = last + n
        /\ UNCHANGED <<rows, imagesJson, deleted, variants, tasks, working, alone, abandoned>>
    BY DEF SaveImages, ImagesInv, RequestOK, dbVars, taskVars, histVars
  <1>2. /\ Only(s) /\ pc'[s] = "flushed"
        /\ req'[s] = [req[s] EXCEPT !.ids = ids]
        /\ pend'[s] = [i \in new |-> [car |-> req[s].car, order |-> start + i - last - 1]]
    BY DEF SaveImages, Goto, Held, Only, ImagesInv
  <1>3. ids \in Seq(ImageId) /\ \A j \in DOMAIN ids : ids[j] \in new
    BY <1>0
  <1>4. \A i \in new : i \in 1..last' /\ i > last /\ i \in ImageId /\ i <= last'
    BY <1>0, <1>1
  <1>5. StoredOK'
    <2>1. last' \in 0..MaxImage /\ last <= last' /\ last' \in Int /\ 1..last \subseteq 1..last'
      BY <1>0, <1>1
    <2>2. \A i \in ImageId : rows'[i] # None \/ tasks'[i] # None => i <= last'
      BY <1>0, <1>1, <2>1 DEF ImagesInv, StoredOK
    <2>3. \A c \in CarId : \A j \in DOMAIN imagesJson'[c] : imagesJson'[c][j].id <= last'
      BY <1>0, <1>1, <2>1, JsonIds DEF ImagesInv, StoredOK
    <2>4. files' \subseteq 1..last' /\ variants' \subseteq 1..last'
      BY <1>1, <1>4, <2>1 DEF ImagesInv, StoredOK
    <2> QED  BY <1>1, <2>1, <2>2, <2>3, <2>4 DEF ImagesInv, StoredOK
  <1> HIDE DEF ids, new
  <1>6. /\ req'[s].kind = "upload" /\ req'[s].car = req[s].car /\ req'[s].ids = ids
        /\ req'[s].json = req[s].json /\ req'[s].seen = req[s].seen
        /\ req'[s].list = req[s].list /\ req'[s] \in HeldRequest(req'[s].seen)
    <2>1. RequestOK(s)
      BY DEF ImagesInv
    <2> QED  BY <1>1, <1>2, <1>3, <2>1, HoldsIds
  <1>7. last <= last' /\ last' \in Int /\ last \in Int
    <2>1. last' = last + n /\ last \in Nat /\ n \in Nat
      BY <1>0, <1>1
    <2> QED  BY <2>1
  <1>8. RequestOK(s)'
    <2>1. /\ \A j \in DOMAIN req[s].json : req[s].json[j].id <= last'
          /\ \A j \in DOMAIN req[s].list : req[s].list[j].id <= last'
      <3>1. req[s].json \in Json /\ req[s].list \in Json
        BY HeldFields DEF ImagesInv
      <3>2. /\ \A j \in DOMAIN req[s].json : req[s].json[j].id <= last
            /\ \A j \in DOMAIN req[s].list : req[s].list[j].id <= last
        BY DEF ImagesInv, RequestOK
      <3> QED  BY <1>7, <3>1, <3>2, JsonIds
    <2>2. \A j \in DOMAIN ids : ids[j] <= last'
      BY <1>3, <1>4, <1>7
    <2>3. DOMAIN req[s].seen \subseteq ImageId
          /\ \A i \in DOMAIN req[s].seen : req[s].seen[i] \in Nat
      <3>1. RequestOK(s)
        BY DEF ImagesInv
      <3> QED  BY <3>1 DEF RequestOK
    <2>4. pc'[s] \in Places("upload") /\ pc'[s] # "idle"
      BY <1>2 DEF Places, Flushed
    <2> QED  BY <1>1, <1>6, <2>1, <2>2, <2>3, <2>4 DEF RequestOK
  <1>9. /\ DOMAIN pend'[s] = new
        /\ \A i \in new : /\ pend'[s][i].car = req[s].car
                          /\ pend'[s][i] \in ImageRow
    <2>1. \A i \in new : start + i - last - 1 \in Nat
      BY <1>0 DEF new
    <2> QED  BY <1>1, <1>2, <2>1 DEF ImageRow
  <1>10. FlushOK(s)'
    <2>1. \A i \in new : rows[i] = None
      BY <1>0, <1>4 DEF ImagesInv, StoredOK
    <2> QED  BY <1>1, <1>2, <1>4, <1>6, <1>9, <2>1 DEF FlushOK, Flushed
  <1>11. AloneOK(s)'
    BY <1>1, <1>2, <1>6 DEF ImagesInv, AloneOK
  <1>12. FilesOfRows'
    BY <1>1, <1>2, NoFileIsLost DEF Deletes
  <1>13. \A t \in Session \ {s} : \A i \in DOMAIN pend[t] : i \notin new
    BY <1>4, <1>7 DEF ImagesInv, FlushOK
  <1>14. \A t \in Session \ {s} : \A i \in new :
            req[t].kind = "delete" => req[t].ids # <<i>>
    <2> SUFFICES ASSUME NEW t \in Session \ {s}, NEW i \in new,
                        req[t].kind = "delete", req[t].ids = <<i>>
                 PROVE  FALSE
      OBVIOUS
    <2>1. \A j \in DOMAIN req[t].ids : req[t].ids[j] <= last
      BY DEF ImagesInv, RequestOK
    <2>2. 1 \in DOMAIN <<i>> /\ <<i>>[1] = i
      OBVIOUS
    <2> QED  BY <1>4, <1>7, <2>1, <2>2
  <1> QED
    BY <1>1, <1>2, <1>5, <1>6, <1>7, <1>8, <1>9, <1>10, <1>11, <1>12, <1>13, <1>14,
       OneRequest

LEMMA StoredStays ==
    ASSUME StoredOK, UNCHANGED <<dbVars, last, diskVars, taskVars>>
    PROVE  StoredOK' /\ last <= last'
  BY DEF StoredOK, dbVars, diskVars, taskVars

LEMMA LoadStep ==
    ASSUME ImagesInv, NEW s \in Session, LoadImages(s)
    PROVE  ImagesInv'
  <1> DEFINE seen == [i \in ImagesOf(rows, req[s].car) |-> rows[i].order]
  <1>1. /\ pc[s] = "loaded" /\ req[s].kind = "reorder"
        /\ UNCHANGED <<dbVars, last, diskVars, taskVars, pend, alone, abandoned>>
    BY DEF LoadImages, histVars
  <1>2. /\ Only(s) /\ pc'[s] = "sorting" /\ pend'[s] = pend[s]
        /\ req'[s] = [req[s] EXCEPT !.seen = seen]
    BY DEF LoadImages, Goto, Held, Only, ImagesInv
  <1>3. StoredOK /\ RequestOK(s) /\ FlushOK(s) /\ AloneOK(s)
    BY DEF ImagesInv
  <1> HIDE DEF seen
  <1>4. /\ req'[s].kind = "reorder" /\ req'[s].car = req[s].car
        /\ req'[s].ids = req[s].ids /\ req'[s].json = req[s].json
        /\ req'[s].seen = seen /\ req'[s].list = req[s].list
        /\ req'[s] \in HeldRequest(req'[s].seen)
    BY <1>1, <1>2, <1>3, HoldsSeen
  <1>5. StoredOK' /\ last <= last'
    BY <1>1, <1>3, StoredStays
  <1>6. /\ DOMAIN seen = ImagesOf(rows, req[s].car) /\ DOMAIN seen \subseteq ImageId
        /\ \A i \in DOMAIN seen : seen[i] = rows[i].order /\ seen[i] \in Nat
    BY <1>3 DEF seen, ImagesOf, StoredOK, ImageRow
  <1>7. RequestOK(s)'
    <2>1. pc'[s] \in Places("reorder") /\ pc'[s] # "idle"
      BY <1>2 DEF Places
    <2> QED  BY <1>1, <1>3, <1>4, <1>6, <2>1 DEF RequestOK
  <1>8. DOMAIN pend[s] = {}
    BY <1>1, <1>3 DEF FlushOK, Flushed
  <1>9. FlushOK(s)'
    BY <1>2, <1>4, <1>8 DEF FlushOK, Flushed
  <1>10. AloneOK(s)'
    BY <1>1, <1>2, <1>3, <1>4, <1>6 DEF AloneOK, Flushed, ImagesOf, dbVars
  <1>11. FilesOfRows'
    BY <1>1, <1>2, NoFileIsLost DEF Deletes, dbVars, diskVars
  <1> QED
    BY <1>1, <1>2, <1>4, <1>5, <1>7, <1>8, <1>9, <1>10, <1>11, OneRequest
    DEF dbVars, diskVars

LEMMA OrderStep ==
    ASSUME ImagesInv, NEW s \in Session, FlushOrder(s)
    PROVE  ImagesInv'
  <1> DEFINE new == [i \in Moved(s) \ Vanished(s) |->
                        [rows[i] EXCEPT !.order = PlaceIn(req[s].ids, i)]]
  <1>1. /\ pc[s] = "sorting" /\ Unlocked(s, Moved(s))
        /\ UNCHANGED <<dbVars, last, diskVars, taskVars, req, alone, abandoned>>
    BY DEF FlushOrder, histVars
  <1>2. Only(s) /\ pc'[s] = "flushed" /\ pend'[s] = new /\ req'[s] = req[s]
    BY <1>1 DEF FlushOrder, Goto, Only, ImagesInv
  <1>3. /\ StoredOK /\ RequestOK(s) /\ FlushOK(s) /\ AloneOK(s)
        /\ req[s].kind = "reorder"
    BY <1>1, Kinds DEF ImagesInv
  <1>4. StoredOK' /\ last <= last'
    BY <1>1, <1>3, StoredStays
  <1>5. RequestOK(s)'
    <2>1. pc'[s] \in Places("reorder") /\ pc'[s] # "idle"
      BY <1>2 DEF Places, Flushed
    <2>2. req' = req /\ last' = last
      BY <1>1
    <2> QED  BY <1>3, <2>1, <2>2 DEF RequestOK
  <1>6. \A i \in Moved(s) : i \in ImageId /\ PlaceIn(req[s].ids, i) \in Nat
    BY <1>3, HeldFields, PlaceInIsLast DEF Moved
  <1>7. \A i \in DOMAIN new : /\ rows[i] # None /\ rows[i] \in ImageRow /\ i \in ImageId
                              /\ i <= last /\ i \in Moved(s)
    BY <1>3, <1>6 DEF Vanished, StoredOK
  <1>8. \A i \in DOMAIN new : new[i] \in ImageRow /\ new[i].car = rows[i].car
    BY <1>6, <1>7 DEF ImageRow
  <1>9. FlushOK(s)'
    <2>1. DOMAIN new \subseteq 1..last'
      BY <1>1, <1>3, <1>7 DEF StoredOK, ImageId
    <2>2. rows' = rows /\ pc'[s] \in Flushed
      BY <1>1, <1>2 DEF dbVars, Flushed
    <2> HIDE DEF new
    <2> QED  BY <1>2, <1>3, <1>7, <1>8, <2>1, <2>2 DEF FlushOK
  <1>10. AloneOK(s)'
    <2> SUFFICES ASSUME s \in alone
                 PROVE  AloneOK(s)'
      BY <1>1 DEF AloneOK
    <2>1. UNCHANGED <<rows, imagesJson>> /\ Moved(s)' = Moved(s) /\ req'[s] = req[s]
      BY <1>1 DEF dbVars, Moved
    <2>2. DOMAIN req[s].seen = ImagesOf(rows, req[s].car)
      BY <1>1, <1>3 DEF AloneOK
    <2>3. Vanished(s) = {}
      BY <2>2 DEF Vanished, Moved, ImagesOf
    <2>4. pend'[s] = [i \in Moved(s) |->
                         [rows[i] EXCEPT !.order = PlaceIn(req[s].ids, i)]]
      BY <1>2, <2>3
    <2> QED  BY <1>1, <1>2, <1>3, <2>1, <2>4 DEF AloneOK, ImagesOf
  <1>11. FilesOfRows'
    BY <1>1, <1>2, NoFileIsLost DEF Deletes, dbVars, diskVars
  <1>12. \A t \in Session \ {s} : \A i \in DOMAIN pend[t] : i \notin DOMAIN pend'[s]
    BY <1>1, <1>2, <1>7 DEF Unlocked
  <1> HIDE DEF new
  <1> QED
    BY <1>1, <1>2, <1>3, <1>4, <1>5, <1>9, <1>10, <1>11, <1>12, OneRequest
    DEF dbVars, diskVars

LEMMA FileStep ==
    ASSUME ImagesInv, NEW s \in Session, LookForFile(s) \/ Unlink(s)
    PROVE  ImagesInv'
  <1>1. /\ pc[s] \in {"deleting", "unlinking"}
        /\ UNCHANGED <<dbVars, last, variants, taskVars, req, pend, alone, abandoned>>
        /\ pc'[s] \in {"unlinking", "fileRemoved"} /\ Only(s)
    BY DEF LookForFile, Unlink, Goto, Only, ImagesInv, diskVars, histVars
  <1>2. /\ StoredOK /\ RequestOK(s) /\ FlushOK(s) /\ AloneOK(s)
        /\ req[s].kind = "delete"
    BY <1>1, Kinds DEF ImagesInv
  <1>3. PICK i0 \in ImageId : req[s].ids = <<i0>>
    BY <1>2 DEF RequestOK
  <1>4. /\ files' = files \/ (files' = files \ {i0} /\ pc'[s] = "fileRemoved")
        /\ files' \subseteq files /\ \A i \in files : i # i0 => i \in files'
    <2>1. req[s].ids[1] = i0
      BY <1>3
    <2> QED  BY <2>1, <1>1 DEF LookForFile, Unlink, Goto, ImagesInv, diskVars
  <1>5. StoredOK' /\ last <= last'
    <2>1. UNCHANGED <<rows, imagesJson, last, variants, tasks, working>>
      BY <1>1 DEF dbVars, taskVars
    <2>2. files' \subseteq 1..last'
      BY <1>2, <1>4, <2>1 DEF StoredOK
    <2> QED  BY <1>2, <2>1, <2>2 DEF StoredOK
  <1>6. req'[s] = req[s] /\ pend'[s] = pend[s]
    BY <1>1
  <1>7. RequestOK(s)'
    <2>1. pc'[s] \in Places("delete") /\ pc'[s] # "idle" /\ last' = last
      BY <1>1 DEF Places
    <2> QED  BY <1>2, <1>6, <2>1 DEF RequestOK
  <1>8. DOMAIN pend[s] = {}
    BY <1>1, <1>2 DEF FlushOK, Flushed
  <1>9. FlushOK(s)'
    BY <1>1, <1>6, <1>8 DEF FlushOK, Flushed
  <1>10. AloneOK(s)'
    BY <1>1, <1>2, <1>6 DEF AloneOK, Flushed, dbVars
  <1>11. \A t \in Session \ {s} : \A i \in DOMAIN pend[t] :
            req[t].kind = "upload" => i # i0
    BY <1>2, <1>3 DEF ImagesInv, Unknown
  <1>12. FilesOfRows'
    <2> SUFFICES ASSUME NEW i \in ImageId \ abandoned', rows'[i] # None, i \notin files'
                 PROVE  \E t \in Session : Deletes(t, i)'
      BY DEF FilesOfRows, Deletes
    <2>1. CASE i \in files
      <3>1. i = i0 /\ pc'[s] = "fileRemoved"
        BY <1>4, <2>1
      <3> QED  BY <1>2, <1>3, <1>6, <3>1 DEF Deletes
    <2>2. CASE i \notin files
      <3>1. PICK t \in Session : Deletes(t, i)
        BY <1>1, <2>2 DEF ImagesInv, FilesOfRows, Deletes, dbVars
      <3>2. t # s
        BY <1>1, <3>1 DEF Deletes
      <3> QED  BY <1>1, <3>1, <3>2 DEF Deletes, Only
    <2> QED  BY <2>1, <2>2
  <1>13. \A t \in Session \ {s} : \A i \in DOMAIN pend[t] :
            /\ req'[s].kind = "delete" /\ req[t].kind = "upload" => req'[s].ids # <<i>>
            /\ req[t].kind = "upload" /\ i \in files => i \in files'
    BY <1>2, <1>4, <1>6, <1>11 DEF ImagesInv, Unknown
  <1> QED
    BY <1>1, <1>2, <1>5, <1>6, <1>7, <1>8, <1>9, <1>10, <1>12, <1>13, OneRequest DEF dbVars

LEMMA DeleteStep ==
    ASSUME ImagesInv, NEW s \in Session, FlushDelete(s)
    PROVE  ImagesInv'
  <1> DEFINE json == imagesJson[req[s].car]
             new == [i \in Range(req[s].ids) |-> None]
  <1>1. /\ pc[s] = "fileRemoved" /\ Unlocked(s, Range(req[s].ids))
        /\ UNCHANGED <<dbVars, last, diskVars, taskVars, alone, abandoned>>
    BY DEF FlushDelete, histVars
  <1>2. /\ Only(s) /\ pend'[s] = new
        /\ pc'[s] = (IF req[s].car \in deleted THEN "refreshed" ELSE "flushed")
        /\ req'[s] = [req[s] EXCEPT !.json = json, !.list = json]
    BY DEF FlushDelete, Goto, Held, Only, ImagesInv
  <1>3. /\ StoredOK /\ RequestOK(s) /\ FlushOK(s) /\ AloneOK(s)
        /\ req[s].kind = "delete"
    BY <1>1, Kinds DEF ImagesInv
  <1>4. req[s].car \in CarId /\ json \in Json
        /\ \A j \in DOMAIN json : json[j].id <= last
    BY <1>3 DEF RequestOK, StoredOK
  <1>5. PICK i0 \in ImageId : req[s].ids = <<i0>>
    BY <1>3 DEF RequestOK
  <1>6. /\ Range(req[s].ids) = {i0} /\ i0 <= last
    <2>1. DOMAIN req[s].ids = {1} /\ req[s].ids[1] = i0
      BY <1>5
    <2> QED  BY <1>3, <2>1 DEF Range, RequestOK
  <1> HIDE DEF json
  <1>7. /\ req'[s].kind = "delete" /\ req'[s].car = req[s].car
        /\ req'[s].ids = req[s].ids /\ req'[s].json = json
        /\ req'[s].seen = req[s].seen /\ req'[s].list = json
        /\ req'[s] \in HeldRequest(req'[s].seen)
    <2>1. req'[s] = [req[s] EXCEPT !.json = json, !.list = json] /\ json \in Json
      BY <1>2, <1>4
    <2>2. req[s] \in HeldRequest(req[s].seen)
      BY <1>3 DEF RequestOK
    <2> QED  BY <1>3, <2>1, <2>2 DEF HeldRequest
  <1>8. StoredOK' /\ last <= last'
    BY <1>1, <1>3, StoredStays
  <1>9. RequestOK(s)'
    <2>1. pc'[s] \in Places("delete") /\ pc'[s] # "idle" /\ last' = last
      BY <1>1, <1>2 DEF Places, Flushed
    <2> QED  BY <1>3, <1>4, <1>7, <2>1 DEF RequestOK
  <1>10. DOMAIN new = {i0} /\ new[i0] = None
    BY <1>6
  <1> HIDE DEF new
  <1>11. FlushOK(s)'
    <2>1. DOMAIN new \subseteq 1..last'
      BY <1>1, <1>3, <1>6, <1>10 DEF StoredOK, ImageId
    <2>2. \A i \in ImageId : req'[s].ids = <<i>> => i = i0
      <3> SUFFICES ASSUME NEW i \in ImageId, <<i0>> = <<i>>
                   PROVE  i = i0
        BY <1>5, <1>7
      <3> QED  BY <<i0>>[1] = <<i>>[1]
    <2>3. pc'[s] \in Flushed
      BY <1>2 DEF Flushed
    <2> QED  BY <1>2, <1>7, <1>10, <2>1, <2>2, <2>3 DEF FlushOK
  <1>12. AloneOK(s)'
    BY <1>1, <1>2, <1>3, <1>7 DEF AloneOK, json, dbVars
  <1>13. FilesOfRows'
    BY <1>1, <1>2, <1>7, NoFileIsLost DEF Deletes, dbVars, diskVars
  <1>14. \A t \in Session \ {s} : \A i \in DOMAIN pend[t] :
            /\ i \notin DOMAIN pend'[s]
            /\ req[t].kind = "upload" => req'[s].ids # <<i>>
    BY <1>1, <1>2, <1>3, <1>6, <1>7, <1>10 DEF Unlocked, ImagesInv, Unknown
  <1> QED
    BY <1>1, <1>2, <1>7, <1>8, <1>9, <1>11, <1>12, <1>13, <1>14, OneRequest
    DEF dbVars, diskVars

LEMMA RefreshStep ==
    ASSUME ImagesInv, NEW s \in Session, RefreshImagesCache(s)
    PROVE  ImagesInv'
  <1>1. /\ pc[s] = "flushed"
        /\ UNCHANGED <<dbVars, last, diskVars, taskVars, pend, alone, abandoned>>
    BY DEF RefreshImagesCache, histVars
  <1>2. PICK q \in Listings(s) : Held(s, [req[s] EXCEPT !.list = q])
    BY DEF RefreshImagesCache
  <1>3. /\ Only(s) /\ pend'[s] = pend[s] /\ pc'[s] = "refreshed"
        /\ req'[s] = [req[s] EXCEPT !.list = q]
    BY <1>1, <1>2 DEF RefreshImagesCache, Goto, Held, Only, ImagesInv
  <1>4. /\ StoredOK /\ RequestOK(s) /\ FlushOK(s) /\ AloneOK(s)
        /\ req[s].kind \in {"upload", "reorder", "delete"}
    BY <1>1, Kinds DEF ImagesInv, Flushed
  <1>5. q \in Json /\ \A j \in DOMAIN q : q[j].id <= last
    BY <1>4, ListingIs
  <1>6. /\ req'[s].kind = req[s].kind /\ req'[s].car = req[s].car
        /\ req'[s].ids = req[s].ids /\ req'[s].json = req[s].json
        /\ req'[s].seen = req[s].seen /\ req'[s].list = q
        /\ req'[s] \in HeldRequest(req'[s].seen)
    BY <1>3, <1>4, <1>5, HoldsList
  <1>7. StoredOK' /\ last <= last'
    BY <1>1, <1>4, StoredStays
  <1>8. RequestOK(s)'
    <2>1. pc'[s] \in Places(req[s].kind) /\ pc'[s] # "idle" /\ last' = last
      BY <1>1, <1>3, <1>4 DEF Places, Flushed
    <2> QED  BY <1>4, <1>5, <1>6, <2>1 DEF RequestOK
  <1>9. FlushOK(s)'
    BY <1>1, <1>3, <1>4, <1>6 DEF FlushOK, Flushed, dbVars, diskVars
  <1>10. AloneOK(s)'
    <2>1. Listings(s)' = Listings(s)
      BY <1>1, <1>3, <1>6, SameListings DEF dbVars
    <2>2. Moved(s)' = Moved(s)
      BY <1>6 DEF Moved
    <2>3. UNCHANGED <<rows, imagesJson, alone>>
      BY <1>1 DEF dbVars
    <2> QED  BY <1>1, <1>2, <1>3, <1>4, <1>6, <2>1, <2>2, <2>3 DEF AloneOK, Flushed, ImagesOf
  <1>11. FilesOfRows'
    BY <1>1, <1>3, <1>6, NoFileIsLost DEF Deletes, dbVars, diskVars
  <1>12. \A t \in Session \ {s} : \A i \in DOMAIN pend[t] :
            /\ i \notin DOMAIN pend'[s]
            /\ req'[s].kind = "delete" /\ req[t].kind = "upload" => req'[s].ids # <<i>>
    BY <1>3, <1>6 DEF ImagesInv, Locked, Unknown
  <1>13. \A t \in Session \ {s} : \A i \in DOMAIN pend'[s] :
            req'[s].kind = "upload" /\ req[t].kind = "delete" => req[t].ids # <<i>>
    BY <1>3, <1>6 DEF ImagesInv, Unknown
  <1> QED
    BY <1>1, <1>3, <1>6, <1>7, <1>8, <1>9, <1>10, <1>11, <1>12, <1>13, OneRequest
    DEF dbVars, diskVars

LEMMA CommitStep ==
    ASSUME ImagesInv, NEW s \in Session, CommitImages(s)
    PROVE  ImagesInv'
  <1>1. /\ pc[s] = "refreshed" /\ rows' = Sees(s) /\ alone' = {}
        /\ imagesJson' = (IF req[s].list = req[s].json THEN imagesJson
                          ELSE [imagesJson EXCEPT ![req[s].car] = req[s].list])
        /\ UNCHANGED <<last, files, variants, tasks, working, abandoned>>
    BY DEF CommitImages, diskVars, taskVars
  <1>2. /\ Only(s) /\ pend'[s] = NoRows /\ pc'[s] = "committed"
        /\ req'[s] = [NoReq EXCEPT !.ids = Uploaded(s)]
    BY DEF CommitImages, Goto, Held, Only, ImagesInv
  <1>3. /\ StoredOK /\ RequestOK(s) /\ FlushOK(s)
        /\ req[s].kind \in {"upload", "reorder", "delete"}
    BY <1>1, Kinds DEF ImagesInv, Flushed
  <1>4. Uploaded(s) \in Seq(ImageId) /\ \A j \in DOMAIN Uploaded(s) : Uploaded(s)[j] <= last
    <2>1. <<>> \in Seq(ImageId) /\ DOMAIN <<>> = {}
      OBVIOUS
    <2> QED  BY <1>3, <2>1, HeldFields DEF Uploaded, RequestOK
  <1>5. /\ req'[s].kind = "none" /\ req'[s].ids = Uploaded(s) /\ req'[s].json = <<>>
        /\ req'[s].seen = <<>> /\ req'[s].list = <<>>
        /\ req'[s] \in HeldRequest(<<>>)
    <2>1. NoReq \in HeldRequest(<<>>) /\ NoReq.kind = "none" /\ NoReq.json = <<>>
          /\ NoReq.seen = <<>> /\ NoReq.list = <<>>
      BY NoJson, HeldRecord DEF NoReq, HeldRequest
    <2> QED  BY <1>2, <1>4, <2>1 DEF HeldRequest
  <1>6. StoredOK'
    <2>1. /\ rows' \in [ImageId -> ImageRow \cup {None}]
          /\ \A i \in ImageId : rows'[i] # None => i <= last
      BY <1>1, <1>3, SeenTable
    <2>2. /\ imagesJson' \in [CarId -> Json]
          /\ \A c \in CarId : \A j \in DOMAIN imagesJson'[c] : imagesJson'[c][j].id <= last
      BY <1>1, <1>3, HeldFields DEF StoredOK, RequestOK
    <2> QED  BY <1>1, <1>3, <2>1, <2>2 DEF StoredOK
  <1>7. RequestOK(s)'
    <2>1. pc'[s] \in Places("none") /\ pc'[s] # "idle"
      BY <1>2 DEF Places
    <2> QED  BY <1>1, <1>4, <1>5, <2>1, NoJson DEF RequestOK
  <1>8. DOMAIN pend'[s] = {}
    BY <1>2, NoJson DEF NoRows
  <1>9. FlushOK(s)'
    BY <1>2, <1>5, <1>8 DEF FlushOK
  <1>10. AloneOK(s)'
    BY <1>1 DEF AloneOK
  <1>11. \A t \in Session \ {s} : \A i \in DOMAIN pend[t] : rows'[i] = rows[i]
    <2> SUFFICES ASSUME NEW t \in Session \ {s}, NEW i \in DOMAIN pend[t]
                 PROVE  rows'[i] = rows[i]
      OBVIOUS
    <2>1. i \in ImageId /\ i \notin DOMAIN pend[s]
      BY ImagesAssumption DEF ImagesInv, FlushOK, Locked, StoredOK, ImageId
    <2> QED  BY <1>1, <2>1 DEF Sees
  <1>12. FilesOfRows'
    <2> SUFFICES ASSUME NEW i \in ImageId \ abandoned', rows'[i] # None, i \notin files'
                 PROVE  \E t \in Session : Deletes(t, i)'
      BY DEF FilesOfRows, Deletes
    <2>1. rows[i] # None
      BY <1>1, <1>3 DEF Sees, FlushOK
    <2>2. PICK t \in Session : Deletes(t, i)
      BY <1>1, <2>1 DEF ImagesInv, FilesOfRows, Deletes
    <2>3. t # s
      <3> SUFFICES ASSUME Deletes(s, i)
                   PROVE  FALSE
        BY <2>2
      <3>1. i \in DOMAIN pend[s] /\ pend[s][i] = None
        BY <1>1, <1>3 DEF FlushOK, Deletes, Flushed
      <3> QED  BY <1>1, <3>1 DEF Sees
    <2> QED  BY <2>2, <2>3, <1>2 DEF Deletes, Only
  <1>13. last <= last'
    BY <1>1, <1>3 DEF StoredOK
  <1> QED
    BY <1>1, <1>2, <1>5, <1>6, <1>7, <1>8, <1>9, <1>10, <1>11, <1>12, <1>13, OneRequest

-----------------------------------------------------------------------------

LEMMA WorkerStep ==
    ASSUME ImagesInv,
           (\E c \in CarId : SoftDeleteCar(c)) \/ \E i \in ImageId : Optimize(i)
    PROVE  ImagesInv'
  <1>1. /\ UNCHANGED <<rows, imagesJson, last, files, pc, req, pend, alone, abandoned>>
        /\ deleted \subseteq deleted'
    BY DEF SoftDeleteCar, Optimize, StartOptimize, FinishOptimize, RetryOptimize,
           reqVars, histVars, dbVars, diskVars
  <1>2. StoredOK /\ StoredOK' /\ last <= last'
    <2>1. StoredOK
      BY DEF ImagesInv
    <2>2. CASE \E c \in CarId : SoftDeleteCar(c)
      BY <1>1, <2>1, <2>2 DEF SoftDeleteCar, StoredOK, diskVars, taskVars
    <2>3. ASSUME NEW i \in ImageId, Optimize(i)
          PROVE  StoredOK'
      <3>1. /\ tasks' \in [ImageId -> 0..MaxRetries \cup {None}]
            /\ working' \subseteq {k \in ImageId : tasks'[k] # None}
            /\ \A k \in ImageId : tasks'[k] # None => tasks[k] # None
        <4>1. CASE StartOptimize(i)
          BY <2>1, <4>1 DEF StartOptimize, StoredOK
        <4>2. CASE FinishOptimize(i)
          BY <2>1, <4>2 DEF FinishOptimize, StoredOK
        <4>3. CASE RetryOptimize(i)
          <5>1. tasks[i] \in 0..MaxRetries
            BY <2>1, <4>3 DEF RetryOptimize, StoredOK
          <5>2. (IF tasks[i] < MaxRetries THEN tasks[i] + 1 ELSE None)
                   \in 0..MaxRetries \cup {None}
            BY <5>1, ImagesAssumption
          <5> QED  BY <2>1, <4>3, <5>1, <5>2 DEF RetryOptimize, StoredOK
        <4> QED  BY <2>3, <4>1, <4>2, <4>3 DEF Optimize
      <3>2. variants' \subseteq variants \cup {i} /\ i <= last
        BY <2>1, <2>3 DEF Optimize, StartOptimize, FinishOptimize, RetryOptimize, diskVars,
                          StoredOK
      <3>3. i \in 1..last
        BY <2>1, <3>2 DEF StoredOK, ImageId
      <3>4. /\ variants' \subseteq 1..last'
            /\ \A k \in ImageId : rows'[k] # None \/ tasks'[k] # None => k <= last'
        BY <1>1, <2>1, <3>1, <3>2, <3>3 DEF StoredOK
      <3> QED  BY <1>1, <2>1, <3>1, <3>4 DEF StoredOK
    <2>4. last <= last'
      BY <1>1, <2>1 DEF StoredOK
    <2> QED  BY <2>1, <2>2, <2>3, <2>4
  <1>3. ASSUME NEW t \in Session
        PROVE  RequestOK(t)' /\ FlushOK(t)' /\ AloneOK(t)'
    <2>1. RequestOK(t) /\ FlushOK(t) /\ AloneOK(t)
      BY DEF ImagesInv
    <2> QED  BY <1>1, <1>2, <2>1, Bystander
  <1>4. Locked' /\ Unknown' /\ FilesOfRows'
    BY <1>1 DEF ImagesInv, Locked, Unknown, FilesOfRows
  <1> QED  BY <1>1, <1>2, <1>3, <1>4 DEF ImagesInv

LEMMA Stutter == ASSUME ImagesInv, UNCHANGED vars
                 PROVE  ImagesInv'
  <1>1. UNCHANGED <<rows, imagesJson, deleted, last, files, variants, tasks, working,
                    pc, req, pend, alone, abandoned>>
    BY DEF vars, dbVars, diskVars, taskVars, reqVars, histVars
  <1>2. StoredOK /\ StoredOK' /\ last <= last'
    BY <1>1 DEF ImagesInv, StoredOK
  <1>3. ASSUME NEW t \in Session
        PROVE  RequestOK(t)' /\ FlushOK(t)' /\ AloneOK(t)'
    <2>1. RequestOK(t) /\ FlushOK(t) /\ AloneOK(t)
      BY DEF ImagesInv
    <2> QED  BY <1>1, <1>2, <2>1, Bystander
  <1>4. Locked'
    BY <1>1 DEF ImagesInv, Locked
  <1>5. Unknown'
    BY <1>1 DEF ImagesInv, Unknown
  <1>6. FilesOfRows'
    BY <1>1 DEF ImagesInv, FilesOfRows
  <1> QED  BY <1>1, <1>2, <1>3, <1>4, <1>5, <1>6 DEF ImagesInv

LEMMA ImagesInit == Init => ImagesInv
  <1> SUFFICES ASSUME Init
               PROVE  ImagesInv
    OBVIOUS
  <1>1. <<>> \in Seq(ImageId) /\ <<>> \in Json /\ DOMAIN <<>> = {}
    BY NoJson
  <1>2. StoredOK
    BY <1>1, ImagesAssumption DEF Init, StoredOK
  <1>3. NoReq \in HeldRequest(<<>>)
    BY <1>1, HeldRecord DEF NoReq
  <1>4. \A s \in Session : RequestOK(s) /\ FlushOK(s) /\ AloneOK(s)
    BY <1>1, <1>3 DEF Init, RequestOK, FlushOK, AloneOK, NoReq, NoRows, Places, Flushed
  <1>5. Locked /\ Unknown
    BY <1>1 DEF Init, Locked, Unknown, NoRows
  <1>6. FilesOfRows
    BY DEF Init, FilesOfRows
  <1> QED  BY <1>2, <1>4, <1>5, <1>6 DEF ImagesInv, Init

LEMMA RequestBegins ==
    ASSUME ImagesInv, NEW s \in Session,
           \/ \E c \in CarId : BeginUpload(s, c)
           \/ \E c \in CarId, order \in Orders : BeginReorder(s, c, order)
           \/ \E i \in ImageId : BeginDelete(s, i)
    PROVE  ImagesInv'
  <1>1. <<>> \in Seq(ImageId) /\ DOMAIN <<>> = {}
    OBVIOUS
  <1>2. ASSUME NEW c \in CarId, BeginUpload(s, c)
        PROVE  ImagesInv'
    <2>1. Begin(s, "upload", c, <<>>, "loaded")
      BY <1>2 DEF BeginUpload
    <2> QED  BY <1>1, <2>1, BeginStep
  <1>3. ASSUME NEW c \in CarId, NEW order \in Orders, BeginReorder(s, c, order)
        PROVE  ImagesInv'
    <2>1. Begin(s, "reorder", c, order, "loaded") /\ order \in Seq(ImageId)
      BY <1>3, ImagesAssumption DEF BeginReorder
    <2> QED  BY <2>1, BeginStep
  <1>4. ASSUME NEW i \in ImageId, BeginDelete(s, i)
        PROVE  ImagesInv'
    <2>1. Begin(s, "delete", rows[i].car, <<i>>, "deleting") /\ rows[i] # None
      BY <1>4 DEF BeginDelete
    <2>2. rows[i].car \in CarId /\ i <= last
      BY <2>1 DEF ImagesInv, StoredOK, ImageRow
    <2>3. /\ <<i>> \in Seq(ImageId) /\ \A j \in DOMAIN <<i>> : <<i>>[j] <= last
          /\ \E k \in ImageId : <<i>> = <<k>> /\ rows[k] # None
      BY <2>1, <2>2
    <2> QED  BY <2>1, <2>2, <2>3, BeginStep
  <1> QED  BY <1>2, <1>3, <1>4

(* The invariant is inductive.                                             *)
LEMMA ImagesStep == ImagesInv /\ [Next]_vars => ImagesInv'
  <1> SUFFICES ASSUME ImagesInv, [Next]_vars
               PROVE  ImagesInv'
    OBVIOUS
  <1>1. ASSUME NEW s \in Session, Request(s)
        PROVE  ImagesInv'
    <2>1. CASE Upload(s)
      BY <2>1, RequestBegins, SaveStep, FailStep DEF Upload
    <2>2. CASE Reorder(s)
      BY <2>2, RequestBegins, LoadStep, OrderStep, FailStep DEF Reorder
    <2>3. CASE Delete(s)
      BY <2>3, RequestBegins, FileStep, FailStep, DeleteStep DEF Delete
    <2>4. CASE NotFound(s)
      BY <2>4, Stutter DEF NotFound
    <2>5. CASE RefreshImagesCache(s) \/ CommitImages(s) \/ FinishRequest(s)
      BY <2>5, RefreshStep, CommitStep, DoneStep
    <2>6. CASE Crash(s)
      BY <2>6, FailStep, DoneStep DEF Crash
    <2> QED  BY <1>1, <2>1, <2>2, <2>3, <2>4, <2>5, <2>6 DEF Request
  <1> QED  BY <1>1, WorkerStep, Stutter DEF Next

LEMMA SpecImagesInv == Spec => []ImagesInv
  BY ImagesInit, ImagesStep, PTL DEF Spec

(* The type invariant of the rows, the files, the tasks and the requests,  *)
(* with the locks: no two requests have flushed the same row.              *)
THEOREM SpecImagesTypeOK == Spec => []ImagesTypeOK
  <1>1. ImagesInv => ImagesTypeOK
    <2> SUFFICES ASSUME ImagesInv
                 PROVE  ImagesTypeOK
      OBVIOUS
    <2>1. ASSUME NEW c \in CarId, NEW j \in DOMAIN imagesJson[c]
          PROVE  imagesJson[c][j].id \in 1..last
      <3>1. imagesJson[c] \in Json /\ imagesJson[c][j].id <= last /\ last \in Int
        BY DEF ImagesInv, StoredOK
      <3>2. imagesJson[c][j] \in [id : ImageId, order : Nat]
        BY <3>1, ElementOf DEF Json
      <3> QED  BY <3>1, <3>2 DEF ImageId
    <2>2. ASSUME NEW s \in Session, pc[s] = "idle"
          PROVE  req[s] = NoReq /\ s \notin alone
      BY <2>2 DEF ImagesInv, RequestOK, AloneOK, NoReq
    <2> QED  BY <2>1, <2>2 DEF ImagesInv, StoredOK, Locked, ImagesTypeOK
  <1> QED  BY <1>1, SpecImagesInv, PTL

(* A committed row without its file is one whose deletion is under way or  *)
(* died between the file and the commit: uploads write the file before the *)
(* row can be seen, and no other request takes it away                     *)
(* (cars.py:228-234).                                                      *)
THEOREM SpecFilesOfRows == Spec => []FilesOfRows
  <1>1. ImagesInv => FilesOfRows
    BY DEF ImagesInv
  <1> QED  BY <1>1, SpecImagesInv, PTL

-----------------------------------------------------------------------------

LEMMA OnlyCommitCommits ==
    ASSUME ImagesInv, Next, NEW s \in Session, pc[s] = "refreshed", pc'[s] = "committed"
    PROVE  CommitImages(s)
  <1>0. DOMAIN pc = Session
    BY DEF ImagesInv
  <1>1. ASSUME NEW t \in Session, Request(t)
        PROVE  CommitImages(s)
    <2>1. CASE Upload(t)
      BY <1>0, <2>1 DEF Upload, BeginUpload, Begin, SaveImages, RejectImages, Fail, Goto
    <2>2. CASE Reorder(t)
      BY <1>0, <2>2 DEF Reorder, BeginReorder, Begin, LoadImages, FlushOrder, FailOrder, Fail,
                        Goto
    <2>3. CASE Delete(t)
      BY <1>0, <2>3 DEF Delete, BeginDelete, Begin, LookForFile, Unlink, FailUnlink, FlushDelete,
                        Fail, Goto
    <2>4. CASE NotFound(t)
      BY <2>4 DEF NotFound, vars, reqVars
    <2>5. CASE RefreshImagesCache(t) \/ FinishRequest(t) \/ Crash(t)
      BY <1>0, <2>5 DEF RefreshImagesCache, FinishRequest, Crash, CrashAfterCommit,
                        CrashBeforeCommit, Fail, Goto
    <2>6. CASE CommitImages(t)
      BY <1>0, <2>6 DEF CommitImages, Goto
    <2> QED  BY <1>1, <2>1, <2>2, <2>3, <2>4, <2>5, <2>6 DEF Request
  <1>2. ASSUME NEW c \in CarId, SoftDeleteCar(c)
        PROVE  FALSE
    BY <1>2 DEF SoftDeleteCar, reqVars
  <1>3. ASSUME NEW i \in ImageId, Optimize(i)
        PROVE  FALSE
    BY <1>3 DEF Optimize, StartOptimize, FinishOptimize, RetryOptimize, reqVars
  <1> QED  BY <1>1, <1>2, <1>3 DEF Next

(* What a request that no commit has overtaken commits is a listing, of    *)
(* the rows that it commits, in the sort_order they have there.            *)
LEMMA AloneCommits ==
    ASSUME ImagesInv, NEW s \in Session, CommitImages(s), s \in alone,
           req[s].car \notin deleted \/ req[s].kind # "delete"
    PROVE  /\ rows' = Sees(s)
           /\ imagesJson'[req[s].car] = req[s].list
           /\ req[s].list \in Listings(s)
           /\ \A i \in DOMAIN req[s].seen \ DOMAIN pend[s] :
                 req[s].seen[i] = Sees(s)[i].order
  <1>1. /\ pc[s] = "refreshed" /\ rows' = Sees(s)
        /\ imagesJson' = (IF req[s].list = req[s].json THEN imagesJson
                          ELSE [imagesJson EXCEPT ![req[s].car] = req[s].list])
    BY DEF CommitImages
  <1>2. StoredOK /\ RequestOK(s) /\ AloneOK(s) /\ req[s].car \in CarId
    BY DEF ImagesInv, RequestOK, AloneOK
  <1>3. imagesJson'[req[s].car] = req[s].list
    BY <1>1, <1>2 DEF AloneOK, StoredOK
  <1>4. req[s].list \in Listings(s)
    BY <1>1, <1>2 DEF AloneOK
  <1>5. ASSUME NEW i \in DOMAIN req[s].seen \ DOMAIN pend[s]
        PROVE  req[s].seen[i] = Sees(s)[i].order
    <2>1. req[s].kind = "reorder"
      BY <1>2 DEF AloneOK
    <2>2. req[s].seen[i] = rows[i].order
      BY <1>1, <1>2, <2>1 DEF AloneOK
    <2>3. i \in ImageId
      BY <1>2 DEF RequestOK
    <2> QED  BY <2>2, <2>3 DEF Sees
  <1> QED  BY <1>1, <1>3, <1>4, <1>5

(* Every request during which no other one commits leaves the images_json  *)
(* of its car the mirror of its rows, each image once, by sort_order,      *)
(* whatever state it found it in (refresh_images_cache,                    *)
(* car_service.py:180-188).                                                *)
THEOREM SpecAloneRepairs == Spec => AloneRepairs
  <1> DEFINE Repairs(s) == pc[s] = "refreshed" /\ pc'[s] = "committed" /\ s \in alone
                              /\ req[s].car \notin deleted
                           => Mirrors(imagesJson'[req[s].car], rows', req[s].car)
  <1>1. ASSUME ImagesInv, Next, NEW s \in Session,
               pc[s] = "refreshed", pc'[s] = "committed", s \in alone,
               req[s].car \notin deleted
        PROVE  Mirrors(imagesJson'[req[s].car], rows', req[s].car)
    <2> DEFINE list == req[s].list
               ids == ImagesOf(Sees(s), req[s].car)
               n == Cardinality(ids)
    <2>1. CommitImages(s)
      BY <1>1, OnlyCommitCommits
    <2>2. /\ rows' = Sees(s) /\ imagesJson'[req[s].car] = list /\ list \in Listings(s)
          /\ \A i \in DOMAIN req[s].seen \ DOMAIN pend[s] :
                req[s].seen[i] = Sees(s)[i].order
      BY <1>1, <2>1, AloneCommits
    <2>3. StoredOK /\ FlushOK(s) /\ RequestOK(s)
      BY <1>1 DEF ImagesInv
    <2>4. /\ n \in Nat /\ list \in Json /\ Len(list) = n
          /\ \A j \in DOMAIN list : list[j] = JsonEntry(s, list[j].id)
          /\ [j \in 1..n |-> list[j].id] \in Bijection(1..n, ids)
          /\ \A j, k \in DOMAIN list : j < k =>
                Sees(s)[list[j].id].order <= Sees(s)[list[k].id].order
      BY <2>2, <2>3, ListingIs
    <2>5. ASSUME NEW j \in DOMAIN list
          PROVE  list[j].order = Sees(s)[list[j].id].order
      <3> DEFINE i == list[j].id
      <3>1. list[j] = JsonEntry(s, i)
        BY <2>4
      <3>2. JsonEntry(s, i).order = Sees(s)[i].order
        BY <2>2 DEF JsonEntry
      <3> QED  BY <3>1, <3>2
    <2>6. DOMAIN list = 1..n
      BY <2>4 DEF Json
    <2>7. {list[j].id : j \in DOMAIN list} = ids
      <3> HIDE DEF n, ids, list
      <3> QED  BY <2>4, <2>6 DEF Bijection, Surjection, Injection
    <2>8. \A j, k \in DOMAIN list : j < k => list[j].order <= list[k].order
      BY <2>4, <2>5
    <2>9. Mirrors(list, Sees(s), req[s].car)
      <3>1. Len(list) = Cardinality(ImagesOf(Sees(s), req[s].car))
        BY <2>4
      <3> HIDE DEF n, list
      <3> QED  BY <2>5, <2>7, <2>8, <3>1 DEF Mirrors
    <2> HIDE DEF list
    <2> QED  BY <2>2, <2>9
  <1>2. ImagesInv /\ [Next]_vars =>
           [\A s \in Session : Repairs(s)]_vars
    BY <1>1
  <1> QED  BY <1>2, SpecImagesInv, PTL DEF Spec, AloneRepairs

-----------------------------------------------------------------------------

(* An interval that a strictly increasing function maps into another one   *)
(* is not longer than that one.                                            *)
LEMMA IncreasingNeedsRoom ==
    ASSUME NEW a \in Int, NEW b \in Int, NEW c \in Int, NEW d \in Int, NEW f,
           \A k \in a..b : f[k] \in c..d,
           \A k, l \in a..b : k < l => f[k] < f[l]
    PROVE  Cardinality(a..b) <= Cardinality(c..d)
  <1> DEFINE g == [k \in a..b |-> f[k]]
  <1>1. g \in [a..b -> c..d]
    OBVIOUS
  <1>2. ASSUME NEW k \in a..b, NEW l \in a..b, f[k] = f[l]
        PROVE  k = l
    <2>1. /\ k \in Int /\ l \in Int /\ f[k] \in Int /\ f[l] \in Int
          /\ k < l => f[k] < f[l]
          /\ l < k => f[l] < f[k]
      OBVIOUS
    <2> QED  BY <1>2, <2>1
  <1>3. \A k, l \in a..b : g[k] = g[l] => k = l
    <2>1. \A k \in a..b : g[k] = f[k]
      OBVIOUS
    <2> HIDE DEF g
    <2> QED  BY <1>2, <2>1
  <1>4. g \in Injection(a..b, c..d)
    <2> HIDE DEF g
    <2> QED  BY <1>1, <1>3 DEF Injection, IsInjective
  <1>5. IsFiniteSet(c..d)
    BY FS_Interval
  <1> HIDE DEF g
  <1> QED  BY <1>4, <1>5, FS_Injection

(* Only the identity orders 1..n as it is.                                 *)
LEMMA IncreasingIsIdentity ==
    ASSUME NEW n \in Nat, NEW f \in [1..n -> 1..n],
           \A j, k \in 1..n : j < k => f[j] < f[k],
           NEW j \in 1..n
    PROVE  f[j] = j
  <1>1. PICK i \in 1..n : i = f[j]
    OBVIOUS
  <1>2. i \in Int /\ j \in Int /\ n \in Int /\ 1 \in Int
    OBVIOUS
  <1>3. \A k \in 1..n : f[k] \in 1..n /\ (k < j => f[k] < i) /\ (j < k => i < f[k])
    BY <1>1
  <1>4. j <= i
    <2>1. \A k \in 1..j : k \in 1..n /\ f[k] \in 1..i
      <3>1. ASSUME NEW k \in 1..j PROVE k \in 1..n /\ f[k] \in 1..i
        <4>1. k \in 1..n /\ k <= j /\ (k = j \/ k < j)
          BY <1>2
        <4>2. f[k] \in 1..n /\ (k < j => f[k] < i)
          BY <1>3, <4>1
        <4>3. k = j => f[k] = i
          BY <1>1
        <4> DEFINE v == f[k]
        <4> HIDE DEF v
        <4>4. v \in 1..n /\ (k < j => v < i) /\ (k = j => v = i)
          BY <4>2, <4>3 DEF v
        <4>5. v <= i
          BY <1>2, <4>1, <4>4
        <4> QED  BY <1>2, <4>1, <4>4, <4>5 DEF v
      <3> QED  BY <3>1
    <2>2. \A k, l \in 1..j : k < l => f[k] < f[l]
      BY <2>1
    <2>3. \A k \in 1..j : f[k] \in 1..i
      BY <2>1
    <2>4. Cardinality(1..j) <= Cardinality(1..i)
      BY <1>2, <2>2, <2>3, IncreasingNeedsRoom, Zenon
    <2>5. Cardinality(1..j) = j /\ Cardinality(1..i) = i
      BY <1>2, FS_Interval
    <2> QED  BY <2>4, <2>5
  <1>5. i <= j
    <2>1. \A k \in j..n : k \in 1..n /\ f[k] \in i..n
      <3>1. ASSUME NEW k \in j..n PROVE k \in 1..n /\ f[k] \in i..n
        <4>1. k \in 1..n /\ j <= k /\ (k = j \/ j < k)
          BY <1>2
        <4>2. f[k] \in 1..n /\ (j < k => i < f[k])
          BY <1>3, <4>1
        <4>3. k = j => f[k] = i
          BY <1>1
        <4> DEFINE v == f[k]
        <4> HIDE DEF v
        <4>4. v \in 1..n /\ (j < k => i < v) /\ (k = j => v = i)
          BY <4>2, <4>3 DEF v
        <4>5. i <= v
          BY <1>2, <4>1, <4>4
        <4> QED  BY <1>2, <4>1, <4>4, <4>5 DEF v
      <3> QED  BY <3>1
    <2>2. \A k, l \in j..n : k < l => f[k] < f[l]
      BY <2>1
    <2>3. \A k \in j..n : f[k] \in i..n
      BY <2>1
    <2>4. Cardinality(j..n) <= Cardinality(i..n)
      BY <1>2, <2>2, <2>3, IncreasingNeedsRoom, Zenon
    <2>5. Cardinality(j..n) = n - j + 1 /\ Cardinality(i..n) = n - i + 1
      BY <1>2, FS_Interval
    <2> QED  BY <1>2, <2>4, <2>5
  <1> QED  BY <1>1, <1>2, <1>4, <1>5

(* Two lists of the same elements, each once, are the same if the second   *)
(* goes up in the positions of the first.                                  *)
LEMMA SameOrder ==
    ASSUME NEW S, NEW m \in Nat, NEW order \in Bijection(1..m, S),
           NEW n \in Nat, NEW q \in Bijection(1..n, S),
           \A j, k \in 1..n : \A a, b \in 1..m :
              j < k /\ order[a] = q[j] /\ order[b] = q[k] => a <= b
    PROVE  m = n /\ \A j \in 1..n : order[j] = q[j]
  <1>1. IsFiniteSet(1..m) /\ Cardinality(1..m) = m /\ IsFiniteSet(1..n) /\ Cardinality(1..n) = n
    BY FS_Interval
  <1>2. Cardinality(S) = m /\ Cardinality(S) = n
    BY <1>1, FS_Bijection DEF ExistsBijection
  <1>3. /\ \A a, b \in 1..m : order[a] = order[b] => a = b
        /\ \A i \in S : \E a \in 1..m : order[a] = i
        /\ \A j, k \in 1..n : q[j] = q[k] => j = k
        /\ \A j \in 1..n : q[j] \in S
    BY DEF Bijection, Injection, Surjection, IsInjective
  <1> DEFINE f == [j \in 1..n |-> CHOOSE a \in 1..m : order[a] = q[j]]
  <1>4. \A j \in 1..n : f[j] \in 1..m /\ order[f[j]] = q[j]
    BY <1>3
  <1>5. f \in [1..n -> 1..n]
    BY <1>2, <1>4
  <1> HIDE DEF f
  <1>6. ASSUME NEW j \in 1..n, NEW k \in 1..n, j < k
        PROVE  f[j] < f[k]
    <2>1. f[j] <= f[k]
      BY <1>4, <1>6
    <2>2. f[j] # f[k]
      BY <1>3, <1>4, <1>6
    <2> QED  BY <1>4, <2>1, <2>2
  <1>7. \A j \in 1..n : f[j] = j
    BY <1>5, <1>6, IncreasingIsIdentity
  <1> QED  BY <1>2, <1>4, <1>7

(* While nothing overtakes a reorder that names every image once, the      *)
(* transaction sees the images of the car at the places it asked for.      *)
LEMMA OrderIsSeen ==
    ASSUME ImagesInv, NEW s \in Session, s \in alone, pc[s] = "refreshed",
           req[s].kind = "reorder", IsInjective(req[s].ids),
           Range(req[s].ids) = ImagesOf(rows, req[s].car)
    PROVE  /\ ImagesOf(Sees(s), req[s].car) = ImagesOf(rows, req[s].car)
           /\ \A j \in DOMAIN req[s].ids : Sees(s)[req[s].ids[j]].order = j - 1
  <1> DEFINE order == req[s].ids
  <1>1. StoredOK /\ RequestOK(s) /\ FlushOK(s) /\ AloneOK(s) /\ pc[s] \in Flushed
    BY DEF ImagesInv, Flushed
  <1>2. /\ DOMAIN req[s].seen = ImagesOf(rows, req[s].car)
        /\ \A i \in DOMAIN req[s].seen : req[s].seen[i] = rows[i].order
        /\ pend[s] = [i \in Moved(s) |->
                         [rows[i] EXCEPT !.order = PlaceIn(req[s].ids, i)]]
    BY <1>1 DEF AloneOK
  <1>3. \A i \in ImageId : /\ Sees(s)[i] # None <=> rows[i] # None
                           /\ rows[i] # None => Sees(s)[i].car = rows[i].car
    <2>1. \A i \in DOMAIN pend[s] : /\ rows[i] # None /\ pend[s][i] # None
                                    /\ pend[s][i].car = rows[i].car
      BY <1>1, ImagesAssumption DEF FlushOK
    <2> QED  BY <2>1 DEF Sees
  <1>4. ASSUME NEW j \in DOMAIN order
        PROVE  Sees(s)[order[j]].order = j - 1
    <2> DEFINE i == order[j]
    <2>1. i \in Range(order) /\ i \in DOMAIN req[s].seen /\ i \in ImageId
      BY <1>2 DEF Range, ImagesOf
    <2>2. order \in Seq(ImageId)
      BY <1>1, HeldFields
    <2>3. PlaceIn(order, i) = j - 1
      <3>1. PICK k \in DOMAIN order : order[k] = i /\ PlaceIn(order, i) = k - 1
        <4> HIDE DEF i
        <4> QED  BY <2>1, <2>2, PlaceInIsLast
      <3> QED  BY <3>1 DEF IsInjective
    <2>4. rows[i] \in ImageRow
      BY <1>1, <1>2, <2>1 DEF StoredOK, ImagesOf
    <2>5. CASE i \in Moved(s)
      <3>1. Sees(s)[i] = [rows[i] EXCEPT !.order = PlaceIn(order, i)]
        BY <1>2, <2>1, <2>5 DEF Sees
      <3> QED  BY <2>3, <2>4, <3>1 DEF ImageRow
    <2>6. CASE i \notin Moved(s)
      <3>1. Sees(s)[i] = rows[i]
        BY <1>2, <2>1, <2>6 DEF Sees
      <3>2. PlaceIn(order, i) = req[s].seen[i]
        BY <2>1, <2>6 DEF Moved
      <3> QED  BY <1>2, <2>1, <2>3, <3>1, <3>2
    <2> QED  BY <2>5, <2>6
  <1> QED  BY <1>3, <1>4 DEF ImagesOf

(* A reorder request that names every image of the car once, and meets no  *)
(* other commit, leaves images_json in the order it asked for              *)
(* (cars.py:206-211).                                                      *)
THEOREM SpecReorderIsObeyed == Spec => ReorderIsObeyed
  <1>1. ASSUME ImagesInv, Next, NEW s \in Session,
               pc[s] = "refreshed", pc'[s] = "committed", s \in alone,
               req[s].kind = "reorder", IsInjective(req[s].ids),
               Range(req[s].ids) = ImagesOf(rows, req[s].car)
        PROVE  [j \in DOMAIN imagesJson'[req[s].car] |-> imagesJson'[req[s].car][j].id]
                  = req[s].ids
    <2> DEFINE list == req[s].list
               order == req[s].ids
               ids == ImagesOf(Sees(s), req[s].car)
               n == Cardinality(ids)
               m == Len(order)
               q == [j \in 1..n |-> list[j].id]
    <2>1. CommitImages(s)
      BY <1>1, OnlyCommitCommits
    <2>2. imagesJson'[req[s].car] = list /\ list \in Listings(s)
      BY <1>1, <2>1, AloneCommits
    <2>3. StoredOK /\ FlushOK(s) /\ RequestOK(s)
      BY <1>1 DEF ImagesInv
    <2>4. /\ n \in Nat /\ list \in Json /\ Len(list) = n
          /\ q \in Bijection(1..n, ids)
          /\ \A j, k \in DOMAIN list : j < k =>
                Sees(s)[list[j].id].order <= Sees(s)[list[k].id].order
      BY <2>2, <2>3, ListingIs
    <2>5. DOMAIN list = 1..n
      BY <2>4 DEF Json
    <2>6. /\ ids = Range(order)
          /\ \A j \in DOMAIN order : Sees(s)[order[j]].order = j - 1
      BY <1>1, OrderIsSeen
    <2>7. m \in Nat /\ DOMAIN order = 1..m /\ order = [j \in 1..m |-> order[j]]
      BY <2>3, HeldFields
    <2> HIDE DEF list, order, ids, n, m
    <2>8. order \in Bijection(1..m, ids)
      <3>1. IsInjective(order)
        BY <1>1 DEF order
      <3>2. order \in [1..m -> ids] /\ \A i \in ids : \E j \in 1..m : order[j] = i
        BY <2>6, <2>7 DEF Range
      <3>3. order \in Injection(1..m, ids)
        BY <2>7, <3>1, <3>2 DEF Injection, IsInjective
      <3>4. order \in Surjection(1..m, ids)
        BY <3>2 DEF Surjection
      <3> QED  BY <3>3, <3>4 DEF Bijection
    <2>9. \A j, k \in 1..n : \A a, b \in 1..m :
             j < k /\ order[a] = q[j] /\ order[b] = q[k] => a <= b
      <3> SUFFICES ASSUME NEW j \in 1..n, NEW k \in 1..n, NEW a \in 1..m, NEW b \in 1..m,
                          j < k, order[a] = q[j], order[b] = q[k]
                   PROVE  a <= b
        OBVIOUS
      <3>1. Sees(s)[order[a]].order = a - 1 /\ Sees(s)[order[b]].order = b - 1
        BY <2>6, <2>7
      <3>2. Sees(s)[order[a]].order <= Sees(s)[order[b]].order
        BY <2>4, <2>5
      <3> QED  BY <2>7, <3>1, <3>2
    <2>10. m = n /\ \A j \in 1..n : order[j] = q[j]
      <3>1. m \in Nat /\ n \in Nat /\ q \in Bijection(1..n, ids)
        BY <2>4, <2>7
      <3> HIDE DEF q
      <3> QED  BY <3>1, <2>8, <2>9, SameOrder
    <2>11. [j \in DOMAIN list |-> list[j].id] = order
      BY <2>5, <2>7, <2>10
    <2> QED  BY <2>2, <2>11 DEF order
  <1>2. ImagesInv /\ [Next]_vars =>
           [\A s \in Session :
               LET order == req[s].ids
                   json == imagesJson'[req[s].car]
               IN pc[s] = "refreshed" /\ pc'[s] = "committed" /\ s \in alone
                     /\ req[s].kind = "reorder" /\ IsInjective(order)
                     /\ Range(order) = ImagesOf(rows, req[s].car)
                  => [j \in DOMAIN json |-> json[j].id] = order]_vars
    BY <1>1
  <1> QED  BY <1>2, SpecImagesInv, PTL DEF Spec, ReorderIsObeyed

=============================================================================
