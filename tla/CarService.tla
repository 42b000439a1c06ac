----------------------------- MODULE CarService -----------------------------
(***************************************************************************)
(* The cars table under concurrent admin requests: the operations of       *)
(* car_service, each run by a request session as the routers run it, in    *)
(* one database transaction and one cache invalidation after it.           *)
(*                                                                         *)
(* A transaction reads (READ COMMITTED), computes on the loaded objects    *)
(* and writes when it commits.  SQLAlchemy's UPDATE names the changed      *)
(* columns only, and row locks order the writers of a row by commit, so a  *)
(* commit is one step that overwrites exactly the columns whose value      *)
(* differs from the loaded one.  Between the read and the commit any other *)
(* session may commit.                                                     *)
(***************************************************************************)
EXTENDS CarData

CONSTANTS
    Session,       \* requests that may be in progress at the same time
    Unset,         \* a field that a PATCH payload leaves out
    CreatePayloads,\* the CarCreate bodies that may arrive
    UpdatePayloads,\* the CarUpdate bodies that may arrive
    MayCrash       \* TRUE: a web worker may die, or Redis fail, in a request

Payload == [name : [NamePart -> Word \cup {Unset}], status : Status \cup {Unset},
            cols : [Columns -> Value \cup {None, Unset}]]

(* A null price, name or status fails the flush with an IntegrityError and *)
(* changes nothing; such payloads are left out.                            *)
ASSUME PayloadAssumption ==
    /\ Unset \notin Word \cup Status \cup Value \cup {None}
    /\ CreatePayloads \subseteq {c \in Car : ~c.deleted}
    /\ UpdatePayloads \subseteq Payload
    /\ \A p \in UpdatePayloads : p.cols["price"] # None
    /\ MayCrash \in BOOLEAN

VARIABLES
    cars,        \* the committed cars table
    audit,       \* the audit_logs rows the latest step inserted
    cacheBehind, \* TRUE: a commit has not been followed by an invalidation
    pc,          \* where each session is in its handler
    loaded       \* the Car objects each session has loaded, as it read them

carVars == <<cars, audit, cacheBehind, pc, loaded>>

Nothing == [i \in CarId |-> NoCar]
EditPC == {"idle", "editing", "edited"}

Field == Columns \cup NamePart \cup {"status"}
Get(car, f) == IF f \in NamePart THEN car.name[f]
               ELSE IF f = "status" THEN car.status ELSE car.cols[f]
Pairs(car, fields) == [f \in fields |-> Get(car, f)]
Entry(i, action, old, new) ==
    [car |-> i, action |-> action, old |-> old, new |-> new]

(* Mutant: the price is logged with the other fields only.                 *)
UpdateEntriesOnce(i, car, fields, new) ==
    IF fields = {} THEN {} ELSE {Entry(i, "update", Pairs(car, fields), new)}

(* The entries for an update: one "update" with every changed field, and   *)
(* a "price_change" of its own when the price is among them.               *)
UpdateEntries(i, car, fields, new) ==
    (IF fields = {} THEN {}
     ELSE {Entry(i, "update", Pairs(car, fields), new)})
    \cup (IF "price" \in fields
          THEN {Entry(i, "price_change", Pairs(car, {"price"}),
                      [f \in {"price"} |-> new[f]])} ELSE {})

Init == /\ cars = Nothing
        /\ audit = {}
        /\ cacheBehind = FALSE
        /\ pc = [s \in Session |-> "idle"]
        /\ loaded = [s \in Session |-> Nothing]

Goto(s, label) == pc' = [pc EXCEPT ![s] = label]
Forget(s) == loaded' = [loaded EXCEPT ![s] = Nothing]
NoCommit == cars' = cars /\ audit' = {}

-----------------------------------------------------------------------------

(* get_car: the request loads a car that is not soft-deleted.              *)
BeginEdit(s, i) ==
    /\ pc[s] = "idle"
    /\ i \in Ids(cars) /\ ~cars[i].deleted
    /\ loaded' = [loaded EXCEPT ![s] = [Nothing EXCEPT ![i] = cars[i]]]
    /\ Goto(s, "editing")
    /\ NoCommit /\ UNCHANGED cacheBehind

(* The other answer to a request for a car: 404, and nothing happens.      *)
NotFound(s, i) ==
    /\ pc[s] = "idle"
    /\ i \in Ids(cars) => cars[i].deleted
    /\ NoCommit /\ UNCHANGED <<cacheBehind, pc, loaded>>

(* db.commit() of session s: the table becomes `table`, `entries` are      *)
(* added to audit_logs, and the handler goes on at `label`.                *)
Commit(s, table, entries, label) ==
    /\ cars' = table
    /\ audit' = entries
    /\ cacheBehind' = TRUE
    /\ Forget(s)
    /\ Goto(s, label)

(* create_car.  A taken excel_row_id is an IntegrityError and a rollback,  *)
(* which leaves nothing behind.                                            *)
CreateCar(s, i, payload) ==
    /\ pc[s] = "idle"
    /\ cars[i] = NoCar
    /\ ~EidTaken(cars, payload.eid)
    /\ Commit(s, [cars EXCEPT ![i] = payload],
              {Entry(i, "create", Pairs(payload, {}), Pairs(payload, Field))},
              "edited")

PayloadValue(p, f) == IF f \in NamePart THEN p.name[f]
                      ELSE IF f = "status" THEN p.status ELSE p.cols[f]

(* Mutant: model_dump() without exclude_unset.                             *)
ChangedOrUnset(car, p) == {f \in Field : PayloadValue(p, f) # Get(car, f)}

(* The fields update_car sets: present in the payload and different from   *)
(* the loaded car.                                                         *)
Changed(car, p) == {f \in Field : /\ PayloadValue(p, f) # Unset
                                  /\ PayloadValue(p, f) # Get(car, f)}

SetFields(car, p, fields) ==
    [car EXCEPT
        !.name = [n \in NamePart |-> IF n \in fields THEN p.name[n] ELSE @[n]],
        !.status = IF "status" \in fields THEN p.status ELSE @,
        !.cols = [c \in Columns |-> IF c \in fields THEN p.cols[c] ELSE @[c]]]

UpdateCar(s, i, p) ==
    /\ pc[s] = "editing" /\ loaded[s][i] # NoCar
    /\ LET car == loaded[s][i]
           fields == Changed(car, p)
       IN Commit(s, [cars EXCEPT ![i] = SetFields(@, p, fields)],
                 UpdateEntries(i, car, fields,
                               [f \in fields |-> PayloadValue(p, f)]),
                 "edited")

(* car.status = new: no UPDATE is sent when the loaded car has that status *)
SetStatus(current, car, new) ==
    IF car.status = new THEN current ELSE [current EXCEPT !.status = new]

(* Mutant: the entry is built after the assignment to car.status.          *)
StatusEntryAfterwards(i, action, car, new) ==
    Entry(i, action, [f \in {"status"} |-> new], [f \in {"status"} |-> new])

StatusEntry(i, action, car, new) ==
    Entry(i, action, Pairs(car, {"status"}), [f \in {"status"} |-> new])

(* publish_car and archive_car look at no status before they set one.      *)
PublishCar(s, i) ==
    /\ pc[s] = "editing" /\ loaded[s][i] # NoCar
    /\ LET car == loaded[s][i]
       IN Commit(s, [cars EXCEPT ![i] = SetStatus(@, car, "published")],
                 {StatusEntry(i, "publish", car, "published")}, "edited")

ArchiveCar(s, i) ==
    /\ pc[s] = "editing" /\ loaded[s][i] # NoCar
    /\ LET car == loaded[s][i]
       IN Commit(s, [cars EXCEPT ![i] = SetStatus(@, car, "archived")],
                 {StatusEntry(i, "archive", car, "archived")}, "edited")

SoftDeleteCar(s, i) ==
    /\ pc[s] = "editing" /\ loaded[s][i] # NoCar
    /\ LET car == loaded[s][i]
       IN Commit(s, [cars EXCEPT ![i].deleted = TRUE],
                 {Entry(i, "delete", Pairs(car, {}), Pairs(car, {}))}, "edited")

(* invalidate_cars_cache() after the commit, and the end of the request.   *)
InvalidateAfterEdit(s) ==
    /\ pc[s] = "edited"
    /\ cacheBehind' = FALSE
    /\ Goto(s, "idle")
    /\ NoCommit /\ UNCHANGED loaded

(* The request dies: what it has not committed is rolled back, what it has *)
(* still to do after the commit is never done.                             *)
CrashInEdit(s) ==
    /\ MayCrash
    /\ pc[s] \in EditPC \ {"idle"}
    /\ Goto(s, "idle")
    /\ Forget(s)
    /\ NoCommit /\ UNCHANGED cacheBehind

(* What the routers do up to the commit, for a request of any kind.        *)
Handle(s) ==
    \E i \in CarId :
        \/ BeginEdit(s, i) \/ NotFound(s, i)
        \/ \E c \in CreatePayloads : CreateCar(s, i, c)
        \/ \E p \in UpdatePayloads : UpdateCar(s, i, p)
        \/ PublishCar(s, i) \/ ArchiveCar(s, i) \/ SoftDeleteCar(s, i)

Edit(s) == Handle(s) \/ InvalidateAfterEdit(s) \/ CrashInEdit(s)

Next == \E s \in Session : Edit(s)

Spec == Init /\ [][Next]_carVars

-----------------------------------------------------------------------------

EntryOK(e) ==
    /\ e.car \in CarId
    /\ e.action \in {"create", "update", "price_change", "publish",
                     "archive", "delete"}
    /\ DOMAIN e.old \subseteq Field /\ DOMAIN e.new \subseteq Field

TableOK == /\ cars \in Table
           /\ loaded \in [Session -> Table]
           /\ cacheBehind \in BOOLEAN
           /\ \A e \in audit : EntryOK(e)

TypeOK == TableOK /\ pc \in [Session -> EditPC]

(* No two cars ever carry the same excel_row_id, archived and soft-deleted *)
(* ones included, whatever interleaving of creates and Excel applies       *)
(* inserts them (uq_cars_excel_row_id, car.py:77).                         *)
EidsUnique(table) ==
    \A i, j \in Ids(table) :
        table[i].eid # None /\ table[i].eid = table[j].eid => i = j
EidUnique == EidsUnique(cars)

(* Where a handler stands between its commit and its invalidation, the two *)
(* places of apply_diff (module ExcelSync) included.                       *)
OwesInvalidation == {"edited", "committed", "cleared"}

(* "Any create/update/delete/publish/archive call - including Excel apply  *)
(* - calls invalidate_cars_cache()" (README.md:136): as long as the cache  *)
(* may hold responses from before a commit, some request still has its     *)
(* invalidation ahead of it.                                               *)
SomeoneWillInvalidate ==
    cacheBehind => \E s \in Session : pc[s] \in OwesInvalidation

(* A commit never changes a row without accounting for it: every new car   *)
(* has its create entry, every changed field the entry with its new value, *)
(* every changed price a price_change entry, every deletion its entry, in  *)
(* the same transaction as the change (README.md:19-20).                   *)
AccountedFor(i) ==
    LET entries == {e \in audit' : e.car = i}
        is(action) == \E e \in entries : e.action = action
        now(f) == Get(cars'[i], f)
    IN IF cars[i] = NoCar THEN is("create")
       ELSE /\ \A f \in Field :
                  now(f) # Get(cars[i], f) =>
                      \E e \in entries : f \in DOMAIN e.new /\ e.new[f] = now(f)
            /\ now("price") # Get(cars[i], "price") =>
                  \E e \in entries : e.action = "price_change"
                                        /\ e.new["price"] = now("price")
            /\ cars'[i].deleted # cars[i].deleted => is("delete")

AuditCoversCommit ==
    [][\A i \in CarId : cars'[i] # cars[i] => AccountedFor(i)]_carVars

(* What an audit entry calls the old value is the value the commit         *)
(* replaced, so that the entries of a car form one history.                *)
OldValueIsReplaced ==
    [][cars' # cars =>
        \A e \in audit' : \A f \in DOMAIN e.old :
            e.old[f] = Get(cars[e.car], f)]_carVars

=============================================================================
