-------------------------- MODULE CarServiceProofs --------------------------
(***************************************************************************)
(* Proofs about CarService for any number of cars, sessions and payloads:  *)
(* type correctness, uniqueness of excel_row_id, and that every commit is  *)
(* accounted for in the audit log.                                         *)
(***************************************************************************)
EXTENDS CarService, TLAPS

(* The parts of the name and the status are not data columns.              *)
LEMMA FieldFacts ==
    /\ \A n \in NamePart : n \notin Columns /\ n # "status"
    /\ "status" \notin Columns
    /\ "price" \in Columns /\ "price" \notin NamePart
    /\ Columns \subseteq Field /\ NamePart \subseteq Field /\ "status" \in Field
BY ColumnsAssumption, DisjointAssumption DEF Field, NamePart

(* A field is of one of three kinds.                                       *)
LEMMA FieldCases ==
    ASSUME NEW f \in Field
    PROVE  f \in NamePart \/ f = "status" \/ f \in Columns
BY DEF Field

LEMMA TableFacts ==
    ASSUME NEW table \in Table, NEW i \in CarId
    PROVE  /\ i \in Ids(table) <=> table[i] # NoCar
           /\ i \in Ids(table) => table[i] \in Car
BY DEF Table, Ids

(* update_car turns a car into a car and leaves its identity alone.        *)
LEMMA SetFieldsType ==
    ASSUME NEW current \in Car, NEW car \in Car, NEW p \in Payload
    PROVE  LET new == SetFields(current, p, Changed(car, p))
           IN new \in Car /\ new.eid = current.eid /\ new.deleted = current.deleted
                /\ new.source = current.source
<1> DEFINE fields == Changed(car, p)
<1>1. p \in Payload
  OBVIOUS
<1>2. \A n \in NamePart : n \in fields => p.name[n] \in Word
  BY <1>1, FieldFacts DEF Changed, PayloadValue, Payload
<1>3. "status" \in fields => p.status \in Status
  BY <1>1, FieldFacts DEF Changed, PayloadValue, Payload
<1>4. [n \in NamePart |-> IF n \in fields THEN p.name[n] ELSE current.name[n]] \in Name
  BY <1>2 DEF Name, Car
<1>5. \A c \in Columns : c \in fields => p.cols[c] \in Value \cup {None}
  BY <1>1, FieldFacts DEF Changed, PayloadValue, Payload
<1>6. [c \in Columns |-> IF c \in fields THEN p.cols[c] ELSE current.cols[c]] \in Cells
  BY <1>5 DEF Cells, Car
<1> QED
  BY <1>4, <1>3, <1>6 DEF SetFields, Car

LEMMA SetStatusType ==
    ASSUME NEW current \in Car, NEW car \in Car, NEW new \in Status
    PROVE  LET c == SetStatus(current, car, new)
           IN c \in Car /\ c.eid = current.eid /\ c.deleted = current.deleted
                /\ c.source = current.source
BY DEF SetStatus, Car

-----------------------------------------------------------------------------

(* A session holds only cars it has loaded from the table, so a row it     *)
(* writes exists.                                                          *)
LoadedExist == \A s \in Session : \A i \in CarId :
                   loaded[s][i] # NoCar => i \in Ids(cars)

IInv == TableOK /\ LoadedExist /\ EidUnique

LEMMA InitIInv == Init => IInv
BY DEF Init, IInv, TableOK, LoadedExist, EidUnique, EidsUnique, Nothing, Table, Ids

(* An entry about a car of the table, with pairs over fields, is well      *)
(* formed.                                                                 *)
LEMMA EntryTyped ==
    ASSUME NEW i \in CarId, NEW old, NEW new,
           NEW action \in {"create", "update", "price_change", "publish",
                           "archive", "delete"},
           DOMAIN old \subseteq Field, DOMAIN new \subseteq Field
    PROVE  EntryOK(Entry(i, action, old, new))
BY DEF EntryOK, Entry

LEMMA UpdateEntriesTyped ==
    ASSUME NEW i \in CarId, NEW car \in Car, NEW fields \in SUBSET Field,
           NEW new, DOMAIN new \subseteq Field
    PROVE  \A e \in UpdateEntries(i, car, fields, new) : EntryOK(e)
BY FieldFacts, EntryTyped DEF UpdateEntries, Pairs

(* A commit preserves the invariant if it only adds cars or rewrites their *)
(* columns, and the table it writes has unique row ids.                    *)
LEMMA CommitIInv ==
    ASSUME IInv, NEW s \in Session, NEW label,
           NEW table \in Table, Ids(cars) \subseteq Ids(table),
           EidsUnique(table),
           NEW entries, \A e \in entries : EntryOK(e),
           Commit(s, table, entries, label)
    PROVE  IInv'
<1>1. loaded' = [loaded EXCEPT ![s] = Nothing] /\ cars' = table
         /\ audit' = entries /\ cacheBehind' = TRUE
  BY DEF Commit, Forget
<1>2. Nothing \in Table /\ \A i \in CarId : Nothing[i] = NoCar
  BY DEF Nothing, Table
<1>3. TableOK'
  BY <1>1, <1>2 DEF IInv, TableOK, EntryOK
<1>4. LoadedExist'
  BY <1>1, <1>2 DEF IInv, TableOK, LoadedExist, Ids
<1>5. EidUnique'
  BY <1>1 DEF EidUnique
<1> QED BY <1>3, <1>4, <1>5 DEF IInv

(* Rewriting one car, its excel_row_id excepted, keeps the ids unique.     *)
LEMMA RewriteOne ==
    ASSUME NEW table \in Table, NEW i \in Ids(table), NEW car \in Car,
           car.eid = table[i].eid
    PROVE  LET new == [table EXCEPT ![i] = car]
           IN /\ new \in Table /\ Ids(new) = Ids(table)
              /\ EidsUnique(table) => EidsUnique(new)
BY NoCarAssumption DEF Table, Ids, EidsUnique

(* The same when the rows are kept as they are and nothing is committed.   *)
LEMMA NoCommitIInv ==
    ASSUME IInv, NoCommit, cacheBehind' \in BOOLEAN,
           loaded' \in [Session -> Table], LoadedExist'
    PROVE  IInv'
BY DEF IInv, NoCommit, TableOK, EidUnique, EidsUnique, Ids

-----------------------------------------------------------------------------

LEMMA BeginEditIInv ==
    ASSUME IInv, NEW s \in Session, NEW i \in CarId, BeginEdit(s, i)
    PROVE  IInv'
<1> DEFINE view == [Nothing EXCEPT ![i] = cars[i]]
<1>1. view \in Table /\ \A j \in CarId : view[j] # NoCar => j \in Ids(cars)
  BY DEF IInv, TableOK, BeginEdit, Nothing, Table, Ids
<1>2. loaded' = [loaded EXCEPT ![s] = view] /\ NoCommit /\ cacheBehind' = cacheBehind
  BY DEF BeginEdit
<1>3. loaded' \in [Session -> Table]
  BY <1>1, <1>2 DEF IInv, TableOK
<1>4. LoadedExist'
  BY <1>1, <1>2 DEF IInv, TableOK, LoadedExist, NoCommit, Ids
<1> QED BY <1>2, <1>3, <1>4, NoCommitIInv DEF IInv, TableOK

LEMMA CreateCarIInv ==
    ASSUME IInv, NEW s \in Session, NEW i \in CarId,
           NEW car \in Car, CreateCar(s, i, car)
    PROVE  IInv'
<1> DEFINE table == [cars EXCEPT ![i] = car]
           entries == {Entry(i, "create", Pairs(car, {}), Pairs(car, Field))}
<1>1. car \in Car
  OBVIOUS
<1>2. table \in Table /\ Ids(table) = Ids(cars) \cup {i} /\ i \notin Ids(cars)
  BY <1>1, NoCarAssumption DEF IInv, TableOK, Table, Ids, CreateCar
<1>3. EidsUnique(table)
  <2>1. table[i] = car /\ \A j \in Ids(cars) : table[j] = cars[j]
    BY <1>2 DEF IInv, TableOK, Table, Ids
  <2>2. car.eid # None => \A j \in Ids(cars) : cars[j].eid # car.eid
    BY DEF CreateCar, EidTaken
  <2>3. EidsUnique(cars)
    BY DEF IInv, EidUnique
  <2> HIDE DEF table
  <2> QED BY <1>2, <2>1, <2>2, <2>3 DEF EidsUnique
<1>4. \A e \in entries : EntryOK(e)
  BY EntryTyped DEF Pairs
<1>5. Commit(s, table, entries, "edited")
  BY DEF CreateCar
<1> HIDE DEF table, entries
<1> QED BY <1>2, <1>3, <1>4, <1>5, CommitIInv

(* What the four updating handlers have in common: the car they loaded is  *)
(* still in the table.                                                     *)
LEMMA LoadedCar ==
    ASSUME IInv, NEW s \in Session, NEW i \in CarId, loaded[s][i] # NoCar
    PROVE  /\ loaded[s][i] \in Car /\ i \in Ids(cars) /\ cars[i] \in Car
           /\ cars \in Table /\ EidsUnique(cars)
BY DEF IInv, TableOK, LoadedExist, Table, Ids, EidUnique

LEMMA UpdateCarIInv ==
    ASSUME IInv, NEW s \in Session, NEW i \in CarId,
           NEW p \in Payload, UpdateCar(s, i, p)
    PROVE  IInv'
<1> DEFINE car == loaded[s][i]
           fields == Changed(car, p)
           table == [cars EXCEPT ![i] = SetFields(@, p, fields)]
           entries == UpdateEntries(i, car, fields,
                                    [f \in fields |-> PayloadValue(p, f)])
<1>1. car # NoCar
  BY DEF UpdateCar
<1>2. car \in Car /\ i \in Ids(cars) /\ cars[i] \in Car
         /\ cars \in Table /\ EidsUnique(cars)
  BY <1>1, LoadedCar
<1>3. fields \in SUBSET Field
  BY DEF Changed
<1>4. table \in Table /\ Ids(table) = Ids(cars) /\ EidsUnique(table)
  <2> DEFINE new == SetFields(cars[i], p, fields)
  <2>1. new \in Car /\ new.eid = cars[i].eid
    BY <1>2, SetFieldsType
  <2>2. table = [cars EXCEPT ![i] = new]
    OBVIOUS
  <2> HIDE DEF car, fields, table, new
  <2> QED BY <1>2, <2>1, <2>2, RewriteOne
<1>5. \A e \in entries : EntryOK(e)
  BY <1>2, <1>3, UpdateEntriesTyped
<1>6. Commit(s, table, entries, "edited")
  BY DEF UpdateCar
<1> HIDE DEF table, entries
<1> QED BY <1>4, <1>5, <1>6, CommitIInv

LEMMA StatusChangeIInv ==
    ASSUME IInv, NEW s \in Session, NEW i \in CarId, loaded[s][i] # NoCar,
           NEW new \in Status, NEW action \in {"publish", "archive"},
           Commit(s, [cars EXCEPT ![i] = SetStatus(@, loaded[s][i], new)],
                  {StatusEntry(i, action, loaded[s][i], new)}, "edited")
    PROVE  IInv'
<1> DEFINE table == [cars EXCEPT ![i] = SetStatus(@, loaded[s][i], new)]
           entries == {StatusEntry(i, action, loaded[s][i], new)}
<1>1. loaded[s][i] \in Car /\ i \in Ids(cars) /\ cars[i] \in Car
         /\ cars \in Table /\ EidsUnique(cars)
  BY LoadedCar
<1>2. table \in Table /\ Ids(table) = Ids(cars) /\ EidsUnique(table)
  <2> DEFINE row == SetStatus(cars[i], loaded[s][i], new)
  <2>1. row \in Car /\ row.eid = cars[i].eid
    BY <1>1, SetStatusType
  <2>2. table = [cars EXCEPT ![i] = row]
    OBVIOUS
  <2> HIDE DEF table, row
  <2> QED BY <1>1, <2>1, <2>2, RewriteOne
<1>3. \A e \in entries : EntryOK(e)
  BY FieldFacts, EntryTyped DEF StatusEntry, Pairs
<1> HIDE DEF table, entries
<1> QED BY <1>2, <1>3, CommitIInv DEF table, entries

LEMMA SoftDeleteIInv ==
    ASSUME IInv, NEW s \in Session, NEW i \in CarId, SoftDeleteCar(s, i)
    PROVE  IInv'
<1> DEFINE car == loaded[s][i]
           table == [cars EXCEPT ![i].deleted = TRUE]
           entries == {Entry(i, "delete", Pairs(car, {}), Pairs(car, {}))}
<1>1. i \in Ids(cars) /\ cars[i] \in Car /\ cars \in Table /\ EidsUnique(cars)
  BY LoadedCar DEF SoftDeleteCar
<1>2. [cars[i] EXCEPT !.deleted = TRUE] \in Car
         /\ [cars[i] EXCEPT !.deleted = TRUE].eid = cars[i].eid
  BY <1>1 DEF Car
<1>3. table \in Table /\ Ids(table) = Ids(cars) /\ EidsUnique(table)
  BY <1>1, <1>2, RewriteOne
<1>4. \A e \in entries : EntryOK(e)
  BY EntryTyped DEF Pairs
<1>5. Commit(s, table, entries, "edited")
  BY DEF SoftDeleteCar
<1> HIDE DEF table, entries
<1> QED BY <1>3, <1>4, <1>5, CommitIInv

(* Every step of an edit request preserves the invariant, alone and beside *)
(* the Excel synchronisation.                                              *)
THEOREM EditIInv ==
    ASSUME IInv, NEW s \in Session, Edit(s)
    PROVE  IInv'
<1>1. ASSUME NEW i \in CarId, BeginEdit(s, i) PROVE IInv'
  BY <1>1, BeginEditIInv
<1>2. ASSUME NEW i \in CarId, NotFound(s, i) PROVE IInv'
  BY <1>2, NoCommitIInv DEF NotFound, IInv, TableOK, LoadedExist, NoCommit, Ids
<1>3. ASSUME NEW i \in CarId, NEW c \in CreatePayloads, CreateCar(s, i, c)
      PROVE IInv'
  BY <1>3, CreateCarIInv, PayloadAssumption
<1>4. ASSUME NEW i \in CarId, NEW p \in UpdatePayloads, UpdateCar(s, i, p)
      PROVE IInv'
  BY <1>4, UpdateCarIInv, PayloadAssumption
<1>5. ASSUME NEW i \in CarId, PublishCar(s, i) PROVE IInv'
  BY <1>5, StatusChangeIInv DEF PublishCar, Status
<1>6. ASSUME NEW i \in CarId, ArchiveCar(s, i) PROVE IInv'
  BY <1>6, StatusChangeIInv DEF ArchiveCar, Status
<1>7. ASSUME NEW i \in CarId, SoftDeleteCar(s, i) PROVE IInv'
  BY <1>7, SoftDeleteIInv
<1>8. CASE InvalidateAfterEdit(s)
  BY <1>8, NoCommitIInv
     DEF InvalidateAfterEdit, IInv, TableOK, LoadedExist, NoCommit, Ids
<1>9. CASE CrashInEdit(s)
  <2>1. Nothing \in Table /\ \A i \in CarId : Nothing[i] = NoCar
    BY DEF Nothing, Table
  <2> QED BY <1>9, <2>1, NoCommitIInv
          DEF CrashInEdit, Forget, IInv, TableOK, LoadedExist, NoCommit, Ids
<1> QED
  BY <1>1, <1>2, <1>3, <1>4, <1>5, <1>6, <1>7, <1>8, <1>9 DEF Edit, Handle

THEOREM SpecIInv == Spec => []IInv
<1>1. IInv /\ UNCHANGED carVars => IInv'
  BY DEF IInv, TableOK, LoadedExist, EidUnique, EidsUnique, Ids, EntryOK, carVars
<1>2. IInv /\ [Next]_carVars => IInv'
  BY <1>1, EditIInv DEF Next
<1> QED BY InitIInv, <1>2, PTL DEF Spec

(* No two cars ever share an excel_row_id, whatever requests run at the    *)
(* same time.                                                              *)
THEOREM SpecEidUnique == Spec => []EidUnique
<1>1. IInv => EidUnique
  BY DEF IInv
<1> QED BY SpecIInv, <1>1, PTL

PcOK == pc \in [Session -> EditPC]

(* TypeOK: the table, the sessions' loaded cars and their program counters *)
(* keep their types.                                                       *)
THEOREM SpecTypeOK == Spec => []TypeOK
<1>1. Init => PcOK
  BY DEF Init, EditPC, PcOK
<1>2. PcOK /\ [Next]_carVars => PcOK'
  <2> SUFFICES ASSUME PcOK, [Next]_carVars
               PROVE  PcOK'
    OBVIOUS
  <2>1. CASE UNCHANGED carVars
    BY <2>1 DEF carVars, PcOK
  <2>2. ASSUME NEW s \in Session, Edit(s) PROVE PcOK'
    <3>1. pc' = pc \/ \E label \in EditPC : pc' = [pc EXCEPT ![s] = label]
      BY <2>2 DEF Edit, Handle, BeginEdit, NotFound, CreateCar, UpdateCar, PublishCar,
         ArchiveCar, SoftDeleteCar, InvalidateAfterEdit, CrashInEdit, Commit,
         Goto, EditPC
    <3> QED BY <3>1 DEF PcOK
  <2> QED BY <2>1, <2>2 DEF Next
<1>3. IInv /\ PcOK => TypeOK
  BY DEF IInv, TypeOK, PcOK
<1> QED BY SpecIInv, <1>1, <1>2, <1>3, PTL DEF Spec

-----------------------------------------------------------------------------

(* What the fields of a car are after the two kinds of write.              *)
LEMMA GetSetFields ==
    ASSUME NEW current \in Car, NEW p, NEW fields, NEW f \in Field
    PROVE  Get(SetFields(current, p, fields), f)
              = IF f \in fields THEN PayloadValue(p, f) ELSE Get(current, f)
<1>1. CASE f \in NamePart
  BY <1>1 DEF Get, SetFields, PayloadValue, Car
<1>2. CASE f = "status"
  BY <1>2, FieldFacts DEF Get, SetFields, PayloadValue, Car
<1>3. CASE f \in Columns
  BY <1>3, FieldFacts DEF Get, SetFields, PayloadValue, Car
<1> QED BY <1>1, <1>2, <1>3, FieldCases

LEMMA GetSetStatus ==
    ASSUME NEW current \in Car, NEW car \in Car, NEW new, NEW f \in Field
    PROVE  LET c == SetStatus(current, car, new)
           IN Get(c, f) # Get(current, f) => f = "status" /\ Get(c, f) = new
<1>1. CASE f \in NamePart
  BY <1>1, FieldFacts DEF Get, SetStatus, Car
<1>2. CASE f = "status"
  BY <1>2, FieldFacts DEF Get, SetStatus, Car
<1>3. CASE f \in Columns
  BY <1>3, FieldFacts DEF Get, SetStatus, Car
<1> QED BY <1>1, <1>2, <1>3, FieldCases

(* An update entry, and a price_change entry when the price is among the   *)
(* fields, with the new values.                                            *)
LEMMA UpdateEntriesCover ==
    ASSUME NEW i \in CarId, NEW car, NEW fields, NEW new, NEW f \in fields,
           f \in DOMAIN new
    PROVE  LET entries == UpdateEntries(i, car, fields, new)
           IN /\ \E e \in entries : /\ e.car = i
                                    /\ f \in DOMAIN e.new /\ e.new[f] = new[f]
              /\ f = "price" => \E e \in entries :
                    /\ e.car = i /\ e.action = "price_change"
                    /\ e.new["price"] = new["price"]
<1> DEFINE update == Entry(i, "update", Pairs(car, fields), new)
           price == Entry(i, "price_change", Pairs(car, {"price"}),
                          [g \in {"price"} |-> new[g]])
<1>1. update \in UpdateEntries(i, car, fields, new)
  BY DEF UpdateEntries
<1>2. update.car = i /\ update.new = new
  BY DEF Entry
<1>3. f = "price" => price \in UpdateEntries(i, car, fields, new)
  BY DEF UpdateEntries
<1>4. price.car = i /\ price.action = "price_change"
         /\ price.new["price"] = new["price"]
  BY DEF Entry
<1> HIDE DEF update, price
<1> QED BY <1>1, <1>2, <1>3, <1>4

LEMMA UpdateCarAudit ==
    ASSUME IInv, NEW s \in Session, NEW i \in CarId,
           NEW p \in Payload, UpdateCar(s, i, p)
    PROVE  AccountedFor(i)
<1> DEFINE car == loaded[s][i]
           fields == Changed(car, p)
           new == [f \in fields |-> PayloadValue(p, f)]
           entries == UpdateEntries(i, car, fields, new)
<1>1. car \in Car /\ i \in Ids(cars) /\ cars[i] \in Car /\ cars \in Table
  BY LoadedCar DEF UpdateCar
<1>2. cars'[i] = SetFields(cars[i], p, fields) /\ audit' = entries
  BY <1>1 DEF UpdateCar, Commit, Table, Ids
<1>3. cars[i] # NoCar /\ cars'[i].deleted = cars[i].deleted
  <2>1. cars[i] # NoCar
    BY <1>1, NoCarAssumption
  <2>2. SetFields(cars[i], p, fields).deleted = cars[i].deleted
    BY <1>1, SetFieldsType
  <2> QED BY <1>2, <2>1, <2>2
<1> DEFINE covers(f) == \E e \in entries : /\ e.car = i
                                           /\ f \in DOMAIN e.new
                                           /\ e.new[f] = Get(cars'[i], f)
           priced == \E e \in entries : /\ e.car = i /\ e.action = "price_change"
                                        /\ e.new["price"] = Get(cars'[i], "price")
<1>4. ASSUME NEW f \in Field, Get(cars'[i], f) # Get(cars[i], f)
      PROVE  covers(f) /\ (f = "price" => priced)
  <2>1. f \in fields /\ Get(cars'[i], f) = PayloadValue(p, f)
    BY <1>1, <1>2, <1>4, GetSetFields
  <2>2. f \in DOMAIN new /\ new[f] = Get(cars'[i], f)
    BY <2>1
  <2> HIDE DEF new, fields
  <2> QED BY <2>1, <2>2, UpdateEntriesCover
<1>5. "price" \in Field
  BY FieldFacts
<1> HIDE DEF entries
<1> QED BY <1>2, <1>3, <1>4, <1>5 DEF AccountedFor

LEMMA StatusChangeAudit ==
    ASSUME IInv, NEW s \in Session, NEW i \in CarId, loaded[s][i] # NoCar,
           NEW new, NEW action,
           Commit(s, [cars EXCEPT ![i] = SetStatus(@, loaded[s][i], new)],
                  {StatusEntry(i, action, loaded[s][i], new)}, "edited")
    PROVE  AccountedFor(i)
<1>1. loaded[s][i] \in Car /\ i \in Ids(cars) /\ cars[i] \in Car /\ cars \in Table
  BY LoadedCar
<1> DEFINE entry == StatusEntry(i, action, loaded[s][i], new)
<1>2. cars'[i] = SetStatus(cars[i], loaded[s][i], new) /\ audit' = {entry}
  BY <1>1 DEF Commit, Table
<1>3. cars[i] # NoCar /\ cars'[i].deleted = cars[i].deleted
  BY <1>1, <1>2, NoCarAssumption DEF SetStatus, Car
<1>4. entry.car = i /\ "status" \in DOMAIN entry.new /\ entry.new["status"] = new
  BY DEF StatusEntry, Entry
<1>5. \A f \in Field : Get(cars'[i], f) # Get(cars[i], f) =>
                          f = "status" /\ Get(cars'[i], f) = new
  BY <1>1, <1>2, GetSetStatus
<1> HIDE DEF entry
<1> QED BY <1>2, <1>3, <1>4, <1>5, FieldFacts DEF AccountedFor

LEMMA SoftDeleteAudit ==
    ASSUME IInv, NEW s \in Session, NEW i \in CarId, SoftDeleteCar(s, i)
    PROVE  AccountedFor(i)
<1>1. i \in Ids(cars) /\ cars[i] \in Car /\ cars \in Table
  BY LoadedCar DEF SoftDeleteCar
<1> DEFINE entry == Entry(i, "delete", Pairs(loaded[s][i], {}),
                          Pairs(loaded[s][i], {}))
<1>2. cars'[i] = [cars[i] EXCEPT !.deleted = TRUE] /\ audit' = {entry}
  BY <1>1 DEF SoftDeleteCar, Commit, Table
<1>3. cars[i] # NoCar
  BY <1>1, NoCarAssumption
<1>4. \A f \in Field : Get(cars'[i], f) = Get(cars[i], f)
  BY <1>1, <1>2 DEF Get, Car
<1>5. entry.car = i /\ entry.action = "delete"
  BY DEF Entry
<1> HIDE DEF entry
<1> QED BY <1>2, <1>3, <1>4, <1>5, FieldFacts DEF AccountedFor

LEMMA CreateCarAudit ==
    ASSUME IInv, NEW s \in Session, NEW j \in CarId, NEW car, CreateCar(s, j, car),
           NEW i \in CarId, cars'[i] # cars[i]
    PROVE  AccountedFor(i)
<1> DEFINE entry == Entry(j, "create", Pairs(car, {}), Pairs(car, Field))
<1>1. i = j /\ cars[i] = NoCar /\ audit' = {entry}
  BY DEF CreateCar, Commit, IInv, TableOK, Table
<1>2. entry.car = j /\ entry.action = "create"
  BY DEF Entry
<1> HIDE DEF entry
<1> QED BY <1>1, <1>2 DEF AccountedFor

(* In one step of an edit request, a row that changes is accounted for.    *)
THEOREM EditAudit ==
    ASSUME IInv, NEW s \in Session, Edit(s),
           NEW i \in CarId, cars'[i] # cars[i]
    PROVE  AccountedFor(i)
<1>1. cars \in Table
  BY DEF IInv, TableOK
<1>2. ASSUME NEW j \in CarId, NEW c \in CreatePayloads, CreateCar(s, j, c)
      PROVE AccountedFor(i)
  BY <1>2, CreateCarAudit
<1>3. ASSUME NEW j \in CarId, NEW p \in UpdatePayloads, UpdateCar(s, j, p)
      PROVE AccountedFor(i)
  <2>1. i = j
    BY <1>1, <1>3 DEF UpdateCar, Commit, Table
  <2> QED BY <2>1, <1>3, UpdateCarAudit, PayloadAssumption
<1>4. ASSUME NEW j \in CarId, PublishCar(s, j) PROVE AccountedFor(i)
  <2>1. i = j
    BY <1>1, <1>4 DEF PublishCar, Commit, Table
  <2> QED BY <2>1, <1>4, StatusChangeAudit DEF PublishCar
<1>5. ASSUME NEW j \in CarId, ArchiveCar(s, j) PROVE AccountedFor(i)
  <2>1. i = j
    BY <1>1, <1>5 DEF ArchiveCar, Commit, Table
  <2> QED BY <2>1, <1>5, StatusChangeAudit DEF ArchiveCar
<1>6. ASSUME NEW j \in CarId, SoftDeleteCar(s, j) PROVE AccountedFor(i)
  <2>1. i = j
    BY <1>1, <1>6 DEF SoftDeleteCar, Commit, Table
  <2> QED BY <2>1, <1>6, SoftDeleteAudit
<1>7. CASE NoCommit
  BY <1>7 DEF NoCommit
<1> QED
  BY <1>2, <1>3, <1>4, <1>5, <1>6, <1>7
     DEF Edit, Handle, BeginEdit, NotFound, InvalidateAfterEdit, CrashInEdit

(* Every change of the cars table is in the audit log, committed with it.  *)
THEOREM SpecAudit == Spec => AuditCoversCommit
<1>1. IInv /\ [Next]_carVars =>
        [\A i \in CarId : cars'[i] # cars[i] => AccountedFor(i)]_carVars
  BY EditAudit DEF Next
<1> QED BY SpecIInv, <1>1, PTL DEF Spec, AuditCoversCommit

-----------------------------------------------------------------------------
(* What no edit takes from a car: its place in the table, its excel_row_id *)
(* and its source, and that it is deleted: deleted_at is set and never     *)
(* reset (car_service.py:142), and no payload has these columns.           *)
Lasting(was, now) == /\ now \in Car
                     /\ now.eid = was.eid /\ now.source = was.source
                     /\ was.deleted => now.deleted

LEMMA RewrittenLasts ==
    ASSUME NEW i \in Ids(cars), NEW j \in CarId, NEW new, cars \in Table,
           cars' = [cars EXCEPT ![j] = new], Lasting(cars[j], new)
    PROVE  Lasting(cars[i], cars'[i])
<1>1. i \in CarId /\ Lasting(cars[i], cars[i])
  BY DEF Lasting, Table, Ids
<1>2. (i = j /\ cars'[i] = new) \/ cars'[i] = cars[i]
  BY <1>1 DEF Table
<1> QED BY <1>1, <1>2

LEMMA EditLasts ==
    ASSUME IInv, NEW s \in Session, Edit(s), NEW i \in Ids(cars)
    PROVE  Lasting(cars[i], cars'[i])
<1>1. cars \in Table /\ i \in CarId /\ cars[i] \in Car
  BY DEF IInv, TableOK, Table, Ids
<1>2. CASE cars' = cars
  BY <1>1, <1>2 DEF Lasting
<1>3. ASSUME NEW j \in CarId, NEW c \in CreatePayloads, CreateCar(s, j, c)
      PROVE  Lasting(cars[i], cars'[i])
  <2>1. cars'[i] = cars[i]
    BY <1>1, <1>3 DEF CreateCar, Commit, Ids, Table
  <2> QED BY <1>1, <2>1 DEF Lasting
<1>4. ASSUME NEW j \in CarId, NEW p \in UpdatePayloads, UpdateCar(s, j, p)
      PROVE  Lasting(cars[i], cars'[i])
  <2> DEFINE new == SetFields(cars[j], p, Changed(loaded[s][j], p))
  <2>1. loaded[s][j] \in Car /\ cars[j] \in Car
    BY <1>4, LoadedCar DEF UpdateCar
  <2>2. p \in Payload
    BY PayloadAssumption
  <2>3. /\ new \in Car /\ new.eid = cars[j].eid /\ new.source = cars[j].source
        /\ new.deleted = cars[j].deleted
    BY <2>1, <2>2, SetFieldsType
  <2>4. Lasting(cars[j], new)
    BY <2>3 DEF Lasting
  <2>5. cars' = [cars EXCEPT ![j] = new]
    BY <1>4 DEF UpdateCar, Commit
  <2> HIDE DEF new
  <2> QED BY <1>1, <2>4, <2>5, RewrittenLasts
<1>5. ASSUME NEW j \in CarId, PublishCar(s, j) \/ ArchiveCar(s, j)
      PROVE  Lasting(cars[i], cars'[i])
  <2>1. PICK label \in {"published", "archived"} :
           cars' = [cars EXCEPT ![j] = SetStatus(@, loaded[s][j], label)]
    BY <1>5 DEF PublishCar, ArchiveCar, Commit
  <2> DEFINE new == SetStatus(cars[j], loaded[s][j], label)
  <2>2. loaded[s][j] \in Car /\ cars[j] \in Car /\ label \in Status
    BY <1>5, LoadedCar DEF PublishCar, ArchiveCar, Status
  <2>3. Lasting(cars[j], new)
    BY <2>2, SetStatusType DEF Lasting
  <2>4. cars' = [cars EXCEPT ![j] = new]
    BY <2>1
  <2> HIDE DEF new
  <2> QED BY <1>1, <2>3, <2>4, RewrittenLasts
<1>6. ASSUME NEW j \in CarId, SoftDeleteCar(s, j)
      PROVE  Lasting(cars[i], cars'[i])
  <2> DEFINE new == [cars[j] EXCEPT !.deleted = TRUE]
  <2>1. cars[j] \in Car
    BY <1>6, LoadedCar DEF SoftDeleteCar
  <2>2. Lasting(cars[j], new)
    BY <2>1 DEF Lasting, Car
  <2>3. cars' = [cars EXCEPT ![j] = new]
    BY <1>6 DEF SoftDeleteCar, Commit
  <2> HIDE DEF new
  <2> QED BY <1>1, <2>2, <2>3, RewrittenLasts
<1> QED BY <1>2, <1>3, <1>4, <1>5, <1>6
        DEF Edit, Handle, BeginEdit, NotFound, InvalidateAfterEdit, CrashInEdit, NoCommit

(* A car that has been created is never lost: no edit removes it, gives it *)
(* another excel_row_id or source, or takes its deletion back.             *)
THEOREM SpecCarsLast ==
    Spec => [][\A i \in Ids(cars) : Lasting(cars[i], cars'[i])]_carVars
<1>1. IInv /\ [Next]_carVars =>
        [\A i \in Ids(cars) : Lasting(cars[i], cars'[i])]_carVars
  BY EditLasts DEF Next
<1> QED BY SpecIInv, <1>1, PTL DEF Spec

=============================================================================
