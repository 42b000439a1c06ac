-------------------------- MODULE ExcelSyncProofs --------------------------
(***************************************************************************)
(* Proofs about ExcelSync for any number of cars, files, tokens, sessions  *)
(* and edits: type correctness, uniqueness of excel_row_id, the audit of   *)
(* every commit, and that an apply leaves the table a mirror of its file.  *)
(***************************************************************************)
EXTENDS ExcelSync, CarServiceProofs, FiniteSetTheorems

(* rows_by_key maps a key to a row with that key.                          *)
LEMMA RowsFacts ==
    ASSUME NEW f \in File, NEW k \in DOMAIN Rows(f)
    PROVE  Rows(f)[k] \in Row /\ Key(Rows(f)[k]) = k
<1> DEFINE sheet == Sheet[f]
           i == CHOOSE j \in AcceptedRows(sheet) : Key(sheet[j]) = k
<1>1. sheet \in Seq(RawRow)
  <2>1. Sheet \in [File -> Seq(RawRow)]
    BY SheetAssumption
  <2> QED BY <2>1
<1>2. \E j \in AcceptedRows(sheet) : Key(sheet[j]) = k
  <2>1. DOMAIN Rows(f) = {Key(sheet[j]) : j \in AcceptedRows(sheet)}
    BY DEF Rows, RowsByKey
  <2> QED BY <2>1
<1>3. i \in AcceptedRows(sheet) /\ Key(sheet[i]) = k
  BY <1>2
<1>4. sheet[i] \in RawRow
  <2>1. i \in DOMAIN sheet
    BY <1>3 DEF AcceptedRows
  <2> HIDE DEF i, sheet
  <2> QED BY <1>1, <2>1
<1>5. Rows(f)[k] = Record(sheet[i])
  BY DEF Rows, RowsByKey
<1> HIDE DEF i, sheet
<1> QED BY <1>3, <1>4, <1>5 DEF Record, RawRow, Row, Key

(* {_db_key(c): c for c in existing} maps a key to a car with that key.    *)
LEMMA ByKeyFacts ==
    ASSUME NEW load \in Table, NEW byKey \in ByKey(load)
    PROVE  /\ DOMAIN byKey = SyncKeys(load)
           /\ \A k \in DOMAIN byKey :
                 /\ byKey[k] \in SyncableIds(load) /\ byKey[k] \in CarId
                 /\ load[byKey[k]] \in Car /\ Key(load[byKey[k]]) = k
BY TableFacts DEF ByKey, SyncableIds, Ids

LEMMA SyncViewFacts ==
    ASSUME NEW table \in Table
    PROVE  /\ SyncView(table) \in Table
           /\ SyncableIds(SyncView(table)) = SyncableIds(table)
           /\ \A i \in SyncableIds(table) : SyncView(table)[i] = table[i]
           /\ \A i \in CarId : SyncView(table)[i] # NoCar => i \in SyncableIds(table)
BY NoCarAssumption DEF SyncView, SyncableIds, Ids, Table

(* The four things that can happen to row i of the table in an apply.      *)
ApplyCases(table, load, rows, byKey, place, i) ==
    LET new == AppliedTable(table, load, rows, byKey, place)
        kept == KeptIds(rows, byKey)
        gone == GoneIds(rows, byKey)
    IN /\ \A k \in DOMAIN place :
            /\ place[k] = i => i \notin Ids(table) /\ new[i] = InsertedCar(rows[k])
            /\ k \in DOMAIN rows /\ k \notin DOMAIN byKey
       /\ i \in kept => /\ i \in Ids(table) /\ i \in SyncableIds(load)
                        /\ load[i] \in Car /\ table[i] \in Car
                        /\ Key(load[i]) \in DOMAIN rows
                        /\ new[i] = ApplyRow(table[i], load[i], rows[Key(load[i])])
       /\ i \in gone => /\ i \in Ids(table) /\ i \in SyncableIds(load)
                        /\ load[i] \in Car /\ table[i] \in Car
                        /\ Key(load[i]) \notin DOMAIN rows
                        /\ new[i] = [table[i] EXCEPT !.status = "archived"]
       /\ \/ \E k \in DOMAIN place : place[k] = i
          \/ i \in kept
          \/ i \in gone
          \/ new[i] = table[i]

LEMMA AppliedCases ==
    ASSUME NEW table \in Table, NEW load \in Table,
           \A i \in CarId : load[i] # NoCar => i \in Ids(table),
           NEW f \in File, NEW byKey \in ByKey(load),
           NEW place \in Injection(Fresh(Rows(f), byKey), CarId \ Ids(table))
    PROVE  \A i \in CarId : ApplyCases(table, load, Rows(f), byKey, place, i)
<1> SUFFICES ASSUME NEW i \in CarId
             PROVE  ApplyCases(table, load, Rows(f), byKey, place, i)
  OBVIOUS
<1> DEFINE rows == Rows(f)
           new == AppliedTable(table, load, rows, byKey, place)
           kept == KeptIds(rows, byKey)
           gone == GoneIds(rows, byKey)
<1>1. /\ place \in [Fresh(rows, byKey) -> CarId \ Ids(table)]
      /\ \A k, q \in DOMAIN place : place[k] = place[q] => k = q
  BY DEF Injection, IsInjective
<1>2. \A k \in DOMAIN place : k \in DOMAIN rows /\ k \notin DOMAIN byKey
                                /\ place[k] \notin Ids(table)
  BY <1>1 DEF Fresh
<1>3. /\ i \in kept => i \in SyncableIds(load) /\ load[i] \in Car
                         /\ Key(load[i]) \in DOMAIN rows
      /\ i \in gone => i \in SyncableIds(load) /\ load[i] \in Car
                         /\ Key(load[i]) \notin DOMAIN rows
  BY ByKeyFacts DEF KeptIds, GoneIds
<1>4. i \in kept \/ i \in gone => i \in Ids(table) /\ table[i] \in Car
  BY <1>3, NoCarAssumption, TableFacts
<1>5. new[i] = CASE \E k \in DOMAIN place : place[k] = i ->
                       InsertedCar(rows[CHOOSE k \in DOMAIN place : place[k] = i])
                 [] i \in kept -> ApplyRow(table[i], load[i], rows[Key(load[i])])
                 [] i \in gone -> [table[i] EXCEPT !.status = "archived"]
                 [] OTHER -> table[i]
  BY DEF AppliedTable
<1>6. \A k \in DOMAIN place : place[k] = i =>
         (CHOOSE q \in DOMAIN place : place[q] = i) = k
  BY <1>1
<1> HIDE DEF rows, new, kept, gone
<1>7. \A k \in DOMAIN place : place[k] = i => new[i] = InsertedCar(rows[k])
  BY <1>2, <1>4, <1>3, <1>5, <1>6
<1>8. i \in kept => new[i] = ApplyRow(table[i], load[i], rows[Key(load[i])])
  BY <1>2, <1>3, <1>4, <1>5
<1>9. i \in gone => new[i] = [table[i] EXCEPT !.status = "archived"]
  BY <1>2, <1>3, <1>4, <1>5
<1>10. (\E k \in DOMAIN place : place[k] = i) \/ i \in kept \/ i \in gone
          \/ new[i] = table[i]
  BY <1>5
<1> QED BY <1>2, <1>3, <1>4, <1>7, <1>8, <1>9, <1>10
   DEF ApplyCases, rows, new, kept, gone

-----------------------------------------------------------------------------

LEMMA InsertedCarFacts ==
    ASSUME NEW row \in Row
    PROVE  LET car == InsertedCar(row)
           IN /\ car \in Car /\ car.eid = row.eid /\ Key(car) = Key(row)
              /\ Syncable(car)
              /\ \A c \in AppliedColumns : car.cols[c] = row.cols[c]
<1>1. [c \in Columns |-> IF c \in AppliedColumns THEN row.cols[c] ELSE None] \in Cells
  BY DEF Row, Cells
<1> QED BY <1>1 DEF InsertedCar, Row, Car, Key, Syncable, Status, Source, AppliedColumns

LEMMA ApplyRowFacts ==
    ASSUME NEW current \in Car, NEW load \in Car, NEW row \in Row
    PROVE  LET car == ApplyRow(current, load, row)
           IN /\ car \in Car /\ car.eid = current.eid /\ Key(car) = Key(current)
              /\ Syncable(car) <=> Syncable(current)
              /\ car.deleted = current.deleted /\ car.name = current.name
              /\ car.status = current.status /\ car.source = current.source
              /\ \A c \in Columns : car.cols[c] =
                    IF c \in ApplyChanges(row, load) THEN row.cols[c]
                    ELSE current.cols[c]
<1>1. [c \in Columns |-> IF c \in ApplyChanges(row, load) THEN row.cols[c]
                         ELSE current.cols[c]] \in Cells
  BY DEF Row, Cells, Car
<1> QED BY <1>1 DEF ApplyRow, Car, Key, Syncable

(* The same of a car that has been written: what the row changes, and what *)
(* stays as it was.                                                        *)
Written(car, current, load, row) ==
    /\ car \in Car
    /\ car.eid = current.eid /\ Key(car) = Key(current)
    /\ Syncable(car) <=> Syncable(current)
    /\ car.deleted = current.deleted
    /\ car.name = current.name
    /\ car.status = current.status
    /\ \A c \in Columns : car.cols[c] =
          IF c \in ApplyChanges(row, load) THEN row.cols[c] ELSE current.cols[c]

LEMMA RowIsWritten ==
    ASSUME NEW current \in Car, NEW load \in Car, NEW row \in Row
    PROVE  Written(ApplyRow(current, load, row), current, load, row)
BY ApplyRowFacts DEF Written

LEMMA ArchivedFacts ==
    ASSUME NEW current \in Car
    PROVE  LET car == [current EXCEPT !.status = "archived"]
           IN /\ car \in Car /\ car.eid = current.eid /\ ~Syncable(car)
              /\ car.deleted = current.deleted /\ car.name = current.name
              /\ car.cols = current.cols /\ car.source = current.source
BY DEF Car, Syncable, Status

(* The table apply_diff commits: a table, with every car of the old one,   *)
(* the same excel_row_id on each, and unique ids.                          *)
LEMMA AppliedTableFacts ==
    ASSUME NEW table \in Table, NEW load \in Table, EidsUnique(table),
           \A i \in CarId : load[i] # NoCar => i \in Ids(table),
           NEW f \in File, NEW byKey \in ByKey(load),
           NEW place \in Injection(Fresh(Rows(f), byKey), CarId \ Ids(table)),
           \A k \in DOMAIN place : ~EidTaken(table, Rows(f)[k].eid)
    PROVE  LET new == AppliedTable(table, load, Rows(f), byKey, place)
           IN /\ new \in Table
              /\ Ids(table) \subseteq Ids(new)
              /\ EidsUnique(new)
<1> DEFINE rows == Rows(f)
           new == AppliedTable(table, load, rows, byKey, place)
           inserted(i) == \E k \in DOMAIN place : place[k] = i
<1>0. \A i \in CarId : ApplyCases(table, load, rows, byKey, place, i)
  BY AppliedCases
<1>1. ASSUME NEW i \in CarId
      PROVE  /\ inserted(i) => new[i] \in Car /\ i \notin Ids(table)
             /\ ~inserted(i) => /\ new[i] \in Car \cup {NoCar}
                                /\ i \in Ids(table) <=> new[i] # NoCar
                                /\ i \in Ids(table) => new[i].eid = table[i].eid
  <2>1. ASSUME NEW k \in DOMAIN place, place[k] = i
        PROVE  new[i] \in Car /\ i \notin Ids(table)
    <3>1. new[i] = InsertedCar(rows[k]) /\ i \notin Ids(table) /\ k \in DOMAIN rows
      BY <1>0, <2>1 DEF ApplyCases
    <3>2. rows[k] \in Row
      BY <3>1, RowsFacts
    <3> QED BY <3>1, <3>2, InsertedCarFacts
  <2>2. CASE i \in KeptIds(rows, byKey)
    <3>1. /\ i \in Ids(table) /\ load[i] \in Car /\ table[i] \in Car
          /\ Key(load[i]) \in DOMAIN rows
          /\ new[i] = ApplyRow(table[i], load[i], rows[Key(load[i])])
      BY <1>0, <2>2 DEF ApplyCases
    <3>2. rows[Key(load[i])] \in Row
      BY <3>1, RowsFacts
    <3> DEFINE row == rows[Key(load[i])]
    <3>3. new[i] \in Car /\ new[i].eid = table[i].eid
      <4> HIDE DEF row, new, rows
      <4>1. row \in Row /\ new[i] = ApplyRow(table[i], load[i], row)
        BY <3>1, <3>2 DEF row
      <4>2. Written(new[i], table[i], load[i], row)
        BY <3>1, <4>1, RowIsWritten
      <4> QED BY <4>2 DEF Written
    <3> HIDE DEF new, rows
    <3> QED BY <2>1, <3>1, <3>3, NoCarAssumption
  <2>3. CASE i \in GoneIds(rows, byKey)
    <3>1. /\ i \in Ids(table) /\ table[i] \in Car
          /\ new[i] = [table[i] EXCEPT !.status = "archived"]
      BY <1>0, <2>3 DEF ApplyCases
    <3>2. new[i] \in Car /\ new[i].eid = table[i].eid
      BY <3>1, ArchivedFacts
    <3> HIDE DEF new, rows
    <3> QED BY <2>1, <3>1, <3>2, NoCarAssumption
  <2>4. CASE new[i] = table[i]
    <3> HIDE DEF new
    <3> QED BY <2>1, <2>4, TableFacts DEF Table
  <2>5. inserted(i) \/ i \in KeptIds(rows, byKey) \/ i \in GoneIds(rows, byKey)
           \/ new[i] = table[i]
    BY <1>0 DEF ApplyCases
  <2> HIDE DEF new, rows
  <2> QED BY <2>1, <2>2, <2>3, <2>4, <2>5
<1>2. new \in Table
  <2>1. new = [i \in CarId |-> new[i]]
    BY DEF AppliedTable
  <2> HIDE DEF new, rows
  <2> QED BY <1>1, <2>1 DEF Table
<1>3. Ids(table) \subseteq Ids(new)
  <2> HIDE DEF new, rows
  <2> QED BY <1>1, NoCarAssumption DEF Ids
<1>4. ASSUME NEW i \in Ids(new), NEW j \in Ids(new),
             new[i].eid # None, new[i].eid = new[j].eid
      PROVE  i = j
  <2>1. ASSUME NEW k \in DOMAIN place, NEW m \in CarId, place[k] = m
        PROVE  /\ new[m].eid = rows[k].eid /\ rows[k] \in Row /\ Key(rows[k]) = k
               /\ \A n \in Ids(table) : rows[k].eid # None => table[n].eid # rows[k].eid
    <3>1. new[m] = InsertedCar(rows[k]) /\ k \in DOMAIN rows
      BY <1>0, <2>1 DEF ApplyCases
    <3>2. rows[k] \in Row /\ Key(rows[k]) = k
      BY <3>1, RowsFacts
    <3> QED BY <3>1, <3>2, InsertedCarFacts DEF EidTaken
  <2>2. i \in CarId /\ j \in CarId
    BY DEF Ids
  <2>3. ASSUME NEW k \in DOMAIN place, NEW q \in DOMAIN place,
               place[k] = i, place[q] = j
        PROVE  i = j
    <3>1. Key(rows[k]) = k /\ Key(rows[q]) = q /\ rows[k].eid = rows[q].eid
             /\ rows[k].eid # None
      BY <1>4, <2>1, <2>2, <2>3
    <3>2. k = q
      BY <3>1 DEF Key
    <3> QED BY <2>3, <3>2
  <2> HIDE DEF new, rows
  <2>4. CASE inserted(i) /\ ~inserted(j)
    BY <1>1, <1>4, <2>1, <2>2, <2>4 DEF Ids
  <2>5. CASE inserted(j) /\ ~inserted(i)
    BY <1>1, <1>4, <2>1, <2>2, <2>5 DEF Ids
  <2>6. CASE ~inserted(i) /\ ~inserted(j)
    BY <1>1, <1>4, <2>2, <2>6 DEF EidsUnique, Ids
  <2> QED BY <2>3, <2>4, <2>5, <2>6
<1> HIDE DEF new, rows
<1> QED BY <1>2, <1>3, <1>4 DEF EidsUnique, new, rows

-----------------------------------------------------------------------------

(* The inductive invariant: the typing of both modules, and EidUnique.     *)
SyncIInv == IInv /\ SyncTypeOK

LEMMA SyncInitIInv == SyncInit => SyncIInv
<1> SUFFICES ASSUME SyncInit PROVE SyncIInv
  OBVIOUS
<1>1. IInv
  BY InitIInv DEF SyncInit
<1>2. StagedOK
  BY DEF SyncInit, StagedOK
<1>3. HeldOK /\ pc \in [Session -> EditPC \cup ApplyPC]
  BY DEF SyncInit, Init, HeldOK, EditPC, ApplyPC
<1> QED BY <1>1, <1>2, <1>3 DEF SyncIInv, SyncTypeOK, IInv

(* The entries apply_diff writes are well formed.                          *)
LEMMA ApplyEntriesTyped ==
    ASSUME NEW table \in Table, NEW load \in Table,
           NEW f \in File, NEW byKey \in ByKey(load),
           NEW place \in Injection(Fresh(Rows(f), byKey), CarId \ Ids(table))
    PROVE  \A e \in ApplyEntries(load, Rows(f), byKey, place) : EntryOK(e)
<1> DEFINE rows == Rows(f)
<1>1. \A k \in DOMAIN place : place[k] \in CarId
  BY DEF Injection
<1>2. ASSUME NEW k \in DOMAIN place PROVE EntryOK(CreateEntry(place[k], rows[k]))
  <2> DEFINE old == Pairs(NoCar, {})
             new == [f_1 \in Columns \cup NamePart |->
                        IF f_1 \in NamePart THEN rows[k].name[f_1] ELSE rows[k].cols[f_1]]
  <2>1. DOMAIN old \subseteq Field /\ DOMAIN new \subseteq Field
    BY FieldFacts DEF Pairs
  <2>2. CreateEntry(place[k], rows[k]) = Entry(place[k], "create", old, new)
    BY DEF CreateEntry
  <2> HIDE DEF old, new
  <2> QED BY <1>1, <2>1, <2>2, EntryTyped
<1>3. ASSUME NEW i \in KeptIds(rows, byKey), NEW row
      PROVE  \A e \in RowEntries(i, load[i], row) : EntryOK(e)
  <2> DEFINE changed == ApplyChanges(row, load[i])
             new == Restrict(row.cols, changed)
  <2>1. i \in CarId /\ load[i] \in Car
    BY ByKeyFacts DEF KeptIds
  <2>2. changed \in SUBSET Field
    BY FieldFacts DEF ApplyChanges, AppliedColumns
  <2>3. DOMAIN new \subseteq Field
    BY <2>2 DEF Restrict
  <2> HIDE DEF changed, new
  <2>4. \A e \in UpdateEntries(i, load[i], changed, new) : EntryOK(e)
    BY <2>1, <2>2, <2>3, UpdateEntriesTyped
  <2> QED BY <2>4 DEF RowEntries, changed, new
<1>4. ASSUME NEW i \in GoneIds(rows, byKey)
      PROVE  EntryOK(StatusEntry(i, "archive", load[i], "archived"))
  <2>1. i \in CarId
    BY ByKeyFacts DEF GoneIds
  <2>2. DOMAIN Pairs(load[i], {"status"}) \subseteq Field
           /\ DOMAIN [g \in {"status"} |-> "archived"] \subseteq Field
    BY FieldFacts DEF Pairs
  <2> QED BY <2>1, <2>2, EntryTyped DEF StatusEntry
<1> HIDE DEF rows
<1>5. ASSUME NEW e \in ApplyEntries(load, rows, byKey, place) PROVE EntryOK(e)
  <2> DEFINE creates == {CreateEntry(place[k], rows[k]) : k \in DOMAIN place}
             updates == {RowEntries(i, load[i], rows[Key(load[i])]) :
                            i \in KeptIds(rows, byKey)}
             archives == {StatusEntry(i, "archive", load[i], "archived") :
                             i \in GoneIds(rows, byKey)}
  <2>1. e \in creates \/ e \in UNION updates \/ e \in archives
    BY DEF ApplyEntries
  <2>2. CASE e \in creates
    BY <1>2, <2>2
  <2>3. CASE e \in UNION updates
    BY <1>3, <2>3
  <2>4. CASE e \in archives
    BY <1>4, <2>4
  <2> QED BY <2>1, <2>2, <2>3, <2>4
<1> QED BY <1>5 DEF rows

(* What a commit of apply_diff writes, for some choice of the dictionary   *)
(* and of the new primary keys.                                            *)
ApplyWrites(s, byKey, place) ==
    LET rows == Rows(payload[s].file)
    IN /\ \A k \in DOMAIN place : ~EidTaken(cars, rows[k].eid)
       /\ Commit(s, AppliedTable(cars, loaded[s], rows, byKey, place),
                 ApplyEntries(loaded[s], rows, byKey, place), "committed")

LEMMA CommitApplyWrites ==
    ASSUME NEW s \in Session, CommitApply(s)
    PROVE  \E byKey \in ByKey(loaded[s]) :
           \E place \in Injection(Fresh(Rows(payload[s].file), byKey), CarId \ Ids(cars)) :
              ApplyWrites(s, byKey, place)
BY DEF CommitApply, ApplyWrites

LEMMA HeldFile ==
    ASSUME SyncIInv, NEW s \in Session, pc[s] = "applying"
    PROVE  payload[s].file \in File /\ loaded[s] \in Table /\ cars \in Table
              /\ EidsUnique(cars)
              /\ \A i \in CarId : loaded[s][i] # NoCar => i \in Ids(cars)
BY DEF SyncIInv, IInv, TableOK, SyncTypeOK, HeldOK, ApplyPC, LoadedExist, EidUnique

LEMMA CommitApplyIInv ==
    ASSUME SyncIInv, NEW s \in Session, CommitApply(s)
    PROVE  IInv'
<1>1. pc[s] = "applying"
  BY DEF CommitApply
<1> DEFINE f == payload[s].file
           load == loaded[s]
<1>2. f \in File /\ load \in Table /\ cars \in Table /\ EidsUnique(cars)
         /\ \A i \in CarId : load[i] # NoCar => i \in Ids(cars)
  BY <1>1, HeldFile
<1>3. PICK byKey \in ByKey(load) :
        \E place \in Injection(Fresh(Rows(f), byKey), CarId \ Ids(cars)) :
           ApplyWrites(s, byKey, place)
  BY CommitApplyWrites
<1>4. PICK place \in Injection(Fresh(Rows(f), byKey), CarId \ Ids(cars)) :
           ApplyWrites(s, byKey, place)
  BY <1>3
<1> DEFINE table == AppliedTable(cars, load, Rows(f), byKey, place)
           entries == ApplyEntries(load, Rows(f), byKey, place)
<1>5. /\ Commit(s, table, entries, "committed")
      /\ \A k \in DOMAIN place : ~EidTaken(cars, Rows(f)[k].eid)
  BY <1>4 DEF ApplyWrites
<1> HIDE DEF f, load
<1>6. table \in Table /\ Ids(cars) \subseteq Ids(table) /\ EidsUnique(table)
  BY <1>2, <1>5, AppliedTableFacts
<1>7. \A e \in entries : EntryOK(e)
  BY <1>2, ApplyEntriesTyped
<1> HIDE DEF table, entries
<1> QED BY <1>5, <1>6, <1>7, CommitIInv DEF SyncIInv

(* The steps that commit nothing and load nothing new.                     *)
LEMMA NoLoadIInv ==
    ASSUME IInv, NoCommit, cacheBehind' \in BOOLEAN,
           \/ loaded' = loaded
           \/ \E s \in Session : loaded' = [loaded EXCEPT ![s] = Nothing]
    PROVE  IInv'
<1>1. Nothing \in Table /\ \A i \in CarId : Nothing[i] = NoCar
  BY DEF Nothing, Table
<1>2. loaded' \in [Session -> Table]
  BY <1>1 DEF IInv, TableOK
<1>3. LoadedExist'
  BY <1>1 DEF IInv, TableOK, LoadedExist, NoCommit, Ids
<1> QED BY <1>2, <1>3, NoCommitIInv

LEMMA LoadExistingIInv ==
    ASSUME SyncIInv, NEW s \in Session, LoadExisting(s)
    PROVE  IInv'
<1>1. cars \in Table /\ loaded \in [Session -> Table] /\ LoadedExist /\ IInv
  BY DEF SyncIInv, IInv, TableOK
<1>2. loaded' = [loaded EXCEPT ![s] = SyncView(cars)] /\ NoCommit
         /\ cacheBehind' = cacheBehind
  BY DEF LoadExisting
<1>3. SyncView(cars) \in Table
         /\ \A i \in CarId : SyncView(cars)[i] # NoCar => i \in Ids(cars)
  BY <1>1, SyncViewFacts DEF SyncableIds
<1>4. loaded' \in [Session -> Table]
  BY <1>1, <1>2, <1>3
<1>5. LoadedExist'
  BY <1>1, <1>2, <1>3 DEF LoadedExist, NoCommit, Ids
<1> QED BY <1>1, <1>2, <1>4, <1>5, NoCommitIInv DEF IInv, TableOK

(* IInv is kept by every step of the synchronisation.                      *)
LEMMA ApplyIInv ==
    ASSUME SyncIInv, NEW s \in Session, Apply(s)
    PROVE  IInv'
<1>1. IInv /\ cacheBehind \in BOOLEAN
  BY DEF SyncIInv, IInv, TableOK
<1>2. CASE CommitApply(s)
  BY <1>2, CommitApplyIInv
<1>3. CASE LoadExisting(s)
  BY <1>3, LoadExistingIInv
<1>4. CASE FailApply(s)
  BY <1>1, <1>4, NoLoadIInv DEF FailApply, Forget
<1>5. CASE Finish(s)
  BY <1>1, <1>5, NoLoadIInv
     DEF Finish, ClearDiff, InvalidateAfterApply, NotifyAdded, NotifyRemoved
<1>6. CASE \E t \in Token : BeginApply(s, t) \/ UnknownToken(s, t)
  BY <1>1, <1>6, NoLoadIInv DEF BeginApply, UnknownToken
<1> QED BY <1>2, <1>3, <1>4, <1>5, <1>6 DEF Apply

LEMMA StageIInv ==
    ASSUME SyncIInv, NEW t \in Token,
           ExpireToken(t) \/ \E f \in File : Upload(t, f)
    PROVE  IInv'
<1>1. IInv /\ cacheBehind \in BOOLEAN
  BY DEF SyncIInv, IInv, TableOK
<1> QED BY <1>1, NoLoadIInv DEF ExpireToken, Upload

-----------------------------------------------------------------------------

(* The rest of the invariant: where each session is and what it holds.     *)
SyncPcOK == pc \in [Session -> EditPC \cup ApplyPC]
HoldsOK == SyncPcOK /\ StagedOK /\ HeldOK

LEMMA EditHolds ==
    ASSUME HoldsOK, NEW s \in Session, Edit(s), UNCHANGED syncVars
    PROVE  HoldsOK'
<1>1. /\ pc' = pc \/ \E label \in EditPC : pc' = [pc EXCEPT ![s] = label]
      /\ pc[s] \in EditPC
  BY DEF Edit, Handle, BeginEdit, NotFound, CreateCar, UpdateCar, PublishCar,
     ArchiveCar, SoftDeleteCar, InvalidateAfterEdit, CrashInEdit, Commit,
     Goto, EditPC
<1>2. SyncPcOK'
  BY <1>1 DEF HoldsOK, SyncPcOK
<1>3. StagedOK'
  BY DEF HoldsOK, StagedOK, syncVars
<1>4. EditPC \cap ApplyPC = {}
  BY DEF EditPC, ApplyPC
<1>5. HeldOK'
  BY <1>1, <1>4 DEF HoldsOK, SyncPcOK, HeldOK, syncVars
<1> QED BY <1>2, <1>3, <1>5 DEF HoldsOK

LEMMA StageHolds ==
    ASSUME HoldsOK, NEW t \in Token,
           ExpireToken(t) \/ \E f \in File : Upload(t, f)
    PROVE  HoldsOK'
<1>1. CASE ExpireToken(t)
  BY <1>1 DEF ExpireToken, HoldsOK, SyncPcOK, StagedOK, HeldOK
<1>2. ASSUME NEW f \in File, Upload(t, f) PROVE HoldsOK'
  <2>1. PICK diff : staged' = [staged EXCEPT ![t] = [file |-> f, diff |-> diff]]
    BY <1>2 DEF Upload
  <2>2. issued' = issued \cup {t} /\ UNCHANGED <<pc, payload, outcome, importLog>>
    BY <1>2 DEF Upload
  <2>3. StagedOK'
    BY <2>1, <2>2 DEF HoldsOK, StagedOK
  <2>4. SyncPcOK' /\ HeldOK'
    BY <2>2 DEF HoldsOK, SyncPcOK, HeldOK
  <2> QED BY <2>3, <2>4 DEF HoldsOK
<1> QED BY <1>1, <1>2

(* One more row in the log: what the rows say is one thing more at most.   *)
LEMMA WithRowDomain ==
    ASSUME NEW log, NEW did
    PROVE  DOMAIN WithRow(log, did) = DOMAIN log \cup {did}
BY DEF WithRow, BagAdd

LEMMA ApplyHolds ==
    ASSUME HoldsOK, NEW s \in Session, Apply(s)
    PROVE  HoldsOK'
<1> USE DEF HoldsOK, SyncPcOK, EditPC, ApplyPC, Goto
<1>1. ASSUME NEW t \in Token, BeginApply(s, t) PROVE HoldsOK'
  BY <1>1 DEF BeginApply, StagedOK, HeldOK
<1>2. ASSUME NEW t \in Token, UnknownToken(s, t) PROVE HoldsOK'
  BY <1>2 DEF UnknownToken, StagedOK, HeldOK, syncVars
<1>3. CASE LoadExisting(s)
  BY <1>3 DEF LoadExisting, StagedOK, HeldOK, syncVars
<1>4. CASE CommitApply(s)
  <2>1. PICK did : /\ did.token = payload[s].token
                   /\ outcome' = [outcome EXCEPT ![s] = did]
                   /\ importLog' = WithRow(importLog, did)
    BY <1>4 DEF CommitApply
  <2>2. pc' = [pc EXCEPT ![s] = "committed"] /\ pc[s] = "applying"
           /\ UNCHANGED <<staged, issued, payload>>
    BY <1>4 DEF CommitApply, Commit
  <2>3. DOMAIN importLog' = DOMAIN importLog \cup {did}
    BY <2>1, WithRowDomain
  <2> QED BY <2>1, <2>2, <2>3 DEF StagedOK, HeldOK
<1>5. CASE FailApply(s)
  BY <1>5 DEF FailApply, StagedOK, HeldOK
<1>6. CASE ClearDiff(s)
  BY <1>6 DEF ClearDiff, StagedOK, HeldOK
<1>7. CASE InvalidateAfterApply(s)
  BY <1>7 DEF InvalidateAfterApply, StagedOK, HeldOK, syncVars
<1>8. CASE NotifyAdded(s)
  BY <1>8 DEF NotifyAdded, StagedOK, HeldOK
<1>9. CASE NotifyRemoved(s)
  BY <1>9 DEF NotifyRemoved, StagedOK, HeldOK
<1> QED BY <1>1, <1>2, <1>3, <1>4, <1>5, <1>6, <1>7, <1>8, <1>9
        DEF Apply, Finish

(***************************************************************************)
(* The invariant holds in every state of the synchronisation, for every    *)
(* table, workbook, interleaving of requests, expiry and crash.            *)
(***************************************************************************)
THEOREM SyncSpecIInv == SyncSpec => []SyncIInv
<1>1. SyncIInv /\ [SyncNext]_vars => SyncIInv'
  <2> SUFFICES ASSUME SyncIInv, [SyncNext]_vars PROVE SyncIInv'
    OBVIOUS
  <2>1. IInv /\ HoldsOK
    BY DEF SyncIInv, SyncTypeOK, HoldsOK, SyncPcOK
  <2>2. IInv' /\ HoldsOK'
    <3>1. CASE UNCHANGED vars
      <4>1. IInv'
        BY <2>1, <3>1
           DEF vars, carVars, IInv, TableOK, LoadedExist, EidUnique, EidsUnique,
               Ids, EntryOK
      <4>2. HoldsOK'
        BY <2>1, <3>1 DEF vars, carVars, syncVars, HoldsOK, SyncPcOK, StagedOK, HeldOK
      <4> QED BY <4>1, <4>2
    <3>2. ASSUME NEW t \in Token, ExpireToken(t) \/ \E f \in File : Upload(t, f)
          PROVE  IInv' /\ HoldsOK'
      BY <2>1, <3>2, StageIInv, StageHolds
    <3>3. ASSUME NEW s \in Session, Apply(s)
          PROVE  IInv' /\ HoldsOK'
      BY <2>1, <3>3, ApplyIInv, ApplyHolds
    <3>4. ASSUME NEW s \in Session, Edit(s), UNCHANGED syncVars
          PROVE  IInv' /\ HoldsOK'
      BY <2>1, <3>4, EditIInv, EditHolds
    <3> QED BY <3>1, <3>2, <3>3, <3>4 DEF SyncNext
  <2> QED BY <2>2 DEF SyncIInv, SyncTypeOK, HoldsOK, SyncPcOK, IInv
<1> QED BY SyncInitIInv, <1>1, PTL DEF SyncSpec

(* SyncTypeOK: every variable keeps its type, and what a session holds is  *)
(* what its place in apply_diff calls for.                                 *)
THEOREM SyncSpecTypeOK == SyncSpec => []SyncTypeOK
<1>1. SyncIInv => SyncTypeOK
  BY DEF SyncIInv
<1> QED BY SyncSpecIInv, <1>1, PTL

(* No two cars ever share an excel_row_id, whatever applies and edits run  *)
(* at the same time.                                                       *)
THEOREM SyncSpecEidUnique == SyncSpec => []EidUnique
<1>1. SyncIInv => EidUnique
  BY DEF SyncIInv, IInv
<1> QED BY SyncSpecIInv, <1>1, PTL

-----------------------------------------------------------------------------

(* CommitApply, taken apart: s has read a part of the table, and for some  *)
(* dictionary and some new primary keys it commits AppliedTable.           *)
ApplyCommits(s, load, rows, byKey, place) ==
    /\ load = loaded[s] /\ rows = Rows(payload[s].file)
    /\ payload[s].file \in File /\ load \in Table /\ cars \in Table
    /\ \A i \in CarId : load[i] # NoCar => i \in Ids(cars)
    /\ \A i \in CarId : ApplyCases(cars, load, rows, byKey, place, i)
    /\ \A i \in CarId : cars'[i] = AppliedTable(cars, load, rows, byKey, place)[i]
    /\ audit' = ApplyEntries(load, rows, byKey, place)

LEMMA CommitApplyCases ==
    ASSUME SyncIInv, NEW s \in Session, CommitApply(s)
    PROVE  \E byKey \in ByKey(loaded[s]) :
           \E place \in Injection(Fresh(Rows(payload[s].file), byKey), CarId \ Ids(cars)) :
              ApplyCommits(s, loaded[s], Rows(payload[s].file), byKey, place)
<1> DEFINE f == payload[s].file
           load == loaded[s]
<1>1. pc[s] = "applying"
  BY DEF CommitApply
<1>2. f \in File /\ load \in Table /\ cars \in Table
         /\ \A i \in CarId : load[i] # NoCar => i \in Ids(cars)
  BY <1>1, HeldFile
<1>3. PICK byKey \in ByKey(load) :
        \E place \in Injection(Fresh(Rows(f), byKey), CarId \ Ids(cars)) :
           ApplyWrites(s, byKey, place)
  BY CommitApplyWrites
<1>4. PICK place \in Injection(Fresh(Rows(f), byKey), CarId \ Ids(cars)) :
           ApplyWrites(s, byKey, place)
  BY <1>3
<1>5. /\ cars' = AppliedTable(cars, load, Rows(f), byKey, place)
      /\ audit' = ApplyEntries(load, Rows(f), byKey, place)
  BY <1>4 DEF ApplyWrites, Commit
<1> HIDE DEF f, load
<1>6. \A i \in CarId : ApplyCases(cars, load, Rows(f), byKey, place, i)
  BY <1>2, AppliedCases
<1>7. ApplyCommits(s, load, Rows(f), byKey, place)
  BY <1>2, <1>5, <1>6 DEF ApplyCommits, f, load
<1> QED BY <1>7 DEF f, load

(* In the commit of an apply, a row that changes is accounted for.         *)
LEMMA CommitApplyAudit ==
    ASSUME SyncIInv, NEW s \in Session, CommitApply(s),
           NEW i \in CarId, cars'[i] # cars[i]
    PROVE  AccountedFor(i)
<1>1. PICK load, rows, byKey, place : ApplyCommits(s, load, rows, byKey, place)
  BY CommitApplyCases
<1> DEFINE new == AppliedTable(cars, load, rows, byKey, place)
           kept == KeptIds(rows, byKey)
           gone == GoneIds(rows, byKey)
<1>2. /\ cars'[i] = new[i] /\ audit' = ApplyEntries(load, rows, byKey, place)
      /\ ApplyCases(cars, load, rows, byKey, place, i)
      /\ cars \in Table /\ payload[s].file \in File
      /\ rows = Rows(payload[s].file)
  BY <1>1 DEF ApplyCommits
<1>3. ASSUME NEW k \in DOMAIN place, place[k] = i PROVE AccountedFor(i)
  <2>1. CreateEntry(i, rows[k]) \in audit'
    BY <1>2, <1>3 DEF ApplyEntries
  <2>2. CreateEntry(i, rows[k]).car = i /\ CreateEntry(i, rows[k]).action = "create"
    BY DEF CreateEntry, Entry
  <2>3. cars[i] = NoCar
    BY <1>2, <1>3, TableFacts DEF ApplyCases
  <2> QED BY <2>1, <2>2, <2>3 DEF AccountedFor
<1>4. CASE i \in kept
  <2> DEFINE row == rows[Key(load[i])]
             changed == ApplyChanges(row, load[i])
             vals == Restrict(row.cols, changed)
  <2>1. /\ cars[i] \in Car /\ load[i] \in Car /\ row \in Row
        /\ cars'[i] = ApplyRow(cars[i], load[i], row)
    BY <1>2, <1>4, RowsFacts DEF ApplyCases
  <2>2. UpdateEntries(i, load[i], changed, vals) \subseteq audit'
    <3>1. RowEntries(i, load[i], row) \subseteq audit'
      BY <1>2, <1>4 DEF ApplyEntries
    <3> QED BY <3>1 DEF RowEntries
  <2> HIDE DEF row
  <2>3. \A c \in changed : c \in DOMAIN vals /\ vals[c] = row.cols[c]
    BY <2>1 DEF Restrict, ApplyChanges, AppliedColumns, Row, Cells
  <2>4. /\ cars'[i].deleted = cars[i].deleted /\ cars'[i].name = cars[i].name
        /\ cars'[i].status = cars[i].status
        /\ \A c \in Columns : cars'[i].cols[c] =
              IF c \in changed THEN row.cols[c] ELSE cars[i].cols[c]
    <3>1. Written(cars'[i], cars[i], load[i], row)
      BY <2>1, RowIsWritten
    <3> QED BY <3>1 DEF Written
  <2> HIDE DEF changed, vals
  <2>5. cars[i] # NoCar
    BY <2>1, NoCarAssumption
  <2>6. ASSUME NEW g \in Field, Get(cars'[i], g) # Get(cars[i], g)
        PROVE  g \in changed /\ Get(cars'[i], g) = row.cols[g]
    BY <2>4, <2>6, FieldFacts DEF Get, Field
  <2>7. ASSUME NEW g \in Field, Get(cars'[i], g) # Get(cars[i], g)
        PROVE  /\ \E e \in audit' : /\ e.car = i /\ g \in DOMAIN e.new
                                    /\ e.new[g] = Get(cars'[i], g)
               /\ g = "price" => \E e \in audit' :
                     /\ e.car = i /\ e.action = "price_change"
                     /\ e.new["price"] = Get(cars'[i], "price")
    <3>1. g \in changed /\ g \in DOMAIN vals /\ vals[g] = Get(cars'[i], g)
      BY <2>3, <2>6, <2>7
    <3> QED BY <2>2, <3>1, UpdateEntriesCover
  <2> QED BY <2>4, <2>5, <2>7, FieldFacts DEF AccountedFor
<1>5. CASE i \in gone
  <2> DEFINE entry == StatusEntry(i, "archive", load[i], "archived")
  <2>1. cars[i] \in Car /\ cars'[i] = [cars[i] EXCEPT !.status = "archived"]
    BY <1>2, <1>5 DEF ApplyCases
  <2>2. entry \in audit'
    BY <1>2, <1>5 DEF ApplyEntries
  <2>3. entry.car = i /\ "status" \in DOMAIN entry.new
           /\ entry.new["status"] = "archived"
    BY DEF StatusEntry, Entry
  <2>4. cars'[i].deleted = cars[i].deleted /\ cars'[i].status = "archived"
           /\ cars'[i].name = cars[i].name /\ cars'[i].cols = cars[i].cols
    BY <2>1, ArchivedFacts DEF Car
  <2>5. cars[i] # NoCar
    BY <2>1, NoCarAssumption
  <2> HIDE DEF entry
  <2>6. \A g \in Field : Get(cars'[i], g) # Get(cars[i], g) =>
                            g = "status" /\ Get(cars'[i], g) = "archived"
    BY <2>4 DEF Get
  <2> QED BY <2>2, <2>3, <2>4, <2>5, <2>6, FieldFacts DEF AccountedFor
<1>6. (\E k \in DOMAIN place : place[k] = i) \/ i \in kept \/ i \in gone
         \/ new[i] = cars[i]
  BY <1>2 DEF ApplyCases
<1> HIDE DEF new
<1> QED BY <1>2, <1>3, <1>4, <1>5, <1>6

(* Every change of the cars table, by an edit or by an apply, is in the    *)
(* audit log, committed with it.                                           *)
THEOREM SyncSpecAudit == SyncSpec => AuditCoversCommit
<1>1. SyncIInv /\ [SyncNext]_vars =>
        [\A i \in CarId : cars'[i] # cars[i] => AccountedFor(i)]_carVars
  <2> SUFFICES ASSUME SyncIInv, SyncNext, NEW i \in CarId, cars'[i] # cars[i]
               PROVE  AccountedFor(i)
    BY DEF vars
  <2>1. CASE NoCommit
    BY <2>1 DEF NoCommit
  <2>2. ASSUME NEW s \in Session, Edit(s) PROVE AccountedFor(i)
    BY <2>2, EditAudit DEF SyncIInv
  <2>3. ASSUME NEW s \in Session, CommitApply(s) PROVE AccountedFor(i)
    BY <2>3, CommitApplyAudit
  <2> QED BY <2>1, <2>2, <2>3
          DEF SyncNext, Upload, ExpireToken, Apply, Finish, BeginApply,
              UnknownToken, LoadExisting, FailApply, ClearDiff,
              InvalidateAfterApply, NotifyAdded, NotifyRemoved
<1> QED BY SyncSpecIInv, <1>1, PTL DEF SyncSpec, AuditCoversCommit

-----------------------------------------------------------------------------

(* A notification reports an apply that was committed, crashes included:   *)
(* notify_task is only called with the counts of an import log.            *)
THEOREM SyncSpecSentLogged == SyncSpec => []SentAreLogged
<1>1. SyncInit => SentAreLogged
  BY DEF SyncInit, SentAreLogged
<1>2. SyncIInv /\ SentAreLogged /\ [SyncNext]_vars => SentAreLogged'
  <2> SUFFICES ASSUME SyncIInv, SentAreLogged, [SyncNext]_vars
               PROVE  SentAreLogged'
    OBVIOUS
  <2>1. CASE UNCHANGED <<importLog, sent>>
    BY <2>1 DEF SentAreLogged
  <2>2. ASSUME NEW s \in Session, CommitApply(s) PROVE SentAreLogged'
    <3>1. PICK did : importLog' = WithRow(importLog, did) /\ sent' = sent
      BY <2>2 DEF CommitApply
    <3> QED BY <3>1, WithRowDomain DEF SentAreLogged
  <2>3. ASSUME NEW s \in Session, NotifyAdded(s) \/ NotifyRemoved(s)
        PROVE  SentAreLogged'
    <3>1. pc[s] \in {"invalidated", "notifying"}
      BY <2>3 DEF NotifyAdded, NotifyRemoved
    <3>2. outcome[s] \in DOMAIN importLog
      BY <3>1 DEF SyncIInv, SyncTypeOK, HeldOK, ApplyPC
    <3>3. importLog' = importLog
             /\ (sent' = sent \/ \E kind : sent' = sent \cup {<<kind, outcome[s]>>})
      BY <2>3 DEF NotifyAdded, NotifyRemoved, Notify
    <3> QED BY <3>2, <3>3 DEF SentAreLogged
  <2> QED BY <2>1, <2>2, <2>3
          DEF SyncNext, vars, syncVars, Upload, ExpireToken, Apply, Finish,
              BeginApply, UnknownToken, LoadExisting, FailApply, ClearDiff,
              InvalidateAfterApply
<1> QED BY SyncSpecIInv, <1>1, <1>2, PTL DEF SyncSpec

-----------------------------------------------------------------------------
(* What is still to come after a commit, while nothing dies.               *)

(* How a step moves the session that takes it.                             *)
LEMMA EditMoves ==
    ASSUME ~MayCrash, NEW s \in Session, Edit(s)
    PROVE  \/ pc' = pc /\ cacheBehind' = cacheBehind
           \/ /\ pc[s] \in {"idle", "editing"} /\ cacheBehind' = cacheBehind
              /\ pc' = [pc EXCEPT ![s] = "editing"]
           \/ /\ pc[s] \in {"idle", "editing"}
              /\ pc' = [pc EXCEPT ![s] = "edited"]
           \/ /\ pc[s] = "edited" /\ cacheBehind' = FALSE
              /\ pc' = [pc EXCEPT ![s] = "idle"]
BY DEF Edit, Handle, BeginEdit, NotFound, CreateCar, UpdateCar, PublishCar,
   ArchiveCar, SoftDeleteCar, InvalidateAfterEdit, CrashInEdit, Commit, Goto

(* As long as the cache may be behind, its invalidation is still to come,  *)
(* for any number of edits and applies (SomeoneWillInvalidate).            *)
THEOREM SyncSpecWillInvalidate ==
    ASSUME ~MayCrash PROVE SyncSpec => []SomeoneWillInvalidate
<1>1. SyncInit => SomeoneWillInvalidate
  BY DEF SyncInit, Init, SomeoneWillInvalidate
<1>2. SyncIInv /\ SomeoneWillInvalidate /\ [SyncNext]_vars => SomeoneWillInvalidate'
  <2> SUFFICES ASSUME SyncIInv, SomeoneWillInvalidate, [SyncNext]_vars
               PROVE  SomeoneWillInvalidate'
    OBVIOUS
  <2>1. DOMAIN pc = Session
    BY DEF SyncIInv, SyncTypeOK
  <2>2. CASE pc' = pc /\ cacheBehind' = cacheBehind
    BY <2>2 DEF SomeoneWillInvalidate
  <2>3. ASSUME NEW s \in Session, Edit(s) PROVE SomeoneWillInvalidate'
    BY <2>1, <2>2, <2>3, EditMoves DEF SomeoneWillInvalidate, OwesInvalidation
  <2>4. ASSUME NEW s \in Session, CommitApply(s) PROVE SomeoneWillInvalidate'
    <3>1. pc' = [pc EXCEPT ![s] = "committed"]
      BY <2>4 DEF CommitApply, Commit, Goto
    <3> QED BY <2>1, <3>1 DEF SomeoneWillInvalidate, OwesInvalidation
  <2>5. ASSUME NEW s \in Session, FailApply(s) PROVE SomeoneWillInvalidate'
    BY <2>1, <2>5 DEF FailApply, Rejected, Goto, SomeoneWillInvalidate, OwesInvalidation
  <2>6. ASSUME NEW s \in Session,
               LoadExisting(s) \/ Finish(s) \/ \E t \in Token : BeginApply(s, t)
        PROVE  SomeoneWillInvalidate'
    BY <2>1, <2>6 DEF LoadExisting, Finish, ClearDiff, InvalidateAfterApply,
       NotifyAdded, NotifyRemoved, BeginApply, Goto, SomeoneWillInvalidate, OwesInvalidation
  <2> QED BY <2>2, <2>3, <2>4, <2>5, <2>6
          DEF SyncNext, Apply, UnknownToken, Upload, ExpireToken, vars, carVars
<1> QED BY SyncSpecIInv, <1>1, <1>2, PTL DEF SyncSpec

(* The places of apply_diff at which it holds an import log.               *)
FollowUp == {"committed", "cleared", "invalidated", "notifying"}

(* Every import log is announced or in the hands of the request that will; *)
(* one that comes to its second notification has made the first.           *)
Told(kind, e) == IF kind = "added" THEN e.added > 0 => <<"added", e>> \in sent
                                   ELSE e.removed > 0 => <<"removed", e>> \in sent
OnTheWay(e) == \E s \in Session : pc[s] \in FollowUp /\ outcome[s] = e
WarnInv ==
    /\ \A e \in DOMAIN importLog : OnTheWay(e) \/ (Told("added", e) /\ Told("removed", e))
    /\ \A s \in Session : pc[s] = "notifying" => Told("added", outcome[s])

LEMMA WarnKept ==
    ASSUME WarnInv, sent \subseteq sent', importLog' = importLog,
           \A s \in Session :
              /\ pc[s] \in FollowUp => pc'[s] \in FollowUp /\ outcome'[s] = outcome[s]
              /\ pc'[s] = "notifying" => pc[s] = "notifying" /\ outcome'[s] = outcome[s]
    PROVE  WarnInv'
<1>1. \A e : OnTheWay(e) => OnTheWay(e)'
  BY DEF OnTheWay
<1>2. \A e : /\ Told("added", e) => Told("added", e)'
             /\ Told("removed", e) => Told("removed", e)'
  BY DEF Told
<1>3. \A s \in Session : pc'[s] = "notifying" => Told("added", outcome[s])'
  BY <1>2 DEF WarnInv
<1> QED BY <1>1, <1>2, <1>3 DEF WarnInv, Told

LEMMA WarnStep ==
    ASSUME ~MayCrash, SyncIInv, WarnInv, [SyncNext]_vars
    PROVE  WarnInv'
<1>1. /\ DOMAIN pc = Session /\ DOMAIN outcome = Session
  BY DEF SyncIInv, SyncTypeOK, HeldOK
<1> USE DEF FollowUp
<1>2. CASE UNCHANGED <<pc, outcome, importLog, sent>>
  BY <1>2, WarnKept
<1>3. ASSUME NEW s \in Session, Edit(s), UNCHANGED syncVars PROVE WarnInv'
  BY <1>1, <1>3, EditMoves, WarnKept DEF syncVars
<1>4. ASSUME NEW s \in Session, CommitApply(s) PROVE WarnInv'
  <2>1. /\ pc[s] = "applying" /\ pc' = [pc EXCEPT ![s] = "committed"] /\ sent' = sent
        /\ \E did : /\ outcome' = [outcome EXCEPT ![s] = did]
                    /\ importLog' = WithRow(importLog, did)
    BY <1>4 DEF CommitApply, Commit, Goto
  <2>2. PICK did : /\ outcome' = [outcome EXCEPT ![s] = did]
                   /\ importLog' = WithRow(importLog, did)
    BY <2>1
  <2>3. DOMAIN importLog' = DOMAIN importLog \cup {did}
    BY <2>2, WithRowDomain
  <2>4. OnTheWay(did)'
    BY <1>1, <2>1, <2>2 DEF OnTheWay
  <2>5. \A e : OnTheWay(e) => OnTheWay(e)'
    BY <1>1, <2>1, <2>2 DEF OnTheWay
  <2>6. \A e : Told("added", e)' = Told("added", e) /\ Told("removed", e)' = Told("removed", e)
    BY <2>1 DEF Told
  <2>7. \A t \in Session : pc'[t] = "notifying" =>
              pc[t] = "notifying" /\ outcome'[t] = outcome[t]
    BY <1>1, <2>1, <2>2
  <2> QED BY <2>3, <2>4, <2>5, <2>6, <2>7 DEF WarnInv
<1>5. ASSUME NEW s \in Session, FailApply(s) PROVE WarnInv'
  BY <1>1, <1>5, WarnKept DEF FailApply, Rejected, Goto
<1>6. ASSUME NEW s \in Session,
             LoadExisting(s) \/ ClearDiff(s) \/ InvalidateAfterApply(s)
                \/ \E t \in Token : BeginApply(s, t)
      PROVE  WarnInv'
  BY <1>1, <1>6, WarnKept
     DEF LoadExisting, ClearDiff, InvalidateAfterApply, BeginApply, Goto, syncVars
<1>7. ASSUME NEW s \in Session, NotifyAdded(s) PROVE WarnInv'
  <2>1. /\ pc[s] = "invalidated" /\ pc' = [pc EXCEPT ![s] = "notifying"]
        /\ UNCHANGED <<outcome, importLog>> /\ sent \subseteq sent'
        /\ Told("added", outcome[s])'
    BY <1>7 DEF NotifyAdded, Notify, Goto, Told
  <2>2. \A e : OnTheWay(e) => OnTheWay(e)'
    BY <1>1, <2>1 DEF OnTheWay
  <2>3. \A e : /\ Told("added", e) => Told("added", e)'
               /\ Told("removed", e) => Told("removed", e)'
    BY <2>1 DEF Told
  <2>4. \A t \in Session : pc'[t] = "notifying" => Told("added", outcome[t])'
    BY <1>1, <2>1, <2>3 DEF WarnInv
  <2> QED BY <2>1, <2>2, <2>3, <2>4 DEF WarnInv, Told
<1>8. ASSUME NEW s \in Session, NotifyRemoved(s) PROVE WarnInv'
  <2>1. PICK did : did = outcome[s]
    OBVIOUS
  <2>2. /\ pc[s] = "notifying" /\ pc' = [pc EXCEPT ![s] = "idle"]
        /\ outcome' = [outcome EXCEPT ![s] = None] /\ importLog' = importLog
        /\ sent \subseteq sent' /\ Told("removed", did)'
    BY <1>8, <2>1 DEF NotifyRemoved, Notify, Goto, Told
  <2>3. \A e : /\ Told("added", e) => Told("added", e)'
               /\ Told("removed", e) => Told("removed", e)'
    BY <2>2 DEF Told
  <2>4. \A e : OnTheWay(e) => OnTheWay(e)' \/ e = did
    BY <1>1, <2>1, <2>2 DEF OnTheWay
  <2>5. Told("added", did)'
    BY <2>1, <2>2, <2>3 DEF WarnInv
  <2>6. \A t \in Session : pc'[t] = "notifying" =>
              pc[t] = "notifying" /\ outcome'[t] = outcome[t]
    BY <1>1, <2>2
  <2> QED BY <2>2, <2>3, <2>4, <2>5, <2>6 DEF WarnInv, Told
<1> QED BY <1>2, <1>3, <1>4, <1>5, <1>6, <1>7, <1>8
        DEF SyncNext, Apply, Finish, UnknownToken, Upload, ExpireToken, vars, carVars, syncVars

(* An apply that added or archived cars has told the admins or is on its   *)
(* way to, for any number of applies at once (AdminsWarned).               *)
THEOREM SyncSpecAdminsWarned == ASSUME ~MayCrash PROVE SyncSpec => []AdminsWarned
<1>1. SyncInit => WarnInv
  BY DEF SyncInit, Init, WarnInv
<1>2. SyncIInv /\ WarnInv /\ [SyncNext]_vars => WarnInv'
  BY WarnStep
<1>3. WarnInv => AdminsWarned
  BY DEF WarnInv, AdminsWarned, OnTheWay, Told
<1> QED BY SyncSpecIInv, <1>1, <1>2, <1>3, PTL DEF SyncSpec

(* A token that has been applied is in Redis only while the request that   *)
(* applied it is about to clear it.                                        *)
TokenInv ==
    \A e \in DOMAIN importLog :
        /\ e.token \in issued
        /\ staged[e.token] # None =>
              \E s \in Session : pc[s] = "committed" /\ outcome[s] = e

LEMMA TokenKept ==
    ASSUME TokenInv, importLog' = importLog, issued \subseteq issued',
           \A t \in issued : staged'[t] \in {staged[t], None},
           \A s \in Session :
              pc[s] = "committed" => pc'[s] = "committed" /\ outcome'[s] = outcome[s]
    PROVE  TokenInv'
BY DEF TokenInv

LEMMA TokenStep ==
    ASSUME ~MayCrash, SyncIInv, TokenInv, [SyncNext]_vars
    PROVE  TokenInv'
<1>1. /\ DOMAIN pc = Session /\ DOMAIN outcome = Session
      /\ DOMAIN staged = Token /\ issued \subseteq Token
      /\ \A s \in Session : pc[s] = "committed" => outcome[s].token = payload[s].token
      /\ \A s \in Session : pc[s] = "applying" => payload[s].token \in issued
  BY DEF SyncIInv, SyncTypeOK, StagedOK, HeldOK, ApplyPC
<1>2. CASE UNCHANGED <<pc, outcome, importLog, staged, issued>>
  BY <1>2, TokenKept
<1>3. ASSUME NEW t \in Token, ExpireToken(t) PROVE TokenInv'
  BY <1>1, <1>3, TokenKept DEF ExpireToken
<1>4. ASSUME NEW t \in Token, NEW f \in File, Upload(t, f) PROVE TokenInv'
  BY <1>1, <1>4, TokenKept DEF Upload
<1>5. ASSUME NEW s \in Session, Edit(s), UNCHANGED syncVars PROVE TokenInv'
  BY <1>1, <1>5, EditMoves, TokenKept DEF syncVars
<1>6. ASSUME NEW s \in Session, CommitApply(s) PROVE TokenInv'
  <2>1. /\ pc[s] = "applying" /\ pc' = [pc EXCEPT ![s] = "committed"]
        /\ UNCHANGED <<staged, issued>>
        /\ \E did : /\ did.token = payload[s].token
                    /\ outcome' = [outcome EXCEPT ![s] = did]
                    /\ importLog' = WithRow(importLog, did)
    BY <1>6 DEF CommitApply, Commit, Goto
  <2>2. PICK did : /\ did.token = payload[s].token
                   /\ outcome' = [outcome EXCEPT ![s] = did]
                   /\ importLog' = WithRow(importLog, did)
    BY <2>1
  <2>3. DOMAIN importLog' = DOMAIN importLog \cup {did}
    BY <2>2, WithRowDomain
  <2>4. did.token \in issued' /\ pc'[s] = "committed" /\ outcome'[s] = did
    BY <1>1, <2>1, <2>2
  <2>5. \A t \in Session : pc[t] = "committed" =>
              pc'[t] = "committed" /\ outcome'[t] = outcome[t]
    BY <1>1, <2>1, <2>2
  <2> QED BY <2>1, <2>4, <2>5, <2>3 DEF TokenInv
<1>7. ASSUME NEW s \in Session, ClearDiff(s) PROVE TokenInv'
  <2>1. /\ pc[s] = "committed" /\ pc' = [pc EXCEPT ![s] = "cleared"]
        /\ staged' = [staged EXCEPT ![payload[s].token] = None]
        /\ UNCHANGED <<issued, outcome, importLog>>
    BY <1>7 DEF ClearDiff, Goto
  <2>2. ASSUME NEW e \in DOMAIN importLog, staged'[e.token] # None
        PROVE  \E t \in Session : pc'[t] = "committed" /\ outcome'[t] = e
    <3>1. e.token \in Token /\ staged[e.token] # None /\ e.token # outcome[s].token
      BY <1>1, <2>1, <2>2 DEF TokenInv
    <3> QED BY <1>1, <2>1, <3>1 DEF TokenInv
  <2> QED BY <2>1, <2>2 DEF TokenInv
<1>8. ASSUME NEW s \in Session,
             \/ FailApply(s) \/ LoadExisting(s) \/ InvalidateAfterApply(s)
             \/ NotifyAdded(s) \/ NotifyRemoved(s) \/ \E t \in Token : BeginApply(s, t)
      PROVE  TokenInv'
  BY <1>1, <1>8, TokenKept
     DEF FailApply, Rejected, LoadExisting, InvalidateAfterApply, NotifyAdded,
         NotifyRemoved, BeginApply, Goto, syncVars
<1> QED BY <1>2, <1>3, <1>4, <1>5, <1>6, <1>7, <1>8
        DEF SyncNext, Apply, Finish, UnknownToken, vars, carVars, syncVars

(* No finished apply leaves its token behind, whoever else has applied the *)
(* same token meanwhile (UsedTokensAreCleared).                            *)
THEOREM SyncSpecTokensCleared == ASSUME ~MayCrash PROVE SyncSpec => []UsedTokensAreCleared
<1>1. SyncInit => TokenInv
  BY DEF SyncInit, TokenInv
<1>2. SyncIInv /\ TokenInv /\ [SyncNext]_vars => TokenInv'
  BY TokenStep
<1>3. TokenInv => UsedTokensAreCleared
  BY DEF TokenInv, UsedTokensAreCleared
<1> QED BY SyncSpecIInv, <1>1, <1>2, <1>3, PTL DEF SyncSpec

-----------------------------------------------------------------------------
(* What an apply never does to a car.                                      *)

(* A step that ends the writing part of an apply is its commit.            *)
LEMMA CommitsIsCommitApply ==
    ASSUME SyncIInv, SyncNext, NEW s \in Session, Commits(s)
    PROVE  CommitApply(s)
<1>1. pc[s] = "applying" /\ pc'[s] = "committed" /\ DOMAIN pc = Session
  BY DEF Commits, SyncIInv, SyncTypeOK
<1>2. ASSUME NEW t \in Session, Edit(t) PROVE FALSE
  BY <1>1, <1>2
     DEF Edit, Handle, BeginEdit, NotFound, CreateCar, UpdateCar, PublishCar,
         ArchiveCar, SoftDeleteCar, InvalidateAfterEdit, CrashInEdit, Commit, Goto
<1>3. ASSUME NEW t \in Session, CommitApply(t) PROVE t = s
  BY <1>1, <1>3 DEF CommitApply, Commit, Goto
<1> QED BY <1>1, <1>2, <1>3
        DEF SyncNext, Apply, Finish, BeginApply, UnknownToken, LoadExisting, FailApply,
            ClearDiff, InvalidateAfterApply, NotifyAdded, NotifyRemoved, Upload,
            ExpireToken, Goto

(* What a request has loaded for an apply are Excel cars, and stay so, with *)
(* the excel_row_id they had.                                              *)
SourceInv ==
    \A s \in Session : pc[s] = "applying" =>
        \A i \in CarId : loaded[s][i] # NoCar =>
            cars[i].source = "excel" /\ cars[i].eid = loaded[s][i].eid

(* CommitApply, row by row.                                                *)
ApplyOnly(i) ==
    /\ cars'[i] # cars[i] => cars[i].source = "excel"
    /\ cars'[i].status \in {cars[i].status, "archived"}
    /\ [cars'[i] EXCEPT !.cols = {}, !.status = "draft"]
          = [cars[i] EXCEPT !.cols = {}, !.status = "draft"]

LEMMA ArchivedLasts ==
    ASSUME NEW car \in Car PROVE Lasting(car, [car EXCEPT !.status = "archived"])
BY DEF Lasting, Car, Status

LEMMA CommitApplyOnly ==
    ASSUME SyncIInv, SourceInv, NEW s \in Session, CommitApply(s), NEW i \in Ids(cars)
    PROVE  /\ ApplyOnly(i) /\ Lasting(cars[i], cars'[i])
           /\ cars'[i] # cars[i] => loaded[s][i] # NoCar
<1>1. PICK load, rows, byKey, place : ApplyCommits(s, load, rows, byKey, place)
  BY CommitApplyCases
<1> DEFINE new == AppliedTable(cars, load, rows, byKey, place)
           kept == KeptIds(rows, byKey)
           gone == GoneIds(rows, byKey)
<1>2. /\ i \in CarId /\ cars[i] \in Car /\ load = loaded[s]
      /\ cars'[i] = new[i] /\ ApplyCases(cars, load, rows, byKey, place, i)
      /\ rows = Rows(payload[s].file) /\ payload[s].file \in File
  BY <1>1 DEF ApplyCommits, Ids, Table
<1>3. \A k \in DOMAIN place : place[k] # i
  BY <1>2 DEF ApplyCases
<1>4. i \in SyncableIds(load) => cars[i].source = "excel" /\ load[i] # NoCar
  <2>1. pc[s] = "applying"
    BY DEF CommitApply
  <2> QED BY <1>2, <2>1 DEF SourceInv, SyncableIds, Ids
<1>5. CASE i \in kept
  <2> DEFINE row == rows[Key(load[i])]
             car == ApplyRow(cars[i], load[i], row)
  <2>1. /\ load[i] \in Car /\ row \in Row /\ cars[i] \in Car
        /\ cars'[i] = car /\ i \in SyncableIds(load)
    BY <1>2, <1>5, RowsFacts DEF ApplyCases
  <2> HIDE DEF row
  <2>2. /\ car \in Car /\ car.eid = cars[i].eid /\ car.deleted = cars[i].deleted
        /\ car.name = cars[i].name /\ car.status = cars[i].status
        /\ car.source = cars[i].source
    <3> DEFINE current == cars[i]
               read == load[i]
    <3>1. current \in Car /\ read \in Car /\ row \in Row
      BY <2>1
    <3> HIDE DEF current, read, car
    <3>2. LET written == ApplyRow(current, read, row)
          IN /\ written \in Car /\ written.eid = current.eid
             /\ written.deleted = current.deleted /\ written.name = current.name
             /\ written.status = current.status /\ written.source = current.source
      BY <3>1, ApplyRowFacts
    <3> QED BY <3>2 DEF current, read, car
  <2> HIDE DEF car
  <2>3. Lasting(cars[i], cars'[i])
    BY <2>1, <2>2 DEF Lasting
  <2>4. ApplyOnly(i)
    BY <1>2, <1>4, <2>1, <2>2 DEF ApplyOnly, Car
  <2>5. load = loaded[s] /\ load[i] # NoCar
    BY <1>2, <1>4, <2>1
  <2> QED BY <2>3, <2>4, <2>5
<1>6. CASE i \in gone
  <2>1. cars'[i] = [cars[i] EXCEPT !.status = "archived"] /\ i \in SyncableIds(load)
    BY <1>2, <1>6 DEF ApplyCases
  <2>2. Lasting(cars[i], [cars[i] EXCEPT !.status = "archived"])
    BY <1>2, ArchivedLasts
  <2>3. ApplyOnly(i)
    BY <1>2, <1>4, <2>1 DEF ApplyOnly, Car
  <2>4. load = loaded[s] /\ load[i] # NoCar
    BY <1>2, <1>4, <2>1
  <2>5. Lasting(cars[i], cars'[i])
    BY <2>1, <2>2
  <2> QED BY <2>3, <2>4, <2>5
<1>7. CASE new[i] = cars[i]
  BY <1>2, <1>7 DEF ApplyOnly, Lasting
<1> HIDE DEF new, kept, gone
<1>8. i \in kept \/ i \in gone \/ new[i] = cars[i]
  BY <1>2, <1>3 DEF ApplyCases, new, kept, gone
<1> QED BY <1>5, <1>6, <1>7, <1>8

LEMMA SourceKept ==
    ASSUME SyncIInv, SourceInv, \A i \in Ids(cars) : Lasting(cars[i], cars'[i]),
           \A s \in Session : pc'[s] = "applying" =>
              \/ pc[s] = "applying" /\ loaded'[s] = loaded[s]
              \/ cars' = cars /\ loaded'[s] = SyncView(cars)
    PROVE  SourceInv'
<1> SUFFICES ASSUME NEW s \in Session, pc'[s] = "applying",
                    NEW i \in CarId, loaded'[s][i] # NoCar
             PROVE  cars'[i].source = "excel" /\ cars'[i].eid = loaded'[s][i].eid
  BY DEF SourceInv
<1>1. CASE pc[s] = "applying" /\ loaded'[s] = loaded[s]
  <2>1. i \in Ids(cars)
    BY <1>1 DEF SyncIInv, IInv, LoadedExist
  <2> QED BY <1>1, <2>1 DEF SourceInv, Lasting
<1>2. CASE cars' = cars /\ loaded'[s] = SyncView(cars)
  <2>1. i \in SyncableIds(cars) /\ loaded'[s][i] = cars[i]
    BY <1>2, SyncViewFacts DEF SyncIInv, IInv, TableOK
  <2> QED BY <1>2, <2>1 DEF SyncableIds, Syncable
<1> QED BY <1>1, <1>2

(* An edit moves its own request only, and never to a place in an apply.   *)
Moves(s, label) == /\ pc' = [pc EXCEPT ![s] = label]
                   /\ loaded' = loaded \/ \E view : loaded' = [loaded EXCEPT ![s] = view]

Moved(s) == \/ Moves(s, "editing")
            \/ Moves(s, "edited")
            \/ Moves(s, "idle")
            \/ UNCHANGED <<pc, loaded>>

LEMMA EditStaysOutOfApply ==
    ASSUME NEW s \in Session, Edit(s)
    PROVE  Moved(s)
<1>1. \A table, entries : Commit(s, table, entries, "edited") => Moves(s, "edited")
  BY DEF Commit, Goto, Forget, Moves
<1>2. \A i \in CarId : BeginEdit(s, i) => Moves(s, "editing")
  BY DEF BeginEdit, Goto, Moves
<1>3. \A i \in CarId : \A c \in CreatePayloads : CreateCar(s, i, c) => Moves(s, "edited")
  BY <1>1 DEF CreateCar
<1>4. \A i \in CarId : \A p \in UpdatePayloads : UpdateCar(s, i, p) => Moves(s, "edited")
  BY <1>1 DEF UpdateCar
<1>5. \A i \in CarId : PublishCar(s, i) \/ ArchiveCar(s, i) \/ SoftDeleteCar(s, i)
                          => Moves(s, "edited")
  BY <1>1 DEF PublishCar, ArchiveCar, SoftDeleteCar
<1>6. CrashInEdit(s) => Moves(s, "idle")
  BY DEF CrashInEdit, Goto, Forget, Moves
<1>7. InvalidateAfterEdit(s) => Moves(s, "idle")
  BY DEF InvalidateAfterEdit, Goto, Moves
<1>8. \A i \in CarId : NotFound(s, i) => UNCHANGED <<pc, loaded>>
  BY DEF NotFound
<1>9. Handle(s) => Moved(s)
  BY <1>2, <1>3, <1>4, <1>5, <1>8 DEF Handle, Moved
<1> QED BY <1>6, <1>7, <1>9 DEF Edit, Moved

LEMMA UnchangedLasts ==
    ASSUME SyncIInv, cars' = cars PROVE \A i \in Ids(cars) : Lasting(cars[i], cars'[i])
BY DEF SyncIInv, IInv, TableOK, Table, Ids, Lasting

LEMMA SourceStep ==
    ASSUME SyncIInv, SourceInv, [SyncNext]_vars
    PROVE  SourceInv'
<1>1. DOMAIN pc = Session /\ DOMAIN loaded = Session
  BY DEF SyncIInv, SyncTypeOK, TableOK
<1>2. CASE UNCHANGED <<cars, pc, loaded>>
  BY <1>2, UnchangedLasts, SourceKept
<1>3. ASSUME NEW s \in Session, Edit(s) PROVE SourceInv'
  <2>1. /\ \A t \in Session \ {s} : pc'[t] = pc[t] /\ loaded'[t] = loaded[t]
        /\ pc'[s] # "applying" \/ UNCHANGED <<pc, loaded>>
    <3>1. Moved(s)
      BY <1>3, EditStaysOutOfApply
    <3>2. ASSUME NEW label, label # "applying", Moves(s, label)
          PROVE  /\ \A t \in Session \ {s} : pc'[t] = pc[t] /\ loaded'[t] = loaded[t]
                 /\ pc'[s] # "applying"
      BY <1>1, <3>2 DEF Moves
    <3> QED BY <3>1, <3>2 DEF Moved
  <2>2. \A i \in Ids(cars) : Lasting(cars[i], cars'[i])
    BY <1>3, EditLasts DEF SyncIInv
  <2> QED BY <2>1, <2>2, SourceKept
<1>4. ASSUME NEW s \in Session, CommitApply(s) PROVE SourceInv'
  <2>1. /\ pc' = [pc EXCEPT ![s] = "committed"]
        /\ loaded' = [loaded EXCEPT ![s] = Nothing]
    BY <1>4 DEF CommitApply, Commit, Goto, Forget
  <2>2. \A i \in Ids(cars) : Lasting(cars[i], cars'[i])
    BY <1>4, CommitApplyOnly
  <2> QED BY <1>1, <2>1, <2>2, SourceKept
<1>5. ASSUME NEW s \in Session,
             FailApply(s) \/ LoadExisting(s) \/ Finish(s) \/ \E t \in Token : BeginApply(s, t)
      PROVE  SourceInv'
  BY <1>1, <1>5, UnchangedLasts, SourceKept
     DEF FailApply, LoadExisting, Finish, ClearDiff, InvalidateAfterApply, NotifyAdded,
         NotifyRemoved, BeginApply, Goto, Forget, NoCommit
<1> QED BY <1>2, <1>3, <1>4, <1>5
        DEF SyncNext, Apply, UnknownToken, Upload, ExpireToken, NoCommit, vars, carVars

(* Whatever edits commit between its read and its write, an apply touches  *)
(* only Excel cars that it has read, and of those only columns and the     *)
(* move to the archive (ApplyOnlyUpdatesOrArchives).                       *)
THEOREM SyncSpecApplyOnly == SyncSpec => ApplyOnlyUpdatesOrArchives
<1>1. SyncInit => SourceInv
  BY DEF SyncInit, Init, SourceInv
<1>2. SyncIInv /\ SourceInv /\ [SyncNext]_vars => SourceInv'
  BY SourceStep
<1>3. SyncIInv /\ SourceInv /\ [SyncNext]_vars =>
        [\A s \in Session : Commits(s) =>
            \A i \in Ids(cars) :
                /\ cars'[i] # cars[i] => cars[i].source = "excel" /\ loaded[s][i] # NoCar
                /\ cars'[i].status \in {cars[i].status, "archived"}
                /\ [cars'[i] EXCEPT !.cols = {}, !.status = "draft"]
                      = [cars[i] EXCEPT !.cols = {}, !.status = "draft"]]_vars
  <2> SUFFICES ASSUME SyncIInv, SourceInv, SyncNext, NEW s \in Session, Commits(s)
               PROVE  \A i \in Ids(cars) :
                        ApplyOnly(i) /\ (cars'[i] # cars[i] => loaded[s][i] # NoCar)
    BY DEF ApplyOnly
  <2>1. CommitApply(s)
    BY CommitsIsCommitApply
  <2>2. ASSUME NEW i \in Ids(cars)
        PROVE  ApplyOnly(i) /\ (cars'[i] # cars[i] => loaded[s][i] # NoCar)
    BY <2>1, CommitApplyOnly
  <2> QED BY <2>2
<1> QED BY SyncSpecIInv, <1>1, <1>2, <1>3, PTL DEF SyncSpec, ApplyOnlyUpdatesOrArchives

LEMMA SyncStepLasts ==
    ASSUME SyncIInv, SourceInv, SyncNext
    PROVE  \A i \in Ids(cars) : Lasting(cars[i], cars'[i])
<1>1. ASSUME NEW s \in Session, Edit(s) PROVE \A i \in Ids(cars) : Lasting(cars[i], cars'[i])
  BY <1>1, EditLasts DEF SyncIInv
<1>2. ASSUME NEW s \in Session, CommitApply(s)
      PROVE  \A i \in Ids(cars) : Lasting(cars[i], cars'[i])
  BY <1>2, CommitApplyOnly
<1>3. CASE cars' = cars
  BY <1>3, UnchangedLasts
<1> QED BY <1>1, <1>2, <1>3
        DEF SyncNext, Apply, BeginApply, UnknownToken, LoadExisting, FailApply, Finish, ClearDiff,
            InvalidateAfterApply, NotifyAdded, NotifyRemoved, Upload, ExpireToken, NoCommit

(* Beside the applies too, a car that has been created is never lost, and  *)
(* keeps its excel_row_id, its source and its deletion.                    *)
THEOREM SyncSpecCarsLast ==
    SyncSpec => [][\A i \in Ids(cars) : Lasting(cars[i], cars'[i])]_vars
<1>1. SyncInit => SourceInv
  BY DEF SyncInit, Init, SourceInv
<1>2. SyncIInv /\ SourceInv /\ [SyncNext]_vars => SourceInv'
  BY SourceStep
<1>3. SyncIInv /\ SourceInv /\ [SyncNext]_vars =>
        [\A i \in Ids(cars) : Lasting(cars[i], cars'[i])]_vars
  BY SyncStepLasts
<1> QED BY SyncSpecIInv, <1>1, <1>2, <1>3, PTL DEF SyncSpec

(* The excel_row_id of car i, as the key of a row.                         *)
Label(i) == [by |-> "eid", id |-> cars[i].eid]

LEMMA TakenRowsAreRead ==
    ASSUME SyncIInv, SourceInv, NEW s \in Session, CommitApply(s), NEW i \in Ids(cars),
           cars[i].eid # None, Label(i) \in DOMAIN Rows(payload[s].file)
    PROVE  loaded[s][i] # NoCar
<1> DEFINE rows == Rows(payload[s].file)
           load == loaded[s]
<1>1. pc[s] = "applying"
  BY DEF CommitApply
<1>2. /\ payload[s].file \in File /\ load \in Table /\ cars \in Table /\ EidsUnique(cars)
      /\ \A j \in CarId : load[j] # NoCar => j \in Ids(cars)
  BY <1>1, HeldFile
<1>3. PICK byKey \in ByKey(load) :
        \E place \in Injection(Fresh(rows, byKey), CarId \ Ids(cars)) :
           ApplyWrites(s, byKey, place)
  BY CommitApplyWrites
<1>4. PICK place \in Injection(Fresh(rows, byKey), CarId \ Ids(cars)) :
           ApplyWrites(s, byKey, place)
  BY <1>3
<1>5. \A k \in Fresh(rows, byKey) : ~EidTaken(cars, rows[k].eid)
  BY <1>4 DEF ApplyWrites, Injection
<1>6. rows[Label(i)].eid = cars[i].eid
  BY <1>2, RowsFacts DEF Label, Key
<1>7. Label(i) \in DOMAIN byKey
  BY <1>5, <1>6 DEF EidTaken, Fresh
<1> DEFINE j == byKey[Label(i)]
<1>8. j \in CarId /\ load[j] # NoCar /\ Key(load[j]) = Label(i)
  BY <1>2, <1>7, ByKeyFacts DEF SyncableIds, Ids
<1> HIDE DEF rows, load, j
<1>9. load[j].eid = cars[i].eid
  BY <1>8 DEF Key, Label
<1>10. j \in Ids(cars) /\ cars[j].eid = load[j].eid
  BY <1>1, <1>2, <1>8 DEF SourceInv, load
<1>11. i = j
  BY <1>2, <1>9, <1>10 DEF EidsUnique
<1> QED BY <1>8, <1>11 DEF load

(* An apply commits only if every row with an excel_row_id that some car   *)
(* has names a car that the apply has read, one that was live and from     *)
(* Excel.  With SyncSpecCarsLast: a row of a deleted or manually entered   *)
(* car keeps its file from being applied for ever (excel_sync.py:188-196,  *)
(* 440).                                                                   *)
THEOREM SyncSpecTakenRows ==
    SyncSpec => [][\A s \in Session : Commits(s) =>
                      \A i \in Ids(cars) :
                         cars[i].eid # None /\ Label(i) \in DOMAIN Rows(payload[s].file)
                            => loaded[s][i] # NoCar]_vars
<1>1. SyncInit => SourceInv
  BY DEF SyncInit, Init, SourceInv
<1>2. SyncIInv /\ SourceInv /\ [SyncNext]_vars => SourceInv'
  BY SourceStep
<1>3. SyncIInv /\ SourceInv /\ [SyncNext]_vars =>
        [\A s \in Session : Commits(s) =>
            \A i \in Ids(cars) :
               cars[i].eid # None /\ Label(i) \in DOMAIN Rows(payload[s].file)
                  => loaded[s][i] # NoCar]_vars
  BY CommitsIsCommitApply, TakenRowsAreRead
<1> QED BY SyncSpecIInv, <1>1, <1>2, <1>3, PTL DEF SyncSpec

-----------------------------------------------------------------------------
(* What an apply is for.                                                   *)

Mirrors(table, rows) ==
    /\ SyncKeys(table) = DOMAIN rows
    /\ KeysUnique(table)
    /\ \A i \in SyncableIds(table) :
          LET row == rows[Key(table[i])]
          IN \A c \in AppliedColumns : row.cols[c] # None =>
                 Norm(table[i].cols[c]) = Norm(row.cols[c])

(* Car i of the table after an apply comes from row k of the file: it has  *)
(* been inserted for it, or was the car with that key before.              *)
ComesFrom(i, k, byKey, place) ==
    \/ k \in DOMAIN place /\ place[k] = i
    \/ k \in DOMAIN byKey /\ byKey[k] = i

(* The dictionary loses no car when keys are unique.                       *)
LEMMA ByKeyIsOnto ==
    ASSUME NEW table \in Table, KeysUnique(table),
           NEW byKey \in ByKey(SyncView(table)), NEW i \in SyncableIds(table)
    PROVE  Key(table[i]) \in DOMAIN byKey /\ byKey[Key(table[i])] = i
<1> DEFINE load == SyncView(table)
           k == Key(table[i])
<1>1. /\ load \in Table /\ SyncableIds(load) = SyncableIds(table)
      /\ \A j \in SyncableIds(table) : load[j] = table[j]
  BY SyncViewFacts
<1> HIDE DEF load
<1>2. k \in SyncKeys(load)
  BY <1>1 DEF SyncKeys
<1>3. DOMAIN byKey = SyncKeys(load) /\ \A q \in DOMAIN byKey :
         byKey[q] \in SyncableIds(load) /\ Key(load[byKey[q]]) = q
  BY <1>1, ByKeyFacts DEF load
<1>4. k \in DOMAIN byKey /\ byKey[k] \in SyncableIds(table) /\ Key(table[byKey[k]]) = k
  BY <1>1, <1>2, <1>3
<1> QED BY <1>4 DEF KeysUnique

LEMMA MirrorRow ==
    ASSUME NEW f \in File, NEW table \in Table, KeysUnique(table),
           NEW byKey \in ByKey(SyncView(table)),
           NEW place \in Injection(Fresh(Rows(f), byKey), CarId \ Ids(table)),
           NEW i \in CarId,
           ApplyCases(table, SyncView(table), Rows(f), byKey, place, i)
    PROVE  LET new == AppliedTable(table, SyncView(table), Rows(f), byKey, place)
               k == Key(new[i])
           IN /\ new[i] # NoCar /\ Syncable(new[i]) =>
                    /\ k \in DOMAIN Rows(f) /\ ComesFrom(i, k, byKey, place)
                    /\ \A c \in AppliedColumns : Rows(f)[k].cols[c] # None =>
                           Norm(new[i].cols[c]) = Norm(Rows(f)[k].cols[c])
              /\ \A q \in DOMAIN Rows(f) : ComesFrom(i, q, byKey, place) =>
                    new[i] # NoCar /\ Syncable(new[i]) /\ k = q
<1> DEFINE rows == Rows(f)
           load == SyncView(table)
           new == AppliedTable(table, load, rows, byKey, place)
           car == new[i]
           was == table[i]
<1>1. /\ load \in Table /\ SyncableIds(load) = SyncableIds(table)
      /\ \A j \in SyncableIds(table) : load[j] = table[j]
  BY SyncViewFacts
<1>2. DOMAIN place = Fresh(rows, byKey)
  BY DEF Injection
<1>3. /\ \A k \in DOMAIN rows : rows[k] \in Row /\ Key(rows[k]) = k
      /\ DOMAIN byKey = SyncKeys(load)
      /\ \A q \in DOMAIN byKey :
            byKey[q] \in SyncableIds(load) /\ Key(load[byKey[q]]) = q
  BY <1>1, RowsFacts, ByKeyFacts
<1>4. ApplyCases(table, load, rows, byKey, place, i)
  OBVIOUS
<1>5. ASSUME NEW q \in DOMAIN place, place[q] = i
      PROVE  /\ q \in DOMAIN rows /\ car # NoCar /\ Syncable(car) /\ Key(car) = q
             /\ \A c \in AppliedColumns : car.cols[c] = rows[q].cols[c]
  <2>1. q \in DOMAIN rows /\ car = InsertedCar(rows[q])
    BY <1>4, <1>5 DEF ApplyCases
  <2>2. rows[q] \in Row /\ Key(rows[q]) = q
    BY <1>3, <2>1
  <2> HIDE DEF rows, car
  <2>3. /\ InsertedCar(rows[q]) \in Car /\ Syncable(InsertedCar(rows[q]))
        /\ Key(InsertedCar(rows[q])) = q
        /\ \A c \in AppliedColumns : InsertedCar(rows[q]).cols[c] = rows[q].cols[c]
    BY <2>2, InsertedCarFacts
  <2> QED BY <2>1, <2>3, NoCarAssumption
<1>6. ASSUME NEW q \in DOMAIN byKey, byKey[q] = i, q \in DOMAIN rows
      PROVE  /\ car # NoCar /\ Syncable(car) /\ Key(car) = q
             /\ \A c \in AppliedColumns : rows[q].cols[c] # None =>
                    Norm(car.cols[c]) = Norm(rows[q].cols[c])
  <2>1. i \in KeptIds(rows, byKey) /\ i \in SyncableIds(table)
           /\ load[i] = was /\ Key(was) = q
    BY <1>1, <1>3, <1>6 DEF KeptIds
  <2>2. was \in Car /\ car = ApplyRow(was, was, rows[q])
    BY <1>4, <2>1 DEF ApplyCases
  <2>3. rows[q] \in Row /\ Syncable(was)
    BY <1>3, <1>6, <2>1 DEF SyncableIds
  <2> HIDE DEF rows, car, was, load
  <2>4. Written(car, was, was, rows[q])
    BY <2>2, <2>3, RowIsWritten
  <2>5. car # NoCar /\ Syncable(car) /\ Key(car) = q
    BY <2>1, <2>3, <2>4, NoCarAssumption DEF Written
  <2>6. \A c \in AppliedColumns : rows[q].cols[c] # None =>
           Norm(car.cols[c]) = Norm(rows[q].cols[c])
    BY <2>4 DEF Written, ApplyChanges, AppliedColumns
  <2> QED BY <2>5, <2>6
<1>7. ASSUME car # NoCar, Syncable(car) PROVE \E q \in DOMAIN rows : ComesFrom(i, q, byKey, place)
  <2>1. CASE \E q \in DOMAIN place : place[q] = i
    BY <1>5, <2>1 DEF ComesFrom
  <2>2. CASE i \in KeptIds(rows, byKey)
    BY <2>2 DEF KeptIds, ComesFrom
  <2>3. i \notin GoneIds(rows, byKey)
    <3>1. i \in GoneIds(rows, byKey) => was \in Car /\ car = [was EXCEPT !.status = "archived"]
      BY <1>4 DEF ApplyCases
    <3> HIDE DEF car, was
    <3>2. was \in Car => ~Syncable([was EXCEPT !.status = "archived"])
      BY ArchivedFacts
    <3> QED BY <1>7, <3>1, <3>2
  <2>4. CASE car = was
    <3>1. i \in SyncableIds(table)
      BY <1>7, <2>4 DEF SyncableIds, Ids
    <3>2. Key(was) \in DOMAIN byKey /\ byKey[Key(was)] = i
      BY <3>1, ByKeyIsOnto
    <3>3. Key(was) \in DOMAIN rows
      BY <2>3, <3>2 DEF GoneIds
    <3> QED BY <3>2, <3>3 DEF ComesFrom
  <2>5. (\E q \in DOMAIN place : place[q] = i) \/ i \in KeptIds(rows, byKey)
           \/ i \in GoneIds(rows, byKey) \/ car = was
    BY <1>4 DEF ApplyCases
  <2> QED BY <2>1, <2>2, <2>3, <2>4, <2>5
<1>8. \A q \in DOMAIN rows : ComesFrom(i, q, byKey, place) =>
         /\ car # NoCar /\ Syncable(car) /\ Key(car) = q
         /\ \A c \in AppliedColumns : rows[q].cols[c] # None =>
                Norm(car.cols[c]) = Norm(rows[q].cols[c])
  BY <1>5, <1>6 DEF ComesFrom
<1> HIDE DEF rows, car
<1>9. /\ car # NoCar /\ Syncable(car) =>
            /\ Key(car) \in DOMAIN rows /\ ComesFrom(i, Key(car), byKey, place)
            /\ \A c \in AppliedColumns : rows[Key(car)].cols[c] # None =>
                   Norm(car.cols[c]) = Norm(rows[Key(car)].cols[c])
      /\ \A q \in DOMAIN rows : ComesFrom(i, q, byKey, place) =>
            car # NoCar /\ Syncable(car) /\ Key(car) = q
  BY <1>7, <1>8
<1> QED BY <1>9 DEF rows, car

LEMMA MirrorTable ==
    ASSUME NEW f \in File, NEW table \in Table, KeysUnique(table),
           NEW byKey \in ByKey(SyncView(table)),
           NEW place \in Injection(Fresh(Rows(f), byKey), CarId \ Ids(table)),
           \A i \in CarId : ApplyCases(table, SyncView(table), Rows(f), byKey, place, i)
    PROVE  Mirrors(AppliedTable(table, SyncView(table), Rows(f), byKey, place), Rows(f))
<1> DEFINE rows == Rows(f)
           new == AppliedTable(table, SyncView(table), rows, byKey, place)
<1>1. \A i \in CarId :
         /\ new[i] # NoCar /\ Syncable(new[i]) =>
               /\ Key(new[i]) \in DOMAIN rows /\ ComesFrom(i, Key(new[i]), byKey, place)
               /\ \A c \in AppliedColumns : rows[Key(new[i])].cols[c] # None =>
                      Norm(new[i].cols[c]) = Norm(rows[Key(new[i])].cols[c])
         /\ \A q \in DOMAIN rows : ComesFrom(i, q, byKey, place) =>
               new[i] # NoCar /\ Syncable(new[i]) /\ Key(new[i]) = q
  BY MirrorRow
<1>2. /\ place \in [Fresh(rows, byKey) -> CarId]
      /\ \A k, q \in DOMAIN place : place[k] = place[q] => k = q
      /\ DOMAIN place = DOMAIN rows \ DOMAIN byKey
  BY DEF Injection, IsInjective, Fresh
<1>3. \A q \in DOMAIN byKey : byKey[q] \in CarId
  BY ByKeyFacts, SyncViewFacts
<1> HIDE DEF new, rows
<1>4. \A q : \A i, j \in CarId : ComesFrom(i, q, byKey, place) /\ ComesFrom(j, q, byKey, place)
         => i = j
  BY <1>2 DEF ComesFrom
<1>5. \A q \in DOMAIN rows : \E i \in CarId : ComesFrom(i, q, byKey, place)
  BY <1>2, <1>3 DEF ComesFrom
<1>6. SyncableIds(new) = {i \in CarId : new[i] # NoCar /\ Syncable(new[i])}
  BY DEF SyncableIds, Ids
<1>7. SyncKeys(new) = DOMAIN rows
  BY <1>1, <1>5, <1>6 DEF SyncKeys
<1>8. KeysUnique(new)
  BY <1>1, <1>4, <1>6 DEF KeysUnique
<1>9. \A i \in SyncableIds(new) : \A c \in AppliedColumns :
         rows[Key(new[i])].cols[c] # None =>
             Norm(new[i].cols[c]) = Norm(rows[Key(new[i])].cols[c])
  BY <1>1, <1>6
<1>10. Mirrors(new, rows)
  BY <1>7, <1>8, <1>9 DEF Mirrors
<1> QED BY <1>10 DEF new, rows

LEMMA CommitMirrors ==
    ASSUME SyncIInv, NEW s \in Session, CommitApply(s), UpToDate(s), KeysUnique(cars)
    PROVE  Mirrors(cars', Rows(payload[s].file))
<1> DEFINE f == payload[s].file
<1>1. f \in File /\ cars \in Table /\ loaded[s] = SyncView(cars)
  BY HeldFile DEF CommitApply, UpToDate
<1>2. PICK byKey \in ByKey(loaded[s]) :
         \E place \in Injection(Fresh(Rows(f), byKey), CarId \ Ids(cars)) :
            ApplyWrites(s, byKey, place)
  BY CommitApplyWrites
<1>3. PICK place \in Injection(Fresh(Rows(f), byKey), CarId \ Ids(cars)) :
         ApplyWrites(s, byKey, place)
  BY <1>2
<1>4. cars' = AppliedTable(cars, SyncView(cars), Rows(f), byKey, place)
  BY <1>1, <1>3 DEF ApplyWrites, Commit
<1> HIDE DEF f
<1>5. byKey \in ByKey(SyncView(cars))
  BY <1>1, <1>2
<1>6. \A i \in CarId : ApplyCases(cars, SyncView(cars), Rows(f), byKey, place, i)
  <2>1. SyncView(cars) \in Table
           /\ \A i \in CarId : SyncView(cars)[i] # NoCar => i \in Ids(cars)
    BY <1>1, SyncViewFacts DEF SyncableIds
  <2> QED BY <1>1, <1>5, <2>1, AppliedCases
<1>7. Mirrors(AppliedTable(cars, SyncView(cars), Rows(f), byKey, place), Rows(f))
  BY <1>1, <1>5, <1>6, MirrorTable
<1> QED BY <1>4, <1>7 DEF f

(* When nothing was committed since it read the cars and no two cars share *)
(* a key, an apply makes the synchronised cars the mirror of its file, for *)
(* any table and any workbook (MirrorAfterApply).                          *)
THEOREM SyncSpecMirrors == SyncSpec => MirrorAfterApply
<1>1. SyncIInv /\ [SyncNext]_vars =>
        [\A s \in Session : Commits(s) /\ UpToDate(s) /\ KeysUnique(cars) =>
            LET rows == Rows(payload[s].file)
            IN /\ SyncKeys(cars') = DOMAIN rows
               /\ KeysUnique(cars')
               /\ \A i \in SyncableIds(cars') :
                     LET row == rows[Key(cars'[i])]
                     IN \A c \in AppliedColumns : row.cols[c] # None =>
                            Norm(cars'[i].cols[c]) = Norm(row.cols[c])]_vars
  BY CommitsIsCommitApply, CommitMirrors DEF Mirrors
<1> QED BY SyncSpecIInv, <1>1, PTL DEF SyncSpec, MirrorAfterApply

-----------------------------------------------------------------------------
(* The same file once more.                                                *)

(* Of a table that mirrors the file nothing is new, gone or changed.       *)
LEMMA MirroredIsKept ==
    ASSUME NEW table \in Table, NEW rows, Mirrors(table, rows),
           NEW byKey \in ByKey(SyncView(table))
    PROVE  /\ Fresh(rows, byKey) = {} /\ GoneIds(rows, byKey) = {}
           /\ \A i \in KeptIds(rows, byKey) :
                 /\ i \in CarId /\ table[i] \in Car /\ SyncView(table)[i] = table[i]
                 /\ ApplyChanges(rows[Key(table[i])], table[i]) = {}
<1>1. /\ SyncView(table) \in Table /\ SyncableIds(SyncView(table)) = SyncableIds(table)
      /\ \A i \in SyncableIds(table) : SyncView(table)[i] = table[i]
  BY SyncViewFacts
<1>2. SyncKeys(SyncView(table)) = SyncKeys(table)
  BY <1>1 DEF SyncKeys
<1>3. DOMAIN byKey = DOMAIN rows
  BY <1>1, <1>2, ByKeyFacts DEF Mirrors
<1>4. ASSUME NEW i \in KeptIds(rows, byKey)
      PROVE  /\ i \in SyncableIds(table) /\ i \in CarId /\ table[i] \in Car
             /\ ApplyChanges(rows[Key(table[i])], table[i]) = {}
  <2>1. i \in SyncableIds(table) /\ i \in CarId /\ table[i] \in Car
    BY <1>1, ByKeyFacts DEF KeptIds
  <2> QED BY <2>1 DEF Mirrors, ApplyChanges
<1> QED BY <1>1, <1>3, <1>4 DEF Fresh, GoneIds

(* Writing no column leaves the car.                                       *)
LEMMA NothingToWrite ==
    ASSUME NEW car \in Car, NEW row, ApplyChanges(row, car) = {}
    PROVE  ApplyRow(car, car, row) = car
<1>1. DOMAIN car.cols = Columns /\ car.cols = [c \in Columns |-> car.cols[c]]
  BY DEF Car, Cells
<1>2. [c \in Columns |-> IF c \in ApplyChanges(row, car) THEN row.cols[c]
                         ELSE car.cols[c]] = car.cols
  BY <1>1
<1>3. ApplyRow(car, car, row) = [car EXCEPT !.cols = car.cols]
  BY <1>2 DEF ApplyRow
<1> QED BY <1>3 DEF Car

LEMMA WrittenChanges ==
    ASSUME NEW car \in Car, NEW row \in Row
    PROVE  ApplyRow(car, car, row).cols # car.cols <=> ApplyChanges(row, car) # {}
<1>1. CASE ApplyChanges(row, car) = {}
  BY <1>1, NothingToWrite
<1>2. ASSUME NEW c \in ApplyChanges(row, car)
      PROVE  ApplyRow(car, car, row).cols # car.cols
  <2>1. c \in Columns /\ row.cols[c] # car.cols[c]
    BY DEF ApplyChanges, AppliedColumns
  <2>2. ApplyRow(car, car, row).cols[c] = row.cols[c]
    BY <2>1, ApplyRowFacts
  <2> QED BY <2>1, <2>2
<1> QED BY <1>1, <1>2

(* What an apply reports and changes when there is nothing to do.          *)
ChangesNothing(s) ==
    /\ cars' = cars /\ audit' = {}
    /\ outcome'[s] = [token |-> payload[s].token,
                      added |-> 0, updated |-> 0, removed |-> 0]

ApplyReports(s, load, rows, byKey, place) ==
    LET did == [token |-> payload[s].token,
                added |-> Cardinality(Fresh(rows, byKey)),
                updated |-> Cardinality(WrittenIds(rows, byKey, load)),
                removed |-> Cardinality(GoneIds(rows, byKey))]
    IN /\ Commit(s, AppliedTable(cars, load, rows, byKey, place),
                 ApplyEntries(load, rows, byKey, place), "committed")
       /\ outcome' = [outcome EXCEPT ![s] = did]
       /\ importLog' = WithRow(importLog, did)

LEMMA MirroredCommit ==
    ASSUME SyncIInv, NEW s \in Session, CommitApply(s), UpToDate(s),
           Mirrors(cars, Rows(payload[s].file))
    PROVE  ChangesNothing(s)
<1> DEFINE rows == Rows(payload[s].file)
           load == loaded[s]
<1>1. cars \in Table /\ load = SyncView(cars) /\ s \in DOMAIN outcome
  BY HeldFile DEF CommitApply, UpToDate, SyncIInv, SyncTypeOK, HeldOK
<1>2. PICK byKey \in ByKey(load) :
         \E place \in Injection(Fresh(rows, byKey), CarId \ Ids(cars)) :
            ApplyReports(s, load, rows, byKey, place)
  BY DEF CommitApply, ApplyReports
<1>3. PICK place \in Injection(Fresh(rows, byKey), CarId \ Ids(cars)) :
         ApplyReports(s, load, rows, byKey, place)
  BY <1>2
<1> HIDE DEF rows, load
<1>4. /\ Fresh(rows, byKey) = {} /\ GoneIds(rows, byKey) = {}
      /\ \A i \in KeptIds(rows, byKey) :
            /\ i \in CarId /\ cars[i] \in Car /\ load[i] = cars[i]
            /\ ApplyChanges(rows[Key(cars[i])], cars[i]) = {}
  BY <1>1, <1>2, MirroredIsKept DEF rows
<1>5. DOMAIN place = {}
  BY <1>4, <1>3 DEF Injection
<1>6. ASSUME NEW i \in CarId
      PROVE  AppliedTable(cars, load, rows, byKey, place)[i] = cars[i]
  <2>1. CASE i \in KeptIds(rows, byKey)
    <3>1. ApplyRow(cars[i], cars[i], rows[Key(cars[i])]) = cars[i]
      BY <1>4, <2>1, NothingToWrite
    <3> QED BY <1>4, <1>5, <2>1, <3>1 DEF AppliedTable
  <2>2. CASE i \notin KeptIds(rows, byKey)
    BY <1>4, <1>5, <2>2 DEF AppliedTable
  <2> QED BY <2>1, <2>2
<1>7. AppliedTable(cars, load, rows, byKey, place) = cars
  <2>1. AppliedTable(cars, load, rows, byKey, place)
           = [i \in CarId |-> AppliedTable(cars, load, rows, byKey, place)[i]]
    BY DEF AppliedTable
  <2>2. cars = [i \in CarId |-> cars[i]]
    BY <1>1 DEF Table
  <2> QED BY <1>6, <2>1, <2>2
<1>8. ApplyEntries(load, rows, byKey, place) = {}
  <2>1. \A i \in KeptIds(rows, byKey) : RowEntries(i, load[i], rows[Key(load[i])]) = {}
    BY <1>4 DEF RowEntries, UpdateEntries
  <2> QED BY <1>4, <1>5, <2>1 DEF ApplyEntries
<1>9. WrittenIds(rows, byKey, load) = {}
  BY <1>4 DEF WrittenIds
<1> QED BY <1>1, <1>4, <1>7, <1>8, <1>9, <1>3, FS_EmptySet
        DEF ApplyReports, Commit, ChangesNothing

(* Applying a file again does nothing: while the table mirrors the file,   *)
(* as it does after an apply of it (SyncSpecMirrors), an apply that no     *)
(* commit overtakes changes no car, logs nothing, counts nothing, and so   *)
(* tells the admins nothing, for any table and any file.                   *)
THEOREM SyncSpecApplyAgain ==
    SyncSpec => [][\A s \in Session :
                      Commits(s) /\ UpToDate(s) /\ Mirrors(cars, Rows(payload[s].file))
                         => ChangesNothing(s)]_vars
<1>1. SyncIInv /\ [SyncNext]_vars =>
        [\A s \in Session :
            Commits(s) /\ UpToDate(s) /\ Mirrors(cars, Rows(payload[s].file))
               => ChangesNothing(s)]_vars
  BY CommitsIsCommitApply, MirroredCommit
<1> QED BY SyncSpecIInv, <1>1, PTL DEF SyncSpec

-----------------------------------------------------------------------------
(* What the preview promised is what the apply does.                       *)

(* The dictionary of the preview is the one of the apply.                  *)
LEMMA PreviewByKey ==
    ASSUME NEW table \in Table, KeysUnique(table),
           NEW byKey \in ByKey(SyncView(table)), NEW shown \in ByKey(table)
    PROVE  shown = byKey
<1>1. /\ SyncView(table) \in Table
      /\ SyncableIds(SyncView(table)) = SyncableIds(table)
      /\ \A j \in SyncableIds(table) : SyncView(table)[j] = table[j]
  BY SyncViewFacts
<1> DEFINE load == SyncView(table)
<1> HIDE DEF load
<1>2. SyncKeys(load) = SyncKeys(table)
  BY <1>1 DEF SyncKeys, load
<1>3. /\ shown \in [SyncKeys(table) -> SyncableIds(table)]
      /\ \A k \in SyncKeys(table) : Key(table[shown[k]]) = k
  BY DEF ByKey
<1>4. /\ byKey \in [SyncKeys(table) -> SyncableIds(table)]
      /\ \A k \in SyncKeys(table) : Key(load[byKey[k]]) = k
  BY <1>1, <1>2 DEF ByKey, load
<1>5. \A k \in SyncKeys(table) : shown[k] = byKey[k]
  BY <1>1, <1>3, <1>4 DEF KeysUnique, load
<1> QED BY <1>3, <1>4, <1>5

(* Without the two enum columns the preview and the apply agree on what    *)
(* has changed, and writing it changes the car.                            *)
LEMMA WrittenIsShown ==
    ASSUME Columns \cap EnumColumns = {}, NEW car \in Car, NEW row \in Row
    PROVE  ApplyRow(car, car, row).cols # car.cols <=> PreviewChanges(row, car) # {}
<1>1. ApplyChanges(row, car) = PreviewChanges(row, car)
  BY DEF ApplyChanges, PreviewChanges, AppliedColumns
<1> QED BY <1>1, WrittenChanges

LEMMA PreviewRow ==
    ASSUME Columns \cap EnumColumns = {},
           NEW f \in File, NEW table \in Table,
           NEW byKey \in ByKey(SyncView(table)),
           NEW place \in Injection(Fresh(Rows(f), byKey), CarId \ Ids(table)),
           NEW i \in Ids(table),
           ApplyCases(table, SyncView(table), Rows(f), byKey, place, i)
    PROVE  LET new == AppliedTable(table, SyncView(table), Rows(f), byKey, place)
           IN /\ new[i].cols # table[i].cols <=>
                    i \in Diff(Rows(f), table, byKey).updated
              /\ new[i].status # table[i].status <=>
                    i \in Diff(Rows(f), table, byKey).removed
<1> DEFINE rows == Rows(f)
           load == SyncView(table)
           new == AppliedTable(table, load, rows, byKey, place)
           kept == KeptIds(rows, byKey)
           gone == GoneIds(rows, byKey)
           diff == Diff(rows, table, byKey)
           was == table[i]
           car == new[i]
<1>1. /\ load \in Table /\ SyncableIds(load) = SyncableIds(table)
      /\ \A j \in SyncableIds(table) : load[j] = table[j]
  BY SyncViewFacts
<1>2. was \in Car /\ i \in CarId
  BY TableFacts DEF Ids
<1>3. /\ \A k \in DOMAIN rows : rows[k] \in Row
      /\ \A q \in DOMAIN byKey :
            byKey[q] \in SyncableIds(table) /\ Key(load[byKey[q]]) = q
  BY <1>1, RowsFacts, ByKeyFacts
<1>4. /\ i \in kept => /\ Key(load[i]) \in DOMAIN rows
                       /\ car = ApplyRow(was, load[i], rows[Key(load[i])])
      /\ i \in gone => car = [was EXCEPT !.status = "archived"]
      /\ i \in kept \/ i \in gone \/ car = was
  BY DEF ApplyCases
<1>5. i \in kept \cup gone => i \in SyncableIds(table) /\ load[i] = was
  BY <1>1, <1>3 DEF KeptIds, GoneIds
<1>6. /\ diff.removed = gone
      /\ i \in diff.updated <=> i \in kept /\ PreviewChanges(rows[Key(was)], was) # {}
  <2>1. diff.removed = gone
    BY DEF Diff, GoneIds
  <2>2. diff.updated = {byKey[k] : k \in {q \in DOMAIN rows \cap DOMAIN byKey :
                            PreviewChanges(rows[q], table[byKey[q]]) # {}}}
    BY DEF Diff
  <2> HIDE DEF diff, rows, load
  <2> QED BY <1>1, <1>3, <2>1, <2>2 DEF KeptIds
<1>7. i \in kept => i \notin gone
  <2> HIDE DEF rows, load
  <2> QED BY <1>3 DEF KeptIds, GoneIds
<1>8. CASE i \in kept
  <2>1. rows[Key(was)] \in Row /\ car = ApplyRow(was, was, rows[Key(was)])
    BY <1>3, <1>4, <1>5, <1>8
  <2> DEFINE row == rows[Key(was)]
  <2> HIDE DEF row, car, was, rows, diff
  <2>2. car = ApplyRow(was, was, row) /\ row \in Row
    BY <2>1 DEF row
  <2>3. ApplyRow(was, was, row).cols # was.cols <=> PreviewChanges(row, was) # {}
    BY <1>2, <2>2, WrittenIsShown
  <2>4. ApplyRow(was, was, row).status = was.status
    BY <1>2, <2>2, ApplyRowFacts
  <2>5. car.cols # was.cols <=> i \in diff.updated
    BY <1>6, <1>8, <2>2, <2>3 DEF row
  <2>6. car.status = was.status /\ i \notin diff.removed
    BY <1>6, <1>7, <1>8, <2>2, <2>4
  <2> QED BY <2>5, <2>6 DEF car, was, rows, diff
<1>9. CASE i \in gone
  <2>1. was.status # "archived"
    BY <1>5, <1>9 DEF SyncableIds, Syncable
  <2>2. car.cols = was.cols /\ car.status = "archived"
    BY <1>2, <1>4, <1>9 DEF Car
  <2> HIDE DEF car, was, rows, diff
  <2>3. (car.cols # was.cols <=> i \in diff.updated)
           /\ (car.status # was.status <=> i \in diff.removed)
    BY <1>6, <1>7, <1>9, <2>1, <2>2
  <2> QED BY <2>3 DEF car, was, rows, diff
<1>10. CASE i \notin kept /\ i \notin gone
  <2> HIDE DEF car, was, rows, diff
  <2>1. (car.cols # was.cols <=> i \in diff.updated)
           /\ (car.status # was.status <=> i \in diff.removed)
    BY <1>4, <1>6, <1>10
  <2> QED BY <2>1 DEF car, was, rows, diff
<1> QED BY <1>8, <1>9, <1>10

Promised(old, new, diff) ==
    /\ {Key(new[i]) : i \in Ids(new) \ Ids(old)} = diff.new
    /\ {i \in Ids(old) : new[i].cols # old[i].cols} = diff.updated
    /\ {i \in Ids(old) : new[i].status # old[i].status} = diff.removed

LEMMA PreviewTable ==
    ASSUME Columns \cap EnumColumns = {},
           NEW f \in File, NEW table \in Table,
           NEW byKey \in ByKey(SyncView(table)),
           NEW place \in Injection(Fresh(Rows(f), byKey), CarId \ Ids(table)),
           \A i \in CarId : ApplyCases(table, SyncView(table), Rows(f), byKey, place, i)
    PROVE  Promised(table, AppliedTable(table, SyncView(table), Rows(f), byKey, place),
                    Diff(Rows(f), table, byKey))
<1> DEFINE rows == Rows(f)
           load == SyncView(table)
           new == AppliedTable(table, load, rows, byKey, place)
           diff == Diff(rows, table, byKey)
<1>1. \A i \in Ids(table) : /\ new[i].cols # table[i].cols <=> i \in diff.updated
                            /\ new[i].status # table[i].status <=> i \in diff.removed
  BY PreviewRow DEF Ids
<1>2. diff.updated \subseteq Ids(table) /\ diff.removed \subseteq Ids(table)
  <2>1. \A k \in DOMAIN byKey : byKey[k] \in Ids(table)
    BY SyncViewFacts, ByKeyFacts DEF SyncableIds
  <2> QED BY <2>1 DEF Diff
<1>3. /\ place \in [Fresh(rows, byKey) -> CarId]
      /\ diff.new = Fresh(rows, byKey)
  BY DEF Injection, Diff, Fresh
<1>4. \A k \in DOMAIN place :
         /\ place[k] \in Ids(new) \ Ids(table)
         /\ Key(new[place[k]]) = k
  <2> SUFFICES ASSUME NEW k \in DOMAIN place
               PROVE  place[k] \in Ids(new) \ Ids(table) /\ Key(new[place[k]]) = k
    OBVIOUS
  <2> DEFINE i == place[k]
  <2>1. i \in CarId
    BY <1>3
  <2>2. i \notin Ids(table) /\ new[i] = InsertedCar(rows[k]) /\ k \in DOMAIN rows
    BY <2>1 DEF ApplyCases
  <2>3. rows[k] \in Row /\ Key(rows[k]) = k
    BY <2>2, RowsFacts
  <2>4. InsertedCar(rows[k]) \in Car /\ Key(InsertedCar(rows[k])) = k
    BY <2>3, InsertedCarFacts
  <2> HIDE DEF new, rows, i
  <2>5. i \in Ids(new) /\ Key(new[i]) = k
    BY <2>1, <2>2, <2>4, NoCarAssumption DEF Ids
  <2> QED BY <2>2, <2>5 DEF i
<1>5. ASSUME NEW i \in Ids(new) \ Ids(table)
      PROVE  \E k \in DOMAIN place : place[k] = i
  <2>1. i \in CarId /\ new[i] # NoCar /\ table[i] = NoCar
    BY DEF Ids
  <2>2. ApplyCases(table, load, rows, byKey, place, i)
    BY <2>1
  <2> QED BY <1>5, <2>1, <2>2 DEF ApplyCases
<1> HIDE DEF new, rows, diff, load
<1>6. {Key(new[i]) : i \in Ids(new) \ Ids(table)} = diff.new
  BY <1>3, <1>4, <1>5
<1>7. Promised(table, new, diff)
  BY <1>1, <1>2, <1>6 DEF Promised
<1> QED BY <1>7 DEF new, rows, diff, load

LEMMA CommitKeepsPromise ==
    ASSUME Columns \cap EnumColumns = {},
           SyncIInv, NEW s \in Session, CommitApply(s), UpToDate(s), KeysUnique(cars),
           NEW shown \in ByKey(cars)
    PROVE  Promised(cars, cars', Diff(Rows(payload[s].file), cars, shown))
<1> DEFINE f == payload[s].file
<1>1. f \in File /\ cars \in Table /\ loaded[s] = SyncView(cars)
  BY HeldFile DEF CommitApply, UpToDate
<1>2. PICK byKey \in ByKey(loaded[s]) :
         \E place \in Injection(Fresh(Rows(f), byKey), CarId \ Ids(cars)) :
            ApplyWrites(s, byKey, place)
  BY CommitApplyWrites
<1>3. PICK place \in Injection(Fresh(Rows(f), byKey), CarId \ Ids(cars)) :
         ApplyWrites(s, byKey, place)
  BY <1>2
<1>4. cars' = AppliedTable(cars, SyncView(cars), Rows(f), byKey, place)
  BY <1>1, <1>3 DEF ApplyWrites, Commit
<1> HIDE DEF f
<1>5. byKey \in ByKey(SyncView(cars))
  BY <1>1, <1>2
<1>6. \A i \in CarId : ApplyCases(cars, SyncView(cars), Rows(f), byKey, place, i)
  <2>1. SyncView(cars) \in Table
           /\ \A i \in CarId : SyncView(cars)[i] # NoCar => i \in Ids(cars)
    BY <1>1, SyncViewFacts DEF SyncableIds
  <2> QED BY <1>1, <1>5, <2>1, AppliedCases
<1>7. Promised(cars, AppliedTable(cars, SyncView(cars), Rows(f), byKey, place),
               Diff(Rows(f), cars, byKey))
  BY <1>1, <1>5, <1>6, PreviewTable
<1>8. shown = byKey
  BY <1>1, <1>5, PreviewByKey
<1> QED BY <1>4, <1>7, <1>8 DEF f

(* On the columns that both stages know, all but the two enum columns of   *)
(* MCExcelSyncGearbox, an apply whose preview is still what build_diff     *)
(* would compute inserts, changes and archives exactly the cars it listed, *)
(* for any table and any workbook (PreviewIsApplied).                      *)
THEOREM SyncSpecPreviewIsApplied ==
    ASSUME Columns \cap EnumColumns = {}
    PROVE  SyncSpec => PreviewIsApplied
<1>1. SyncIInv /\ [SyncNext]_vars =>
        [\A s \in Session :
            LET rows == Rows(payload[s].file)
                diff == payload[s].diff
            IN Commits(s) /\ UpToDate(s) /\ KeysUnique(cars)
                  /\ (\E m \in ByKey(cars) : diff = Diff(rows, cars, m)) =>
                /\ {Key(cars'[i]) : i \in Ids(cars') \ Ids(cars)} = diff.new
                /\ {i \in Ids(cars) : cars'[i].cols # cars[i].cols} = diff.updated
                /\ {i \in Ids(cars) : cars'[i].status # cars[i].status} = diff.removed]_vars
  BY CommitsIsCommitApply, CommitKeepsPromise DEF Promised
<1> QED BY SyncSpecIInv, <1>1, PTL DEF SyncSpec, PreviewIsApplied

-----------------------------------------------------------------------------
(* What the audit log calls the old value of a field.                      *)

LogsOldOf(e, car) == \A f \in DOMAIN e.old : e.old[f] = Get(car, f)

LEMMA UpdateEntriesOld ==
    ASSUME NEW i, NEW car, NEW fields, NEW new,
           NEW e \in UpdateEntries(i, car, fields, new)
    PROVE  e.car = i /\ LogsOldOf(e, car)
<1>1. \/ e = Entry(i, "update", Pairs(car, fields), new)
      \/ e = Entry(i, "price_change", Pairs(car, {"price"}),
                   [f \in {"price"} |-> new[f]])
  BY DEF UpdateEntries
<1> QED BY <1>1 DEF Entry, Pairs, LogsOldOf

LEMMA StatusEntryOld ==
    ASSUME NEW i, NEW action, NEW car, NEW new
    PROVE  /\ StatusEntry(i, action, car, new).car = i
           /\ LogsOldOf(StatusEntry(i, action, car, new), car)
BY DEF StatusEntry, Entry, Pairs, LogsOldOf

LEMMA NoOld ==
    ASSUME NEW i, NEW action, NEW car, NEW other, NEW new
    PROVE  LogsOldOf(Entry(i, action, Pairs(car, {}), new), other)
BY DEF Entry, Pairs, LogsOldOf

(* The cars a session holds are the cars of the table.                     *)
HoldsCurrent(s) == \A i \in CarId : loaded[s][i] # NoCar => loaded[s][i] = cars[i]

LEMMA EditLogsOld ==
    ASSUME NEW s \in Session, Edit(s), HoldsCurrent(s), NEW e \in audit'
    PROVE  LogsOldOf(e, cars[e.car])
<1>1. PICK i \in CarId :
         \/ \E c \in CreatePayloads : CreateCar(s, i, c)
         \/ \E p \in UpdatePayloads : UpdateCar(s, i, p)
         \/ PublishCar(s, i) \/ ArchiveCar(s, i) \/ SoftDeleteCar(s, i)
  BY DEF Edit, Handle, BeginEdit, NotFound, InvalidateAfterEdit, CrashInEdit, NoCommit
<1> DEFINE car == loaded[s][i]
<1>2. ASSUME NEW c \in CreatePayloads, CreateCar(s, i, c)
      PROVE  LogsOldOf(e, cars[e.car])
  <2>1. e = Entry(i, "create", Pairs(c, {}), Pairs(c, Field))
    BY <1>2 DEF CreateCar, Commit
  <2> QED BY <2>1, NoOld
<1>3. ASSUME NEW p \in UpdatePayloads, UpdateCar(s, i, p)
      PROVE  LogsOldOf(e, cars[e.car])
  <2>1. car = cars[i]
    BY <1>3 DEF UpdateCar, HoldsCurrent
  <2>2. \E fields, new : e \in UpdateEntries(i, car, fields, new)
    BY <1>3 DEF UpdateCar, Commit
  <2> HIDE DEF car
  <2> QED BY <2>1, <2>2, UpdateEntriesOld
<1>4. CASE PublishCar(s, i) \/ ArchiveCar(s, i)
  <2>1. car = cars[i]
    BY <1>4 DEF PublishCar, ArchiveCar, HoldsCurrent
  <2>2. \E action, new : e = StatusEntry(i, action, car, new)
    BY <1>4 DEF PublishCar, ArchiveCar, Commit
  <2> HIDE DEF car
  <2> QED BY <2>1, <2>2, StatusEntryOld
<1>5. CASE SoftDeleteCar(s, i)
  <2>1. e = Entry(i, "delete", Pairs(car, {}), Pairs(car, {}))
    BY <1>5 DEF SoftDeleteCar, Commit
  <2> QED BY <2>1, NoOld
<1> QED BY <1>1, <1>2, <1>3, <1>4, <1>5

LEMMA ApplyLogsOld ==
    ASSUME SyncIInv, NEW s \in Session, CommitApply(s), HoldsCurrent(s), NEW e \in audit'
    PROVE  LogsOldOf(e, cars[e.car])
<1>1. PICK load, rows, byKey, place :
         ApplyCommits(s, load, rows, byKey, place) /\ load = loaded[s]
            /\ byKey \in ByKey(load)
  BY CommitApplyCases
<1>2. /\ audit' = ApplyEntries(load, rows, byKey, place)
      /\ load \in Table
  BY <1>1, HeldFile DEF ApplyCommits, CommitApply
<1>3. \A i \in KeptIds(rows, byKey) \cup GoneIds(rows, byKey) : load[i] = cars[i]
  BY <1>1, <1>2, ByKeyFacts, NoCarAssumption DEF KeptIds, GoneIds, HoldsCurrent
<1>4. ASSUME NEW k \in DOMAIN place, e = CreateEntry(place[k], rows[k])
      PROVE  LogsOldOf(e, cars[e.car])
  BY <1>4, NoOld DEF CreateEntry
<1>5. ASSUME NEW i \in KeptIds(rows, byKey), e \in RowEntries(i, load[i], rows[Key(load[i])])
      PROVE  LogsOldOf(e, cars[e.car])
  <2>1. \E fields, new : e \in UpdateEntries(i, load[i], fields, new)
    BY <1>5 DEF RowEntries
  <2> QED BY <1>3, <2>1, UpdateEntriesOld
<1>6. ASSUME NEW i \in GoneIds(rows, byKey),
             e = StatusEntry(i, "archive", load[i], "archived")
      PROVE  LogsOldOf(e, cars[e.car])
  BY <1>3, <1>6, StatusEntryOld
<1> QED BY <1>2, <1>4, <1>5, <1>6 DEF ApplyEntries

(* A session loads what is in the table, and forgets it at its commit.     *)
LEMMA HoldsCurrentKept ==
    ASSUME \A a, b \in Session : a = b, SyncIInv, [SyncNext]_vars,
           \A s \in Session : HoldsCurrent(s)
    PROVE  \A s \in Session : HoldsCurrent(s)'
<1> SUFFICES ASSUME NEW s \in Session
             PROVE  HoldsCurrent(s)'
  OBVIOUS
<1>0. /\ loaded \in [Session -> Table] /\ \A i \in CarId : Nothing[i] = NoCar
      /\ \A a \in Session : a = s
  BY DEF SyncIInv, IInv, TableOK, Nothing
<1>1. CASE NoCommit /\ (loaded' = loaded \/ Forget(s))
  BY <1>0, <1>1 DEF HoldsCurrent, NoCommit, Forget
<1>2. CASE \E table, entries, label : Commit(s, table, entries, label)
  BY <1>0, <1>2 DEF HoldsCurrent, Commit, Forget
<1>3. CASE \E i \in CarId : BeginEdit(s, i)
  BY <1>0, <1>3 DEF HoldsCurrent, BeginEdit, NoCommit, Nothing
<1>4. CASE LoadExisting(s)
  BY <1>0, <1>4, SyncViewFacts DEF HoldsCurrent, LoadExisting, NoCommit, SyncView
<1>5. CASE UNCHANGED vars
  BY <1>5 DEF vars, carVars, HoldsCurrent
<1>6. ASSUME Edit(s)
      PROVE  HoldsCurrent(s)'
  <2>1. CASE \E i \in CarId : NotFound(s, i)
    BY <1>1, <2>1 DEF NotFound
  <2>2. CASE InvalidateAfterEdit(s) \/ CrashInEdit(s)
    BY <1>1, <2>2 DEF InvalidateAfterEdit, CrashInEdit
  <2>3. ASSUME NEW i \in CarId,
               \/ \E c \in CreatePayloads : CreateCar(s, i, c)
               \/ \E p \in UpdatePayloads : UpdateCar(s, i, p)
               \/ PublishCar(s, i) \/ ArchiveCar(s, i) \/ SoftDeleteCar(s, i)
        PROVE  HoldsCurrent(s)'
    BY <1>2, <2>3 DEF CreateCar, UpdateCar, PublishCar, ArchiveCar, SoftDeleteCar
  <2> QED BY <1>3, <1>6, <2>1, <2>2, <2>3 DEF Edit, Handle
<1>7. ASSUME Apply(s)
      PROVE  HoldsCurrent(s)'
  <2>1. CASE CommitApply(s)
    BY <1>2, <2>1, CommitApplyWrites DEF ApplyWrites
  <2>2. CASE ~CommitApply(s) /\ ~LoadExisting(s)
    BY <1>1, <1>7, <2>2
       DEF Apply, Finish, BeginApply, UnknownToken, FailApply, ClearDiff,
           InvalidateAfterApply, NotifyAdded, NotifyRemoved
  <2> QED BY <1>4, <2>1, <2>2
<1>8. CASE \E t \in Token : ExpireToken(t) \/ \E f \in File : Upload(t, f)
  BY <1>1, <1>8 DEF ExpireToken, Upload
<1> QED BY <1>0, <1>5, <1>6, <1>7, <1>8 DEF SyncNext

(* Requests that do not overlap write one history: what an audit entry     *)
(* calls the old value is the value its commit replaced, in an edit        *)
(* (admin/cars.py) as in an apply, so the entries of a car can be chained. *)
(* The assumption is the scenario of the run: of two overlapping edits of  *)
(* a car the second logs what it had loaded before the first.              *)
THEOREM SyncSpecOldValue ==
    ASSUME \A a, b \in Session : a = b
    PROVE  SyncSpec => OldValueIsReplaced
<1> DEFINE AllCurrent == \A s \in Session : HoldsCurrent(s)
<1>1. SyncInit => AllCurrent
  BY DEF SyncInit, Init, Nothing, HoldsCurrent
<1>2. SyncIInv /\ AllCurrent /\ [SyncNext]_vars => AllCurrent'
  BY HoldsCurrentKept
<1>3. SyncIInv /\ AllCurrent /\ [SyncNext]_vars =>
        [cars' # cars =>
            \A e \in audit' : \A f \in DOMAIN e.old :
                e.old[f] = Get(cars[e.car], f)]_carVars
  <2> SUFFICES ASSUME SyncIInv, AllCurrent, SyncNext, cars' # cars, NEW e \in audit'
               PROVE  LogsOldOf(e, cars[e.car])
    BY DEF LogsOldOf, vars
  <2>1. CASE NoCommit
    BY <2>1 DEF NoCommit
  <2>2. ASSUME NEW s \in Session, Edit(s)
        PROVE  LogsOldOf(e, cars[e.car])
    BY <2>2, EditLogsOld
  <2>3. ASSUME NEW s \in Session, CommitApply(s)
        PROVE  LogsOldOf(e, cars[e.car])
    BY <2>3, ApplyLogsOld
  <2> QED BY <2>1, <2>2, <2>3
          DEF SyncNext, Upload, ExpireToken, Apply, Finish, BeginApply,
              UnknownToken, LoadExisting, FailApply, ClearDiff,
              InvalidateAfterApply, NotifyAdded, NotifyRemoved
<1> HIDE DEF AllCurrent
<1> QED BY SyncSpecIInv, <1>1, <1>2, <1>3, PTL DEF SyncSpec, OldValueIsReplaced

-----------------------------------------------------------------------------
(* For one who works alone an apply is a single step.                      *)

Alone == \A a, b \in Session : a = b
AllOffered == [t \in Token |-> OfferedFile(t)]
AllSent == sent \cup UNION {Ahead(s) : s \in Session}

OfferedIs(s, t) ==
    OfferedFile(t) =
        IF pc[s] \in {"diffLoaded", "applying"} /\ payload[s].token = t
        THEN payload[s].file
        ELSE IF (pc[s] = "committed" /\ payload[s].token = t) \/ staged[t] = None
        THEN None ELSE staged[t].file

LEMMA OfferedAlone ==
    ASSUME Alone, NEW s \in Session, NEW t
    PROVE  OfferedIs(s, t) /\ OfferedIs(s, t)'
<1>1. OfferedIs(s, t)
  <2>1. /\ Holding(t) \in {{}, {s}} /\ Clearing(t) \in {{}, {s}}
        /\ Holding(t) # {} <=> pc[s] \in {"diffLoaded", "applying"} /\ payload[s].token = t
        /\ Clearing(t) # {} <=> pc[s] = "committed" /\ payload[s].token = t
    BY DEF Alone, Holding, Clearing
  <2>2. OneOf({s}) = s
    BY DEF OneOf
  <2> QED BY <2>1, <2>2 DEF OfferedIs, OfferedFile
<1>2. OfferedIs(s, t)'
  <2>1. /\ Holding(t)' \in {{}, {s}} /\ Clearing(t)' \in {{}, {s}}
        /\ Holding(t)' # {} <=> pc'[s] \in {"diffLoaded", "applying"} /\ payload'[s].token = t
        /\ Clearing(t)' # {} <=> pc'[s] = "committed" /\ payload'[s].token = t
    BY DEF Alone, Holding, Clearing
  <2>2. OneOf({s}) = s
    BY DEF OneOf
  <2> QED BY <2>1, <2>2 DEF OfferedIs, OfferedFile
<1> QED BY <1>1, <1>2

LEMMA SentAlone ==
    ASSUME Alone, NEW s \in Session
    PROVE  AllSent = sent \cup Ahead(s) /\ AllSent' = sent' \cup Ahead(s)'
<1>1. {a \in Session : TRUE} = {s}
  BY DEF Alone
<1>2. Session = {s}
  BY <1>1
<1> QED BY <1>2 DEF AllSent

(* What a request holds before it commits is what Redis holds, if it still *)
(* does, and what is in the table.                                         *)
HoldsTruth(s) ==
    /\ pc[s] = "applying" => UpToDate(s)
    /\ pc[s] \in {"diffLoaded", "applying"} /\ staged[payload[s].token] # None =>
          staged[payload[s].token].file = payload[s].file

LEMMA EditPlaces ==
    ASSUME SyncIInv, NEW s \in Session, Edit(s)
    PROVE  pc'[s] \notin ApplyPC /\ pc[s] \notin ApplyPC
<1>1. DOMAIN pc = Session
  BY DEF SyncIInv, SyncTypeOK
<1> QED BY <1>1
        DEF Edit, Handle, BeginEdit, NotFound, CreateCar, UpdateCar, PublishCar,
            ArchiveCar, SoftDeleteCar, InvalidateAfterEdit, CrashInEdit, Commit, Goto,
            EditPC, ApplyPC

LEMMA HoldsTruthKept ==
    ASSUME Alone, SyncIInv, [SyncNext]_vars, NEW s \in Session, HoldsTruth(s)
    PROVE  HoldsTruth(s)'
<1>1. /\ DOMAIN pc = Session /\ DOMAIN payload = Session /\ DOMAIN loaded = Session
      /\ DOMAIN staged = Token /\ issued \subseteq Token /\ \A a \in Session : a = s
      /\ pc[s] \in ApplyPC => payload[s].token \in issued
  BY DEF SyncIInv, SyncTypeOK, IInv, TableOK, StagedOK, HeldOK, Alone
<1>2. CASE UNCHANGED <<pc, payload, loaded, cars>>
              /\ \A t \in issued : staged'[t] \in {staged[t], None}
  BY <1>1, <1>2 DEF HoldsTruth, UpToDate, ApplyPC
<1>3. CASE pc'[s] \notin {"diffLoaded", "applying"}
  BY <1>3 DEF HoldsTruth
<1>4. ASSUME NEW t \in Token, BeginApply(s, t)
      PROVE  HoldsTruth(s)'
  BY <1>1, <1>4 DEF BeginApply, Goto, HoldsTruth
<1>5. ASSUME LoadExisting(s)
      PROVE  HoldsTruth(s)'
  BY <1>1, <1>5 DEF LoadExisting, Goto, NoCommit, HoldsTruth, UpToDate, syncVars
<1>6. ASSUME \E t \in Token : ExpireToken(t) \/ \E f \in File : Upload(t, f)
      PROVE  HoldsTruth(s)'
  BY <1>1, <1>2, <1>6 DEF ExpireToken, Upload, NoCommit
<1>7. ASSUME Edit(s)
      PROVE  HoldsTruth(s)'
  BY <1>3, <1>7, EditPlaces DEF ApplyPC
<1>8. ASSUME \/ \E t \in Token : UnknownToken(s, t)
             \/ CommitApply(s) \/ FailApply(s) \/ Finish(s)
      PROVE  HoldsTruth(s)'
  BY <1>1, <1>3, <1>8
     DEF UnknownToken, CommitApply, Commit, FailApply, Finish, ClearDiff,
         InvalidateAfterApply, NotifyAdded, NotifyRemoved, Goto
<1> QED BY <1>1, <1>2, <1>4, <1>5, <1>6, <1>7, <1>8
        DEF SyncNext, Apply, vars, carVars, syncVars

LEMMA AtomicStutters ==
    ASSUME UNCHANGED <<cars, issued, importLog>>, AllOffered' = AllOffered,
           AllSent' = AllSent
    PROVE  UNCHANGED Atomic!syncVars
BY DEF Atomic!syncVars, AllOffered, AllSent

LEMMA FoldedTyped == ASSUME NEW n \in Name PROVE Folded(n) \in Name
BY FoldAssumption DEF Name, Folded, NamePart

LEMMA DiffTyped ==
    ASSUME NEW f \in File, NEW table \in Table, NEW byKey \in ByKey(table)
    PROVE  [file |-> f, diff |-> Diff(Rows(f), table, byKey)] \in Stash
<1> DEFINE rows == Rows(f)
<1>1. \A k \in DOMAIN rows : k \in Keys
  <2> SUFFICES ASSUME NEW k \in DOMAIN rows
               PROVE  k \in Keys
    OBVIOUS
  <2>1. rows[k] \in Row /\ Key(rows[k]) = k
    BY RowsFacts
  <2> HIDE DEF rows
  <2>2. rows[k].name \in Name /\ Folded(rows[k].name) \in Name
    BY <2>1, FoldedTyped DEF Row
  <2> QED BY <2>1, <2>2 DEF Row, Key, Keys
<1>2. \A k \in DOMAIN byKey : byKey[k] \in CarId
  BY ByKeyFacts
<1> HIDE DEF rows
<1> QED BY <1>1, <1>2 DEF Diff, Stash, rows

(* An upload offers its file; a TTL that runs out withdraws it, unless a   *)
(* request has the token in its hands or has used it up.                   *)
LEMMA UploadOffers ==
    ASSUME SyncIInv, NEW t \in Token, NEW f \in File, Upload(t, f)
    PROVE  Atomic!Offer(t, f)
<1>1. /\ DOMAIN staged = Token /\ \A s \in Session : pc[s] \in ApplyPC => payload[s].token \in issued
  BY DEF SyncIInv, SyncTypeOK, StagedOK, HeldOK
<1>2. /\ t \notin issued /\ issued' = issued \cup {t}
      /\ UNCHANGED <<cars, importLog, sent, pc, payload, outcome>>
  BY DEF Upload, NoCommit
<1>3. AllSent' = AllSent
  BY <1>2 DEF AllSent, Ahead
<1>4. staged'[t] # None /\ staged'[t].file = f /\ \A u \in Token \ {t} : staged'[u] = staged[u]
  <2>1. PICK byKey \in ByKey(cars) :
           staged' = [staged EXCEPT ![t] = [file |-> f, diff |-> Diff(Rows(f), cars, byKey)]]
    BY DEF Upload
  <2>2. [file |-> f, diff |-> Diff(Rows(f), cars, byKey)] # None
    BY DiffTyped, NoneAssumption DEF SyncIInv, IInv, TableOK
  <2> QED BY <1>1, <2>1, <2>2
<1>5. \A u : Holding(u)' = Holding(u) /\ Clearing(u)' = Clearing(u)
  BY <1>2 DEF Holding, Clearing
<1>6. Holding(t) = {} /\ Clearing(t) = {}
  BY <1>1, <1>2 DEF Holding, Clearing, ApplyPC
<1>7. OfferedFile(t)' = f /\ \A u \in Token \ {t} : OfferedFile(u)' = OfferedFile(u)
  BY <1>2, <1>4, <1>5, <1>6 DEF OfferedFile
<1>8. AllOffered' = [AllOffered EXCEPT ![t] = f]
  BY <1>7 DEF AllOffered
<1> QED BY <1>2, <1>3, <1>8 DEF Atomic!Offer, AllOffered, AllSent

LEMMA ExpireWithdraws ==
    ASSUME SyncIInv, NEW t \in Token, ExpireToken(t)
    PROVE  Atomic!Withdraw(t) \/ UNCHANGED Atomic!syncVars
<1>1. DOMAIN staged = Token
  BY DEF SyncIInv, SyncTypeOK, StagedOK
<1>2. UNCHANGED <<cars, issued, importLog, sent, pc, payload, outcome>>
  BY DEF ExpireToken, NoCommit
<1>3. AllSent' = AllSent
  BY <1>2 DEF AllSent, Ahead
<1>4. staged'[t] = None /\ \A u \in Token \ {t} : staged'[u] = staged[u]
  BY <1>1 DEF ExpireToken
<1>5. \A u : Holding(u)' = Holding(u) /\ Clearing(u)' = Clearing(u)
  BY <1>2 DEF Holding, Clearing
<1>6. /\ OfferedFile(t)' \in {OfferedFile(t), None}
      /\ \A u \in Token \ {t} : OfferedFile(u)' = OfferedFile(u)
  BY <1>2, <1>4, <1>5 DEF OfferedFile
<1>7. AllOffered' = AllOffered \/ AllOffered' = [AllOffered EXCEPT ![t] = None]
  BY <1>6 DEF AllOffered
<1>8. CASE AllOffered' = AllOffered
  BY <1>2, <1>3, <1>8, AtomicStutters
<1>9. CASE AllOffered' = [AllOffered EXCEPT ![t] = None]
  BY <1>2, <1>3, <1>9 DEF Atomic!Withdraw, AllOffered, AllSent
<1> QED BY <1>7, <1>8, <1>9

(* An edit is an edit of one car.                                          *)
LEMMA EditOfOne ==
    ASSUME IInv, NEW s \in Session, Edit(s)
    PROVE  \/ cars' = cars
           \/ \E i \in CarId : cars'[i] \in Car /\ cars' = [cars EXCEPT ![i] = cars'[i]]
<1>1. cars \in Table
  BY DEF IInv, TableOK
<1>2. ASSUME NEW i \in CarId, NEW car \in Car, cars' = [cars EXCEPT ![i] = car]
      PROVE  cars'[i] \in Car /\ cars' = [cars EXCEPT ![i] = cars'[i]]
  BY <1>1, <1>2 DEF Table
<1>3. CASE NoCommit
  BY <1>3 DEF NoCommit
<1>4. ASSUME NEW i \in CarId, NEW c \in CreatePayloads, CreateCar(s, i, c)
      PROVE  cars'[i] \in Car /\ cars' = [cars EXCEPT ![i] = cars'[i]]
  BY <1>2, <1>4, PayloadAssumption DEF CreateCar, Commit
<1>5. ASSUME NEW i \in CarId, NEW p \in UpdatePayloads, UpdateCar(s, i, p)
      PROVE  cars'[i] \in Car /\ cars' = [cars EXCEPT ![i] = cars'[i]]
  <2>1. loaded[s][i] \in Car /\ cars[i] \in Car /\ p \in Payload
    BY <1>5, LoadedCar, PayloadAssumption DEF UpdateCar
  <2>2. cars' = [cars EXCEPT ![i] = SetFields(cars[i], p, Changed(loaded[s][i], p))]
    BY <1>1, <1>5 DEF UpdateCar, Commit, Table
  <2> QED BY <1>2, <2>1, <2>2, SetFieldsType
<1>6. ASSUME NEW i \in CarId, PublishCar(s, i) \/ ArchiveCar(s, i)
      PROVE  cars'[i] \in Car /\ cars' = [cars EXCEPT ![i] = cars'[i]]
  <2>1. loaded[s][i] \in Car /\ cars[i] \in Car
    BY <1>6, LoadedCar DEF PublishCar, ArchiveCar
  <2>2. \E new \in Status : cars' = [cars EXCEPT ![i] = SetStatus(cars[i], loaded[s][i], new)]
    BY <1>1, <1>6 DEF PublishCar, ArchiveCar, Commit, Table, Status
  <2> QED BY <1>2, <2>1, <2>2, SetStatusType
<1>7. ASSUME NEW i \in CarId, SoftDeleteCar(s, i)
      PROVE  cars'[i] \in Car /\ cars' = [cars EXCEPT ![i] = cars'[i]]
  <2>1. cars[i] \in Car
    BY <1>7, LoadedCar DEF SoftDeleteCar
  <2>2. cars' = [cars EXCEPT ![i] = [cars[i] EXCEPT !.deleted = TRUE]]
    BY <1>1, <1>7 DEF SoftDeleteCar, Commit, Table
  <2>3. [cars[i] EXCEPT !.deleted = TRUE] \in Car
    BY <2>1 DEF Car
  <2> QED BY <1>2, <2>2, <2>3
<1> QED BY <1>3, <1>4, <1>5, <1>6, <1>7
        DEF Edit, Handle, BeginEdit, NotFound, InvalidateAfterEdit, CrashInEdit

LEMMA EditIsEdit ==
    ASSUME SyncIInv, Alone, NEW s \in Session, Edit(s), UNCHANGED syncVars
    PROVE  (\E i \in CarId : Atomic!Edit(i)) \/ UNCHANGED Atomic!syncVars
<1>1. /\ pc'[s] \notin ApplyPC /\ pc[s] \notin ApplyPC
      /\ UNCHANGED <<staged, issued, payload, outcome, importLog, sent>>
  BY EditPlaces DEF syncVars
<1>2. AllSent' = AllSent
  BY <1>1, SentAlone DEF Ahead, ApplyPC
<1>3. \A t \in Token : OfferedFile(t)' = OfferedFile(t)
  BY <1>1, OfferedAlone DEF OfferedIs, ApplyPC
<1>4. AllOffered' = AllOffered
  BY <1>3 DEF AllOffered
<1>5. CASE cars' = cars
  BY <1>1, <1>2, <1>4, <1>5, AtomicStutters
<1>6. ASSUME NEW i \in CarId, cars'[i] \in Car, cars' = [cars EXCEPT ![i] = cars'[i]]
      PROVE  Atomic!Edit(i)
  <2>1. cars \in Table /\ EidsUnique(cars)'
    BY EditIInv DEF SyncIInv, IInv, TableOK, EidUnique
  <2>2. \A j \in Ids(cars) \ {i} : /\ j \in Ids(cars)' /\ cars'[j] = cars[j]
                                  /\ i \in Ids(cars)'
    BY <1>6, <2>1, NoCarAssumption DEF Ids, Table
  <2>3. \A j \in Ids(cars) \ {i} : cars'[i].eid # None => cars[j].eid # cars'[i].eid
    BY <2>1, <2>2 DEF EidsUnique
  <2>4. Atomic!Ids(cars) = Ids(cars) /\ Atomic!Car = Car
    BY DEF Atomic!Ids, Ids, Atomic!Car, Car, Atomic!Cells, Cells, Atomic!Status, Status,
           Atomic!Source, Source, Atomic!Name, Name, Atomic!NamePart, NamePart
  <2> QED BY <1>1, <1>2, <1>4, <1>6, <2>3, <2>4 DEF Atomic!Edit, AllOffered, AllSent
<1> QED BY <1>5, <1>6, EditOfOne DEF SyncIInv

(* What an apply does before and after its commit is not seen, but that a  *)
(* token whose time has run out is gone when its apply fails.              *)
LEMMA ApplyUnseen ==
    ASSUME SyncIInv, Alone, ~MayCrash, NEW s \in Session, HoldsTruth(s),
           Apply(s), ~CommitApply(s)
    PROVE  (\E t \in Token : Atomic!Withdraw(t)) \/ UNCHANGED Atomic!syncVars
<1>1. /\ DOMAIN pc = Session /\ DOMAIN payload = Session /\ DOMAIN outcome = Session
      /\ DOMAIN staged = Token /\ issued \subseteq Token
      /\ pc[s] \in ApplyPC => payload[s].token \in issued
  BY DEF SyncIInv, SyncTypeOK, StagedOK, HeldOK
<1>2. UNCHANGED <<cars, issued, importLog>>
  BY DEF Apply, BeginApply, UnknownToken, LoadExisting, FailApply, Finish, ClearDiff,
         InvalidateAfterApply, NotifyAdded, NotifyRemoved, NoCommit, syncVars
<1>3. AllSent' = AllSent
  <2>1. CASE (sent \cup Ahead(s))' = sent \cup Ahead(s)
    BY <2>1, SentAlone
  <2>2. CASE \/ \E t \in Token : BeginApply(s, t) \/ UnknownToken(s, t)
             \/ LoadExisting(s) \/ FailApply(s) \/ ClearDiff(s) \/ InvalidateAfterApply(s)
    <3>1. /\ sent' = sent
          /\ \/ pc' = pc /\ outcome' = outcome
             \/ pc[s] \in {"idle", "diffLoaded", "applying"}
                   /\ pc'[s] \in {"idle", "diffLoaded", "applying"}
             \/ /\ pc[s] \in {"committed", "cleared"} /\ outcome' = outcome
                /\ pc'[s] \in {"cleared", "invalidated"}
      BY <1>1, <2>2
         DEF BeginApply, UnknownToken, LoadExisting, FailApply, Rejected, ClearDiff,
             InvalidateAfterApply, Goto, syncVars
    <3> QED BY <2>1, <3>1 DEF Ahead
  <2>3. CASE NotifyAdded(s)
    <3>1. /\ pc[s] = "invalidated" /\ pc'[s] = "notifying" /\ outcome' = outcome
          /\ sent' = IF outcome[s].added > 0 THEN sent \cup {<<"added", outcome[s]>>} ELSE sent
      BY <1>1, <2>3 DEF NotifyAdded, Notify, Goto
    <3> QED BY <2>1, <3>1 DEF Ahead
  <2>4. CASE NotifyRemoved(s)
    <3>1. /\ pc[s] = "notifying" /\ pc'[s] = "idle"
          /\ sent' = IF outcome[s].removed > 0 THEN sent \cup {<<"removed", outcome[s]>>} ELSE sent
      BY <1>1, <2>4 DEF NotifyRemoved, Notify, Goto
    <3> QED BY <2>1, <3>1 DEF Ahead
  <2> QED BY <2>2, <2>3, <2>4 DEF Apply, Finish
<1>4. ASSUME NEW t \in Token, ~FailApply(s)
      PROVE  OfferedFile(t)' = OfferedFile(t)
  <2>1. OfferedIs(s, t) /\ OfferedIs(s, t)'
    BY OfferedAlone
  <2>2. ASSUME NEW u \in Token, BeginApply(s, u)
        PROVE  OfferedFile(t)' = OfferedFile(t)
    <3>1. /\ pc[s] = "idle" /\ pc'[s] = "diffLoaded" /\ staged' = staged /\ staged[u] # None
          /\ payload'[s].token = u /\ payload'[s].file = staged[u].file
      BY <1>1, <2>2 DEF BeginApply, Goto
    <3> QED BY <2>1, <3>1 DEF OfferedIs
  <2>3. CASE \E u \in Token : UnknownToken(s, u)
    BY <2>1, <2>3 DEF UnknownToken, OfferedIs, syncVars
  <2>4. CASE LoadExisting(s)
    <3>1. /\ pc[s] = "diffLoaded" /\ pc'[s] = "applying"
          /\ staged' = staged /\ payload' = payload
      BY <1>1, <2>4 DEF LoadExisting, Goto, syncVars
    <3> QED BY <2>1, <3>1 DEF OfferedIs
  <2>5. CASE ClearDiff(s)
    <3>1. /\ pc[s] = "committed" /\ pc'[s] = "cleared" /\ payload' = payload
          /\ staged' = [staged EXCEPT ![payload[s].token] = None]
      BY <1>1, <2>5 DEF ClearDiff, Goto
    <3> QED BY <1>1, <2>1, <3>1 DEF OfferedIs
  <2>6. CASE InvalidateAfterApply(s) \/ NotifyAdded(s) \/ NotifyRemoved(s)
    <3>1. /\ pc[s] \in {"cleared", "invalidated", "notifying"} /\ staged' = staged
          /\ pc'[s] \in {"invalidated", "notifying", "idle"}
      BY <1>1, <2>6 DEF InvalidateAfterApply, NotifyAdded, NotifyRemoved, Goto, syncVars
    <3> QED BY <2>1, <3>1 DEF OfferedIs
  <2> QED BY <1>4, <2>2, <2>3, <2>4, <2>5, <2>6 DEF Apply, Finish
<1>5. CASE ~FailApply(s)
  <2>1. AllOffered' = AllOffered
    BY <1>4, <1>5 DEF AllOffered
  <2> QED BY <1>2, <1>3, <2>1, AtomicStutters
<1>6. CASE FailApply(s)
  <2>1. pc[s] = "applying" /\ pc'[s] = "idle" /\ staged' = staged
    BY <1>1, <1>6 DEF FailApply, Rejected, Goto
  <2>2. PICK t \in Token : t = payload[s].token
    BY <1>1, <2>1 DEF ApplyPC
  <2>3. staged[t] # None => staged[t].file = payload[s].file
    BY <2>1, <2>2 DEF HoldsTruth
  <2>4. /\ OfferedFile(t)' \in {OfferedFile(t), None}
        /\ \A u \in Token \ {t} : OfferedFile(u)' = OfferedFile(u)
    <3>1. \A u \in Token : OfferedIs(s, u) /\ OfferedIs(s, u)'
      BY OfferedAlone
    <3> QED BY <2>1, <2>2, <2>3, <3>1 DEF OfferedIs
  <2>5. AllOffered' = AllOffered \/ AllOffered' = [AllOffered EXCEPT ![t] = None]
    BY <2>4 DEF AllOffered
  <2>6. CASE AllOffered' = AllOffered
    BY <1>2, <1>3, <2>6, AtomicStutters
  <2>7. CASE AllOffered' = [AllOffered EXCEPT ![t] = None]
    BY <1>2, <1>3, <2>2, <2>7 DEF Atomic!Withdraw, AllOffered, AllSent
  <2> QED BY <2>5, <2>6, <2>7
<1> QED BY <1>5, <1>6

(* The pure rules of the promise are the ones of the code.                 *)
LEMMA AtomicRules ==
    /\ Atomic!AppliedColumns = AppliedColumns /\ \A v : Atomic!Norm(v) = Norm(v)
    /\ \A table : /\ Atomic!Ids(table) = Ids(table)
                 /\ Atomic!ByKey(table) = ByKey(table)
    /\ \A S, T : Atomic!Bijection(S, T) = Bijection(S, T)
    /\ \A S : Atomic!Cardinality(S) = Cardinality(S)
<1>1. /\ Atomic!AppliedColumns = AppliedColumns /\ \A v : Atomic!Norm(v) = Norm(v)
      /\ \A table : Atomic!Ids(table) = Ids(table)
      /\ \A r : Atomic!Key(r) = Key(r) /\ Atomic!Syncable(r) = Syncable(r)
  BY DEF Atomic!AppliedColumns, AppliedColumns, Atomic!EnumColumns, EnumColumns,
         Atomic!Norm, Norm, Atomic!Ids, Ids, Atomic!Key, Key, Atomic!Folded, Folded,
         Atomic!NamePart, NamePart, Atomic!Syncable, Syncable
<1>2. \A table : Atomic!SyncableIds(table) = SyncableIds(table)
  BY <1>1 DEF Atomic!SyncableIds, SyncableIds
<1>3. \A table : Atomic!SyncKeys(table) = SyncKeys(table)
  BY <1>1, <1>2 DEF Atomic!SyncKeys, SyncKeys
<1>4. \A table : Atomic!ByKey(table) = ByKey(table)
  BY <1>1, <1>2, <1>3 DEF Atomic!ByKey, ByKey
<1>5. \A S, T : Atomic!Bijection(S, T) = Bijection(S, T)
  BY DEF Atomic!Bijection, Bijection, Atomic!Injection, Injection,
         Atomic!Surjection, Surjection, Atomic!IsInjective, IsInjective
<1>6. \A S : Atomic!Cardinality(S) = Cardinality(S)
  BY DEF Atomic!Cardinality, Cardinality
<1> QED BY <1>1, <1>4, <1>5, <1>6

(* The cars as loaded have the dictionaries that the table has.            *)
LEMMA SameDictionaries ==
    ASSUME NEW table \in Table
    PROVE  ByKey(SyncView(table)) \subseteq ByKey(table)
<1>1. /\ SyncableIds(SyncView(table)) = SyncableIds(table)
      /\ \A j \in SyncableIds(table) : SyncView(table)[j] = table[j]
  BY SyncViewFacts
<1>2. SyncKeys(SyncView(table)) = SyncKeys(table)
  BY <1>1 DEF SyncKeys
<1> QED BY <1>1, <1>2 DEF ByKey

LEMMA RowIsRefreshed ==
    ASSUME NEW car \in Car, NEW row \in Row
    PROVE  Atomic!Refreshed(car, ApplyRow(car, car, row), row)
<1> DEFINE new == ApplyRow(car, car, row)
<1>1. /\ new \in Car
      /\ \A c \in Columns : new.cols[c] =
            IF c \in ApplyChanges(row, car) THEN row.cols[c] ELSE car.cols[c]
  BY ApplyRowFacts
<1>2. [new EXCEPT !.cols = {}] = [car EXCEPT !.cols = {}]
  BY DEF ApplyRow, Car
<1>3. Atomic!Agrees(car, row) => new = car
  <2>1. Atomic!Agrees(car, row) => ApplyChanges(row, car) = {}
    BY AtomicRules DEF Atomic!Agrees, ApplyChanges
  <2> QED BY <2>1, NothingToWrite
<1> HIDE DEF new
<1>4. Atomic!Agrees(new, row)
  BY <1>1, AtomicRules DEF Atomic!Agrees, ApplyChanges, AppliedColumns
<1>5. \A c \in Columns : new.cols[c] # car.cols[c] =>
         c \in AppliedColumns /\ row.cols[c] # None /\ new.cols[c] = row.cols[c]
  BY <1>1 DEF ApplyChanges
<1>6. Atomic!Refreshed(car, new, row)
  BY <1>2, <1>3, <1>4, <1>5, AtomicRules DEF Atomic!Refreshed
<1> QED BY <1>6 DEF new

LEMMA RowIsInserted ==
    ASSUME NEW row \in Row
    PROVE  Atomic!Inserted(InsertedCar(row), row)
<1>1. \A c \in AppliedColumns : InsertedCar(row).cols[c] = row.cols[c]
  BY InsertedCarFacts
<1>2. Atomic!Agrees(InsertedCar(row), row)
  BY <1>1, AtomicRules DEF Atomic!Agrees
<1> QED BY <1>2 DEF Atomic!Inserted, InsertedCar

(* The commit of an apply of rows that has read the cars as they are, for  *)
(* a dictionary byKey and new primary keys place.                          *)
CommitsRows(rows, byKey, place) ==
    /\ byKey \in ByKey(SyncView(cars))
    /\ place \in Injection(Fresh(rows, byKey), CarId \ Ids(cars))
    /\ cars \in Table /\ cars' \in Table
    /\ \A k \in DOMAIN rows : rows[k] \in Row /\ Key(rows[k]) = k
    /\ \A i \in CarId :
          /\ ApplyCases(cars, SyncView(cars), rows, byKey, place, i)
          /\ cars'[i] = AppliedTable(cars, SyncView(cars), rows, byKey, place)[i]

(* What the commit makes of row i.                                         *)
CommittedRow(rows, byKey, place, i) ==
    /\ \A k \in DOMAIN place : place[k] = i =>
          /\ i \notin Ids(cars) /\ k \in DOMAIN rows
          /\ rows[k] \in Row /\ cars'[i] = InsertedCar(rows[k])
    /\ i \in KeptIds(rows, byKey) =>
          LET row == rows[Key(cars[i])]
          IN /\ i \in Ids(cars) /\ cars[i] \in Car /\ SyncView(cars)[i] = cars[i]
             /\ row \in Row /\ cars'[i] = ApplyRow(cars[i], cars[i], row)
    /\ i \in GoneIds(rows, byKey) =>
          /\ i \in Ids(cars) /\ cars[i] \in Car /\ cars[i].status # "archived"
          /\ cars'[i] = [cars[i] EXCEPT !.status = "archived"]
    /\ \/ \E k \in DOMAIN place : place[k] = i
       \/ i \in KeptIds(rows, byKey)
       \/ i \in GoneIds(rows, byKey)
       \/ cars'[i] = cars[i]

LEMMA CommitRow ==
    ASSUME NEW rows, NEW byKey, NEW place, CommitsRows(rows, byKey, place), NEW i \in CarId
    PROVE  CommittedRow(rows, byKey, place, i)
<1> DEFINE load == SyncView(cars)
<1>1. /\ load \in Table /\ SyncableIds(load) = SyncableIds(cars)
      /\ \A j \in SyncableIds(cars) : load[j] = cars[j] /\ cars[j].status # "archived"
  BY SyncViewFacts DEF CommitsRows, SyncableIds, Syncable
<1>2. /\ ApplyCases(cars, load, rows, byKey, place, i)
      /\ cars'[i] = AppliedTable(cars, load, rows, byKey, place)[i]
      /\ \A k \in DOMAIN rows : rows[k] \in Row
  BY DEF CommitsRows
<1> HIDE DEF load
<1>3. SyncView(cars)[i] = load[i]
  BY DEF load
<1> QED BY <1>1, <1>2, <1>3 DEF ApplyCases, CommittedRow

LEMMA CommitAdds ==
    ASSUME NEW rows, NEW byKey, NEW place, CommitsRows(rows, byKey, place)
    PROVE  /\ place \in Bijection(DOMAIN rows \ DOMAIN byKey, Ids(cars)' \ Ids(cars))
           /\ Cardinality(Fresh(rows, byKey)) = Cardinality(Ids(cars)' \ Ids(cars))
<1> DEFINE new == Ids(cars)' \ Ids(cars)
           fresh == DOMAIN rows \ DOMAIN byKey
<1>1. /\ place \in [fresh -> CarId] /\ IsInjective(place)
      /\ place \in Injection(fresh, CarId \ Ids(cars))
      /\ fresh = Fresh(rows, byKey)
  BY DEF CommitsRows, Injection, Fresh
<1>2. \A i \in CarId : CommittedRow(rows, byKey, place, i)
  BY CommitRow
<1>3. ASSUME NEW k \in fresh
      PROVE  place[k] \in new
  <2>1. place[k] \in CarId /\ place[k] \notin Ids(cars)
           /\ cars'[place[k]] = InsertedCar(rows[k]) /\ rows[k] \in Row
    BY <1>1, <1>2 DEF CommittedRow
  <2> QED BY <2>1, InsertedCarFacts, NoCarAssumption DEF Ids
<1>4. ASSUME NEW i \in new
      PROVE  \E k \in fresh : place[k] = i
  <2>1. i \in CarId /\ cars'[i] # cars[i] /\ i \notin Ids(cars)
    BY DEF Ids
  <2> QED BY <1>1, <1>2, <2>1 DEF CommittedRow
<1> HIDE DEF new
<1>5. place \in Bijection(fresh, new)
  BY <1>1, <1>3, <1>4 DEF Bijection, Injection, Surjection
<1>6. IsFiniteSet(CarId \ Ids(cars))
  BY NoneAssumption, FS_Subset
<1>7. IsFiniteSet(fresh)
  BY <1>1, <1>6, FS_Injection
<1>8. Cardinality(new) = Cardinality(fresh)
  BY <1>5, <1>7, FS_Bijection DEF ExistsBijection
<1> QED BY <1>1, <1>5, <1>8 DEF new

LEMMA CommitWrites ==
    ASSUME NEW rows, NEW byKey, NEW place, CommitsRows(rows, byKey, place)
    PROVE  /\ WrittenIds(rows, byKey, SyncView(cars))
                  = {i \in Ids(cars) : cars'[i].cols # cars[i].cols}
           /\ GoneIds(rows, byKey) = {i \in Ids(cars) : cars'[i].status # cars[i].status}
<1> DEFINE written == WrittenIds(rows, byKey, SyncView(cars))
           kept == KeptIds(rows, byKey)
           gone == GoneIds(rows, byKey)
<1>1. kept \subseteq CarId /\ gone \subseteq CarId
  BY ByKeyFacts, SyncViewFacts DEF CommitsRows, KeptIds, GoneIds
<1>2. \A i \in CarId : CommittedRow(rows, byKey, place, i)
  BY CommitRow
<1>3. ASSUME NEW i \in kept
      PROVE  /\ i \in Ids(cars) /\ cars'[i].status = cars[i].status
             /\ cars'[i].cols # cars[i].cols <=> i \in written
  <2> DEFINE row == rows[Key(cars[i])]
  <2>1. /\ i \in Ids(cars) /\ cars[i] \in Car /\ row \in Row
        /\ cars'[i] = ApplyRow(cars[i], cars[i], row)
        /\ SyncView(cars)[i] = cars[i]
    BY <1>1, <1>2 DEF CommittedRow
  <2>2. i \in written <=> ApplyChanges(row, cars[i]) # {}
    BY <2>1 DEF WrittenIds
  <2> HIDE DEF row, written
  <2>3. ApplyRow(cars[i], cars[i], row).status = cars[i].status
    BY <2>1, ApplyRowFacts
  <2> QED BY <2>1, <2>2, <2>3, WrittenChanges
<1>4. ASSUME NEW i \in gone
      PROVE  /\ i \in Ids(cars) /\ cars'[i].status # cars[i].status
             /\ cars'[i].cols = cars[i].cols
  <2>1. /\ i \in Ids(cars) /\ cars[i] \in Car /\ cars[i].status # "archived"
        /\ cars'[i] = [cars[i] EXCEPT !.status = "archived"]
    BY <1>1, <1>2 DEF CommittedRow
  <2> QED BY <2>1 DEF Car
<1>5. ASSUME NEW i \in Ids(cars), i \notin kept, i \notin gone
      PROVE  cars'[i] = cars[i]
  <2>1. i \in CarId
    BY DEF Ids
  <2> QED BY <1>2, <1>5, <2>1 DEF CommittedRow
<1>6. written \subseteq kept
  BY DEF WrittenIds
<1> HIDE DEF written, kept, gone
<1>7. written = {i \in Ids(cars) : cars'[i].cols # cars[i].cols}
  BY <1>3, <1>4, <1>5, <1>6
<1>8. gone = {i \in Ids(cars) : cars'[i].status # cars[i].status}
  BY <1>3, <1>4, <1>5
<1> QED BY <1>7, <1>8 DEF written, gone

LEMMA CommitSynchronises ==
    ASSUME NEW rows, NEW byKey, NEW place, CommitsRows(rows, byKey, place)
    PROVE  byKey \in Atomic!ByKey(cars) /\ Atomic!Synchronised(byKey, rows)
<1>1. byKey \in Atomic!ByKey(cars)
  BY SameDictionaries, AtomicRules DEF CommitsRows
<1>2. \A k \in DOMAIN byKey : byKey[k] \in CarId /\ Key(SyncView(cars)[byKey[k]]) = k
  BY ByKeyFacts, SyncViewFacts DEF CommitsRows
<1>3. \A i \in CarId : CommittedRow(rows, byKey, place, i)
  BY CommitRow
<1>4. ASSUME NEW k \in DOMAIN byKey \cap DOMAIN rows
      PROVE  Atomic!Refreshed(cars[byKey[k]], cars'[byKey[k]], rows[k])
  <2> DEFINE i == byKey[k]
  <2>1. i \in KeptIds(rows, byKey) /\ i \in CarId
    BY <1>2 DEF KeptIds
  <2>2. /\ cars[i] \in Car /\ SyncView(cars)[i] = cars[i]
        /\ cars'[i] = ApplyRow(cars[i], cars[i], rows[Key(cars[i])])
    BY <1>3, <2>1 DEF CommittedRow
  <2>3. Key(cars[i]) = k /\ rows[k] \in Row
    BY <1>2, <2>2 DEF CommitsRows
  <2> HIDE DEF i
  <2>4. Atomic!Refreshed(cars[i], ApplyRow(cars[i], cars[i], rows[k]), rows[k])
    BY <2>2, <2>3, RowIsRefreshed
  <2> QED BY <2>2, <2>3, <2>4 DEF i
<1>5. ASSUME NEW k \in DOMAIN byKey \ DOMAIN rows
      PROVE  cars'[byKey[k]] = [cars[byKey[k]] EXCEPT !.status = "archived"]
  <2>1. byKey[k] \in GoneIds(rows, byKey) /\ byKey[k] \in CarId
    BY <1>2 DEF GoneIds
  <2> QED BY <1>3, <2>1 DEF CommittedRow
<1>6. ASSUME NEW i \in Ids(cars), \A k \in DOMAIN byKey : byKey[k] # i
      PROVE  cars'[i] = cars[i]
  <2>1. i \in CarId /\ i \notin KeptIds(rows, byKey) /\ i \notin GoneIds(rows, byKey)
    BY <1>6 DEF KeptIds, GoneIds, Ids
  <2> QED BY <1>3, <2>1 DEF CommittedRow
<1>7. ASSUME NEW k \in DOMAIN place
      PROVE  Atomic!Inserted(cars'[place[k]], rows[k])
  <2>1. place[k] \in CarId
    BY DEF CommitsRows, Injection
  <2>2. cars'[place[k]] = InsertedCar(rows[k]) /\ rows[k] \in Row
    BY <1>3, <2>1 DEF CommittedRow
  <2> QED BY <2>2, RowIsInserted
<1>8. place \in Bijection(DOMAIN rows \ DOMAIN byKey, Atomic!Ids(cars') \ Atomic!Ids(cars))
  <2>1. Ids(cars)' = Ids(cars')
    BY DEF Ids
  <2> QED BY <2>1, CommitAdds, AtomicRules
<1>9. \A i \in Atomic!Ids(cars) : (\A k \in DOMAIN byKey : byKey[k] # i) => cars'[i] = cars[i]
  BY <1>6, AtomicRules
<1>10. Atomic!Synchronised(byKey, rows)
  <2>1. place \in Atomic!Bijection(DOMAIN rows \ DOMAIN byKey,
                                   Atomic!Ids(cars') \ Atomic!Ids(cars))
    BY <1>8, AtomicRules
  <2> QED BY <1>4, <1>5, <1>7, <1>9, <2>1 DEF Atomic!Synchronised
<1> QED BY <1>1, <1>10

(* The commit is the step in which the token is applied.                   *)
LEMMA CommitIsApply ==
    ASSUME SyncIInv, Alone, NEW s \in Session, HoldsTruth(s), CommitApply(s)
    PROVE  \E t \in Token : Atomic!Apply(t)
<1> DEFINE f == payload[s].file
           load == loaded[s]
           rows == Rows(f)
<1>1. /\ pc[s] = "applying" /\ pc'[s] = "committed" /\ DOMAIN outcome = Session
      /\ UNCHANGED <<staged, issued, payload, sent>>
  BY DEF CommitApply, Commit, Goto, SyncIInv, SyncTypeOK, HeldOK
<1>2. /\ f \in File /\ cars \in Table /\ load = SyncView(cars)
      /\ load \in Table /\ \A i \in CarId : load[i] # NoCar => i \in Ids(cars)
  BY <1>1, HeldFile DEF HoldsTruth, UpToDate
<1>3. PICK t \in Token : t = payload[s].token
  BY <1>1 DEF SyncIInv, SyncTypeOK, StagedOK, HeldOK, ApplyPC
<1>4. PICK byKey \in ByKey(load) :
         \E place \in Injection(Fresh(rows, byKey), CarId \ Ids(cars)) :
            ApplyReports(s, load, rows, byKey, place)
  BY DEF CommitApply, ApplyReports
<1>5. PICK place \in Injection(Fresh(rows, byKey), CarId \ Ids(cars)) :
         ApplyReports(s, load, rows, byKey, place)
  BY <1>4
<1>6. cars' \in Table
  BY CommitApplyIInv DEF IInv, TableOK
<1>7. \A k \in DOMAIN rows : rows[k] \in Row /\ Key(rows[k]) = k
  BY <1>2, RowsFacts
<1>8. Atomic!syncVars = <<cars, issued, AllOffered, DOMAIN importLog, AllSent>>
  BY DEF Atomic!syncVars, AllOffered, AllSent
<1> HIDE DEF f, load, rows
<1>9. CommitsRows(rows, byKey, place)
  <2>1. \A i \in CarId : ApplyCases(cars, load, Rows(f), byKey, place, i)
    BY <1>2, <1>4, <1>5, AppliedCases DEF rows
  <2>2. cars' = AppliedTable(cars, load, rows, byKey, place)
    BY <1>5 DEF ApplyReports, Commit
  <2> QED BY <1>2, <1>4, <1>5, <1>6, <1>7, <2>1, <2>2 DEF CommitsRows, rows
<1>10. PICK e : /\ e = [token |-> t,
                        added |-> Cardinality(Ids(cars)' \ Ids(cars)),
                        updated |-> Cardinality({i \in Ids(cars) :
                                                   cars'[i].cols # cars[i].cols}),
                        removed |-> Cardinality({i \in Ids(cars) :
                                                   cars'[i].status # cars[i].status})]
                /\ outcome'[s] = e /\ importLog' = WithRow(importLog, e)
  BY <1>1, <1>2, <1>3, <1>5, <1>9, CommitAdds, CommitWrites DEF ApplyReports, Fresh
<1>11. DOMAIN importLog' = DOMAIN importLog \cup {e}
  BY <1>10, WithRowDomain
<1>12. e = Atomic!Report(t)
  <2>1. /\ Ids(cars)' = Atomic!Ids(cars') /\ Ids(cars) = Atomic!Ids(cars)
        /\ \A S : Atomic!Cardinality(S) = Cardinality(S)
    BY AtomicRules DEF Ids
  <2> QED BY <1>10, <2>1 DEF Atomic!Report
<1>13. AllSent' = AllSent \cup Atomic!Notices(Atomic!Report(t))
  <2>1. /\ AllSent = sent \cup Ahead(s) /\ AllSent' = sent' \cup Ahead(s)'
    BY SentAlone
  <2>2. Ahead(s) = {} /\ Ahead(s)' = Atomic!Notices(e)
    BY <1>1, <1>10 DEF Ahead, Atomic!Notices
  <2> QED BY <1>1, <1>12, <2>1, <2>2
<1>14. /\ OfferedFile(t) = f /\ OfferedFile(t)' = None
       /\ \A u \in Token \ {t} : OfferedFile(u)' = OfferedFile(u)
  <2>1. \A u \in Token : OfferedIs(s, u) /\ OfferedIs(s, u)'
    BY OfferedAlone
  <2> QED BY <1>1, <1>3, <2>1 DEF OfferedIs, f
<1>15. AllOffered[t] = f /\ AllOffered' = [AllOffered EXCEPT ![t] = None]
  BY <1>14 DEF AllOffered
<1>16. byKey \in Atomic!ByKey(cars) /\ Atomic!Synchronised(byKey, rows)
  BY <1>9, CommitSynchronises
<1>17. f # None
  BY <1>2, NoneAssumption
<1> QED
  <2>1. [a \in File |-> Rows(a)][AllOffered[t]] = rows
    BY <1>2, <1>15 DEF rows
  <2>2. Atomic!Apply(t)
    BY <1>1, <1>10, <1>11, <1>12, <1>13, <1>15, <1>16, <1>17, <2>1
       DEF Atomic!Apply, AllOffered, AllSent
  <2> QED BY <2>2

(* For one who works alone, with uploads and TTLs between the awaits, an   *)
(* apply is one step: every step of the synchronisation is a step of       *)
(* AtomicSync or none at all (AppliesAtOnce).  The assumptions are the     *)
(* scenario of the run: two who work at once overtake each other, and a    *)
(* worker that dies after its commit does not notify the admins.           *)
THEOREM SyncSpecAppliesAtOnce ==
    ASSUME ~MayCrash, \A a, b \in Session : a = b
    PROVE  SyncSpec => AppliesAtOnce
<1> DEFINE AllTrue == \A s \in Session : HoldsTruth(s)
<1>1. Alone
  BY DEF Alone
<1>2. SyncInit => AllTrue
  BY DEF SyncInit, Init, HoldsTruth
<1>3. SyncIInv /\ AllTrue /\ [SyncNext]_vars => AllTrue'
  BY <1>1, HoldsTruthKept
<1>4. SyncInit => Atomic!Init
  <2> SUFFICES ASSUME SyncInit
               PROVE  Atomic!Init
    OBVIOUS
  <2>1. \A t \in Token : OfferedFile(t) = None
    BY DEF SyncInit, Init, OfferedFile, Holding, Clearing
  <2>2. \A s \in Session : Ahead(s) = {}
    BY DEF SyncInit, Init, Ahead
  <2> QED BY <2>1, <2>2 DEF SyncInit, Init, Nothing, Atomic!Init
<1>5. SyncIInv /\ AllTrue /\ [SyncNext]_vars => [Atomic!Next]_(Atomic!syncVars)
  <2> SUFFICES ASSUME SyncIInv, AllTrue, [SyncNext]_vars
               PROVE  Atomic!Next \/ UNCHANGED Atomic!syncVars
    OBVIOUS
  <2>1. CASE UNCHANGED vars
    BY <2>1 DEF vars, carVars, syncVars, Atomic!syncVars, OfferedFile, Holding, Clearing, Ahead
  <2>2. ASSUME NEW t \in Token, ExpireToken(t) \/ \E f \in File : Upload(t, f)
        PROVE  Atomic!Next \/ UNCHANGED Atomic!syncVars
    BY <2>2, UploadOffers, ExpireWithdraws DEF Atomic!Next
  <2>3. ASSUME NEW s \in Session, CommitApply(s)
        PROVE  Atomic!Next
    BY <1>1, <2>3, CommitIsApply DEF Atomic!Next
  <2>4. ASSUME NEW s \in Session, Apply(s), ~CommitApply(s)
        PROVE  Atomic!Next \/ UNCHANGED Atomic!syncVars
    BY <1>1, <2>4, ApplyUnseen DEF Atomic!Next
  <2>5. ASSUME NEW s \in Session, Edit(s), UNCHANGED syncVars
        PROVE  Atomic!Next \/ UNCHANGED Atomic!syncVars
    BY <1>1, <2>5, EditIsEdit DEF Atomic!Next
  <2> QED BY <2>1, <2>2, <2>3, <2>4, <2>5 DEF SyncNext
<1> HIDE DEF AllTrue
<1> QED BY SyncSpecIInv, <1>2, <1>3, <1>4, <1>5, PTL DEF SyncSpec, AppliesAtOnce, Atomic!Spec

=============================================================================
