------------------------------ MODULE CarData ------------------------------
(***************************************************************************)
(* The rows of the `cars` table, the rows of a parsed workbook, and the    *)
(* pure rules that relate the two: the matching key, the set of cars that  *)
(* a synchronisation may touch, and the column-level differences that the  *)
(* preview shows and the apply stage writes.                               *)
(*                                                                         *)
(* A car's brand, model and year are its Name, of which matching looks at  *)
(* what strip() and lower() leave.  Every other column the workbook can    *)
(* carry is a member of Columns, with values in Value.                     *)
(***************************************************************************)
EXTENDS Naturals, FiniteSets, Functions

CONSTANTS
    CarId,      \* primary keys the cars table can hand out (bounds the table)
    Eid,        \* values of excel_row_id
    Word,       \* values of brand, model and year
    Fold,       \* what strip() and lower() make of each
    Columns,    \* the data columns modelled, a set of column names
    Value,      \* values of a data column
    Blank,      \* the falsy cell value: "" in a text column, 0 in mileage
    None,       \* SQL NULL, an empty cell, or an absent column
    NoCar       \* an unused primary key

Status == {"draft", "pending", "published", "archived"}
Source == {"manual", "excel", "user_submission"}

(* The two columns the preview compares but apply_diff's field_map omits.  *)
EnumColumns == {"gearbox", "fuel_type"}
AppliedColumns == Columns \ EnumColumns

NamePart == {"brand", "model", "year"}
Name == [NamePart -> Word]

ASSUME ColumnsAssumption == "price" \in Columns
ASSUME FoldAssumption == Fold \in [Word -> Word]
ASSUME DisjointAssumption ==
    /\ (NamePart \cup {"status"}) \cap Columns = {}
    /\ None \notin Eid \cup Name \cup Value
    /\ Blank # None

Cells == [Columns -> Value \cup {None}]
Car == [eid : Eid \cup {None}, name : Name, cols : Cells,
        status : Status, source : Source, deleted : BOOLEAN]
Row == [eid : Eid \cup {None}, name : Name, cols : Cells]
Table == [CarId -> Car \cup {NoCar}]

ASSUME NoCarAssumption == NoCar \notin Car

Folded(name) ==
    [p \in NamePart |-> IF p = "year" THEN name[p] ELSE Fold[name[p]]]

(* The matching key of a workbook row and, with the same rule, of a car.   *)
Key(r) == IF r.eid # None THEN [by |-> "eid", id |-> r.eid]
                          ELSE [by |-> "bmy", id |-> Folded(r.name)]

Ids(table) == {i \in CarId : table[i] # NoCar}

(* _load_existing_excel_cars: the cars a synchronisation works on.         *)
Syncable(car) == /\ ~car.deleted
                 /\ car.source = "excel"
                 /\ car.status \in {"pending", "published"}
SyncableIds(table) == {i \in Ids(table) : Syncable(table[i])}
SyncKeys(table) == {Key(table[i]) : i \in SyncableIds(table)}

(***************************************************************************)
(* {_db_key(c): c for c in existing}: when several cars share a key the    *)
(* dictionary keeps the last one, and the query has no ORDER BY, so any    *)
(* one of them may be the one that is kept.                                *)
(***************************************************************************)
ByKey(table) ==
    {m \in [SyncKeys(table) -> SyncableIds(table)] :
        \A k \in SyncKeys(table) : Key(table[m[k]]) = k}

(* (x or ""): NULL and every falsy value compare equal.                    *)
Norm(v) == IF v = Blank THEN None ELSE v

(* Mutant: the preview compares the cells as they are, without (x or "").  *)
PreviewChangesVerbatim(row, car) ==
    {c \in Columns : row.cols[c] # None /\ row.cols[c] # car.cols[c]}

(* _diff_row: the columns the preview reports as changed.                  *)
PreviewChanges(row, car) ==
    {c \in Columns :
        /\ row.cols[c] # None
        /\ Norm(row.cols[c]) # Norm(car.cols[c])
        /\ c \in EnumColumns /\ car.cols[c] # None => row.cols[c] # Blank}

(* Mutant: "if row.x" for "if row.x is not None": blank cells are skipped. *)
ApplyTruthyChanges(row, car) ==
    {c \in AppliedColumns :
        row.cols[c] \notin {None, Blank} /\ row.cols[c] # Norm(car.cols[c])}

(* The field_map loop of apply_diff: the columns it writes.                *)
ApplyChanges(row, car) ==
    {c \in AppliedColumns :
        /\ row.cols[c] # None
        /\ Norm(row.cols[c]) # Norm(car.cols[c])}

(* Mutant: the UPDATE writes every column of the loaded object.            *)
ApplyWholeRow(current, loaded, row) ==
    [loaded EXCEPT !.cols =
        [c \in Columns |-> IF c \in ApplyChanges(row, loaded)
                           THEN row.cols[c] ELSE @[c]]]

(* The write of the changed columns: UPDATE names only the columns whose   *)
(* value was set, so `current` may have moved on from the `loaded` car.    *)
ApplyRow(current, loaded, row) ==
    [current EXCEPT !.cols =
        [c \in Columns |-> IF c \in ApplyChanges(row, loaded)
                           THEN row.cols[c] ELSE @[c]]]

(* Mutant: the status column is given a value that is not in the enum.     *)
InsertedCarAsNew(row) ==
    [eid |-> row.eid, name |-> row.name,
     cols |-> [c \in Columns |-> IF c \in AppliedColumns THEN row.cols[c]
                                                         ELSE None],
     status |-> "new", source |-> "excel", deleted |-> FALSE]

(* The Car(...) constructor call of apply_diff.                            *)
InsertedCar(row) ==
    [eid |-> row.eid, name |-> row.name,
     cols |-> [c \in Columns |-> IF c \in AppliedColumns THEN row.cols[c]
                                                         ELSE None],
     status |-> "pending", source |-> "excel", deleted |-> FALSE]

(* build_diff, given the dictionary byKey and rows_by_key.                 *)
Diff(rows, table, byKey) ==
    LET matched == DOMAIN rows \cap DOMAIN byKey
    IN [new     |-> DOMAIN rows \ DOMAIN byKey,
        updated |-> {byKey[k] : k \in
                        {q \in matched :
                            PreviewChanges(rows[q], table[byKey[q]]) # {}}},
        removed |-> {byKey[k] : k \in DOMAIN byKey \ DOMAIN rows}]

(* Mutant: the constraint is a partial index over the live cars.           *)
EidTakenByLive(table, e) ==
    e # None /\ \E i \in Ids(table) : table[i].eid = e /\ ~table[i].deleted

(* uq_cars_excel_row_id.                                                   *)
EidTaken(table, e) == e # None /\ \E i \in Ids(table) : table[i].eid = e

=============================================================================
