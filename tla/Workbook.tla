------------------------------ MODULE Workbook ------------------------------
(***************************************************************************)
(* Workbook files as parse_workbook sees them, and what it promises to     *)
(* make of them: the accepted rows and the warnings, defined without the   *)
(* loop.  Module ExcelParse has the loop itself.                           *)
(*                                                                         *)
(* A cell is abstracted to how its conversion ends.  "nan" stands for a    *)
(* price that Decimal accepts and cannot order (NaN), "overflow" for a     *)
(* year or mileage that float accepts and int does not (inf, 1e999).  A    *)
(* mileage that is no number is None in cols, without a warning.           *)
(***************************************************************************)
EXTENDS CarData, Sequences

RequiredColumns == {"brand", "model", "price"}

RawRow == [eid : Eid \cup {None}, name : Name, cols : Cells,
           missing : SUBSET RequiredColumns,
           year : {"empty", "ok", "invalid", "overflow"},
           mileage : {"empty", "ok", "invalid", "overflow"},
           price : {"ok", "invalid", "nonpositive", "nan"},
           other : BOOLEAN]   \* a cell that ends up in no field is not empty

(* raw is None or all(c is None or c == "" for c in raw): a 0 is not blank *)
(* and neither is a cell of an unknown column.                             *)
IsBlankRow(r) == /\ r.missing = RequiredColumns
                 /\ r.eid = None
                 /\ r.year = "empty" /\ r.mileage = "empty" /\ ~r.other
                 /\ \A c \in Columns : r.cols[c] \in {None, Blank}

(* The row_warnings of one row.                                            *)
Issues(r) ==
    {<<"missing", c>> : c \in r.missing}
        \cup (IF r.year = "invalid" THEN {<<"invalid", "year">>} ELSE {})
        \cup (IF "price" \notin r.missing /\ r.price = "invalid"
              THEN {<<"invalid", "price">>} ELSE {})
        \cup (IF "price" \notin r.missing /\ r.price = "nonpositive"
              THEN {<<"nonpositive", "price">>} ELSE {})

(* A conversion that raises an ArithmeticError, which nothing catches.     *)
Raises(r) == \/ "overflow" \in {r.year, r.mileage}
             \/ "price" \notin r.missing /\ r.price = "nan"

WellFormed(r) == ~IsBlankRow(r) /\ ~Raises(r) /\ Issues(r) = {}

(* Row i enters the diff: it is well formed and the first with its key.    *)
Accepted(sheet, i) ==
    /\ WellFormed(sheet[i])
    /\ \A j \in 1..(i - 1) :
          WellFormed(sheet[j]) => Key(sheet[j]) # Key(sheet[i])

AcceptedRows(sheet) == {i \in DOMAIN sheet : Accepted(sheet, i)}

Record(r) == [eid |-> r.eid, name |-> r.name, cols |-> r.cols]

(* rows_by_key: the accepted rows of a sheet, by matching key.             *)
RowsByKey(sheet) ==
    [k \in {Key(sheet[i]) : i \in AcceptedRows(sheet)} |->
        Record(sheet[CHOOSE i \in AcceptedRows(sheet) : Key(sheet[i]) = k])]

=============================================================================
