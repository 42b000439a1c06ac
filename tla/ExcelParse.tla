----------------------------- MODULE ExcelParse -----------------------------
(***************************************************************************)
(* parse_workbook: the row loop, one worksheet row per step, with the      *)
(* local variables rows, warnings and seen_keys of the code, and its three *)
(* ways to end: the pair (rows, warnings) is returned, a ValueError is     *)
(* raised, or an ArithmeticError escapes from a cell conversion.           *)
(***************************************************************************)
EXTENDS Workbook

CONSTANT Workbooks  \* the files that may be uploaded

Workbook == [opens : BOOLEAN, header : SUBSET RequiredColumns,
             sheet : Seq(RawRow)]

ASSUME WorkbooksAssumption == Workbooks \subseteq Workbook

VARIABLES
    wb,        \* the file being parsed
    phase,     \* "open", "rows", "returned", "rejected" or "raised"
    pos,       \* rows_iter: the sheet row the loop looks at next
    rows,      \* the sheet positions of the accepted rows
    warnings,  \* pairs of a sheet position and an issue
    seen       \* seen_keys: the position at which each key was accepted

vars == <<wb, phase, pos, rows, warnings, seen>>

Init == /\ wb \in Workbooks
        /\ phase = "open"
        /\ pos = 1
        /\ rows = {}
        /\ warnings = {}
        /\ seen = [k \in {} |-> 0]

(* load_workbook fails, or a required column is missing: a ValueError.     *)
RejectFile ==
    /\ phase = "open"
    /\ ~wb.opens \/ wb.header # RequiredColumns
    /\ phase' = "rejected"
    /\ UNCHANGED <<wb, pos, rows, warnings, seen>>

AcceptHeader ==
    /\ phase = "open"
    /\ wb.opens /\ wb.header = RequiredColumns
    /\ phase' = "rows"
    /\ UNCHANGED <<wb, pos, rows, warnings, seen>>

AtRow == phase = "rows" /\ pos <= Len(wb.sheet)

SkipBlankRow ==
    /\ AtRow
    /\ IsBlankRow(wb.sheet[pos])
    /\ pos' = pos + 1
    /\ UNCHANGED <<wb, phase, rows, warnings, seen>>

(* The exception leaves through the finally clause that closes the file.   *)
RaiseOnRow ==
    /\ AtRow
    /\ ~IsBlankRow(wb.sheet[pos]) /\ Raises(wb.sheet[pos])
    /\ phase' = "raised"
    /\ UNCHANGED <<wb, pos, rows, warnings, seen>>

(* Mutant: the row is skipped before its warnings are extended.            *)
WarnAboutRowSilently ==
    /\ AtRow
    /\ LET r == wb.sheet[pos] IN ~IsBlankRow(r) /\ ~Raises(r) /\ Issues(r) # {}
    /\ pos' = pos + 1
    /\ UNCHANGED <<wb, phase, rows, warnings, seen>>

WarnAboutRow ==
    /\ AtRow
    /\ LET r == wb.sheet[pos] IN
         /\ ~IsBlankRow(r) /\ ~Raises(r) /\ Issues(r) # {}
         /\ warnings' = warnings \cup {<<pos, issue>> : issue \in Issues(r)}
    /\ pos' = pos + 1
    /\ UNCHANGED <<wb, phase, rows, seen>>

WarnAboutDuplicate ==
    /\ AtRow
    /\ LET r == wb.sheet[pos] IN
         /\ WellFormed(r)
         /\ Key(r) \in DOMAIN seen
         /\ warnings' = warnings \cup {<<pos, <<"duplicate", seen[Key(r)]>>>>}
    /\ pos' = pos + 1
    /\ UNCHANGED <<wb, phase, rows, seen>>

(* Mutants: the key is not looked up in seen_keys; it is recorded with the *)
(* number of the next row.                                                 *)
AcceptRowAgain ==
    /\ AtRow
    /\ LET r == wb.sheet[pos] IN
         /\ WellFormed(r)
         /\ seen' = [k \in DOMAIN seen \cup {Key(r)} |->
                        IF k = Key(r) THEN pos ELSE seen[k]]
    /\ rows' = rows \cup {pos}
    /\ pos' = pos + 1
    /\ UNCHANGED <<wb, phase, warnings>>

AcceptRowAsNext ==
    /\ AtRow
    /\ LET r == wb.sheet[pos] IN
         /\ WellFormed(r) /\ Key(r) \notin DOMAIN seen
         /\ seen' = [k \in DOMAIN seen \cup {Key(r)} |->
                        IF k = Key(r) THEN pos + 1 ELSE seen[k]]
    /\ rows' = rows \cup {pos}
    /\ pos' = pos + 1
    /\ UNCHANGED <<wb, phase, warnings>>

AcceptRow ==
    /\ AtRow
    /\ LET r == wb.sheet[pos] IN
         /\ WellFormed(r)
         /\ Key(r) \notin DOMAIN seen
         /\ seen' = [k \in DOMAIN seen \cup {Key(r)} |->
                        IF k = Key(r) THEN pos ELSE seen[k]]
         /\ rows' = rows \cup {pos}
    /\ pos' = pos + 1
    /\ UNCHANGED <<wb, phase, warnings>>

Return ==
    /\ phase = "rows" /\ pos > Len(wb.sheet)
    /\ phase' = "returned"
    /\ UNCHANGED <<wb, pos, rows, warnings, seen>>

Ended == phase \in {"returned", "rejected", "raised"} /\ UNCHANGED vars

Next == \/ RejectFile \/ AcceptHeader \/ SkipBlankRow \/ RaiseOnRow
        \/ WarnAboutRow \/ WarnAboutDuplicate \/ AcceptRow \/ Return
        \/ Ended

Spec == Init /\ [][Next]_vars

-----------------------------------------------------------------------------

TypeOK ==
    /\ wb \in Workbooks
    /\ phase \in {"open", "rows", "returned", "rejected", "raised"}
    /\ pos \in 1..(Len(wb.sheet) + 1)
    /\ rows \subseteq 1..(pos - 1)
    /\ \A w \in warnings : w[1] \in 1..(pos - 1)
    /\ \A k \in DOMAIN seen : seen[k] \in rows

(* After any number of rows the loop holds exactly the rows the loop-free  *)
(* definition accepts: in the rows read so far, the well-formed ones that  *)
(* are the first with their key (excel_sync.py:120-175).                   *)
RowsAreTheAcceptedOnes ==
    rows = {i \in 1..(pos - 1) : Accepted(wb.sheet, i)}

(* No row is lost silently: each row read so far is blank, or accepted, or *)
(* has a warning that names it, and no row is both accepted and warned     *)
(* about, so "warnings" tells the operator of every row left out of the    *)
(* diff; the warning of a duplicate names the earlier row that was         *)
(* accepted with the same key (excel_sync.py:154-170).                     *)
EveryRowAccountedFor ==
    \A i \in 1..(pos - 1) :
        /\ IsBlankRow(wb.sheet[i]) \/ i \in rows
              \/ \E w \in warnings : w[1] = i
        /\ i \in rows => ~IsBlankRow(wb.sheet[i])
        /\ i \in rows => \A w \in warnings : w[1] # i
        /\ \A w \in warnings :
             w[1] = i /\ w[2][1] = "duplicate" =>
                 /\ w[2][2] \in rows /\ w[2][2] < i
                 /\ Key(wb.sheet[w[2][2]]) = Key(wb.sheet[i])

=============================================================================
