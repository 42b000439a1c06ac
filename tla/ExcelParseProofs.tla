-------------------------- MODULE ExcelParseProofs --------------------------
(***************************************************************************)
(* TLAPS proofs about the row loop of parse_workbook: for every workbook   *)
(* it agrees with the loop-free definition of module Workbook, and no row  *)
(* is lost silently.                                                       *)
(***************************************************************************)
EXTENDS ExcelParse, TLAPS

(* seen_keys: each key with the row accepted for it, and every well-formed *)
(* row read so far has its key there.                                      *)
SeenOK ==
    /\ \A k \in DOMAIN seen : /\ seen[k] \in rows
                              /\ WellFormed(wb.sheet[seen[k]])
                              /\ Key(wb.sheet[seen[k]]) = k
    /\ \A i \in 1..(pos - 1) : WellFormed(wb.sheet[i]) => Key(wb.sheet[i]) \in DOMAIN seen

(* A warning is of a row that is not accepted, and what it says is so.     *)
WarningOK(w) ==
    LET r == wb.sheet[w[1]]
    IN \/ Issues(r) # {} /\ w[2][1] # "duplicate"
       \/ /\ w[2][1] = "duplicate" /\ w[2][2] \in rows /\ w[2][2] < w[1]
          /\ Key(wb.sheet[w[2][2]]) = Key(r) /\ ~Accepted(wb.sheet, w[1])

(* A row read so far that is neither blank nor accepted has a warning.     *)
Covered(i) == \/ IsBlankRow(wb.sheet[i]) \/ i \in rows
              \/ \E w \in warnings : w[1] = i

ParseInv ==
    /\ TypeOK /\ SeenOK /\ RowsAreTheAcceptedOnes
    /\ \A w \in warnings : WarningOK(w)
    /\ \A i \in 1..(pos - 1) : Covered(i)

LEMMA SheetFacts ==
    ASSUME TypeOK
    PROVE  wb.sheet \in Seq(RawRow) /\ Len(wb.sheet) \in Nat
              /\ pos \in Nat /\ pos >= 1 /\ pos - 1 \in Nat
<1>1. wb \in Workbook
  BY WorkbooksAssumption DEF TypeOK
<1>2. wb.sheet \in Seq(RawRow)
  BY <1>1 DEF Workbook
<1> QED BY <1>2 DEF TypeOK

LEMMA InitInv == Init => ParseInv
<1> SUFFICES ASSUME Init PROVE ParseInv
  OBVIOUS
<1>1. wb.sheet \in Seq(RawRow)
  BY WorkbooksAssumption DEF Init, Workbook
<1>2. 1..(pos - 1) = {}
  BY DEF Init
<1>3. TypeOK
  BY <1>1 DEF Init, TypeOK
<1>4. SeenOK /\ RowsAreTheAcceptedOnes
  BY <1>2 DEF Init, SeenOK, RowsAreTheAcceptedOnes
<1> QED BY <1>2, <1>3, <1>4 DEF ParseInv, Init

(* Issues are never called duplicates.                                     *)
LEMMA IssueFacts ==
    ASSUME NEW r, NEW issue \in Issues(r)
    PROVE  issue[1] # "duplicate"
BY DEF Issues

(* A step that reads one row: what happens to the row decides whether the  *)
(* invariant survives.                                                     *)
LEMMA ReadRow ==
    ASSUME ParseInv, AtRow, wb' = wb, phase' = phase, pos' = pos + 1,
           rows' = rows \cup {i \in {pos} : Accepted(wb.sheet, i)},
           DOMAIN seen \subseteq DOMAIN seen',
           \A k \in DOMAIN seen : seen'[k] = seen[k],
           \A k \in DOMAIN seen' \ DOMAIN seen :
              /\ seen'[k] = pos /\ Accepted(wb.sheet, pos)
              /\ WellFormed(wb.sheet[pos]) /\ Key(wb.sheet[pos]) = k,
           WellFormed(wb.sheet[pos]) => Key(wb.sheet[pos]) \in DOMAIN seen',
           warnings \subseteq warnings',
           \A w \in warnings' \ warnings : w[1] = pos /\ WarningOK(w),
           \/ IsBlankRow(wb.sheet[pos]) \/ Accepted(wb.sheet, pos)
           \/ \E w \in warnings' : w[1] = pos
    PROVE  ParseInv'
<1>1. /\ pos \in Nat /\ pos >= 1 /\ pos <= Len(wb.sheet) /\ Len(wb.sheet) \in Nat
      /\ TypeOK /\ SeenOK /\ RowsAreTheAcceptedOnes
  BY SheetFacts DEF ParseInv, AtRow
<1>2. 1..(pos' - 1) = (1..(pos - 1)) \cup {pos}
  BY <1>1
<1>3. TypeOK'
  <2>1. pos' \in 1..(Len(wb'.sheet) + 1)
    BY <1>1
  <2>2. rows' \subseteq 1..(pos' - 1)
    BY <1>1, <1>2 DEF TypeOK
  <2>3. \A w \in warnings' : w[1] \in 1..(pos' - 1)
    BY <1>1, <1>2 DEF TypeOK
  <2>4. \A k \in DOMAIN seen' : seen'[k] \in rows'
    BY <1>1 DEF TypeOK
  <2> QED BY <1>1, <2>1, <2>2, <2>3, <2>4 DEF TypeOK
<1>4. RowsAreTheAcceptedOnes'
  BY <1>1, <1>2 DEF RowsAreTheAcceptedOnes
<1>5. SeenOK'
  BY <1>1, <1>2 DEF SeenOK
<1>6. \A w \in warnings' : WarningOK(w)'
  <2>1. \A w : WarningOK(w) => WarningOK(w)'
    BY DEF WarningOK
  <2> QED BY <2>1 DEF ParseInv
<1>7. \A i \in 1..(pos' - 1) : Covered(i)'
  BY <1>1, <1>2 DEF ParseInv, Covered
<1> QED BY <1>3, <1>4, <1>5, <1>6, <1>7 DEF ParseInv

(* A well-formed row is accepted unless its key has been seen.             *)
LEMMA AcceptedIffNew ==
    ASSUME ParseInv, AtRow, WellFormed(wb.sheet[pos])
    PROVE  Accepted(wb.sheet, pos) <=> Key(wb.sheet[pos]) \notin DOMAIN seen
<1>1. SeenOK /\ rows \subseteq 1..(pos - 1)
  BY DEF ParseInv, TypeOK
<1> QED BY <1>1 DEF SeenOK, Accepted

LEMMA NextInv ==
    ASSUME ParseInv, [Next]_vars PROVE ParseInv'
<1>1. /\ pos \in Nat /\ pos >= 1 /\ Len(wb.sheet) \in Nat
      /\ TypeOK /\ SeenOK /\ rows \subseteq 1..(pos - 1)
  BY SheetFacts DEF ParseInv, TypeOK
<1>2. CASE UNCHANGED <<wb, pos, rows, warnings, seen>>
           /\ phase' \in {phase, "rows", "returned", "rejected", "raised"}
  BY <1>2 DEF ParseInv, TypeOK, SeenOK, RowsAreTheAcceptedOnes, WarningOK, Covered
<1>3. CASE SkipBlankRow
  <2>1. ~WellFormed(wb.sheet[pos]) /\ ~Accepted(wb.sheet, pos)
    BY <1>3 DEF SkipBlankRow, WellFormed, Accepted
  <2> QED BY <1>3, <2>1, ReadRow DEF SkipBlankRow
<1>4. CASE WarnAboutRow
  <2> DEFINE r == wb.sheet[pos]
  <2>1. /\ Issues(r) # {} /\ warnings' = warnings \cup {<<pos, issue>> : issue \in Issues(r)}
        /\ AtRow /\ pos' = pos + 1 /\ UNCHANGED <<wb, phase, rows, seen>>
    BY <1>4 DEF WarnAboutRow
  <2>2. ~WellFormed(r) /\ ~Accepted(wb.sheet, pos)
    BY <2>1 DEF WellFormed, Accepted
  <2>3. ASSUME NEW issue \in Issues(r)
        PROVE  <<pos, issue>>[1] = pos /\ WarningOK(<<pos, issue>>)
    <3>1. <<pos, issue>>[1] = pos /\ <<pos, issue>>[2] = issue
      OBVIOUS
    <3> DEFINE w == <<pos, issue>>
    <3> HIDE DEF w
    <3>2. w[1] = pos /\ w[2] = issue
      BY <3>1 DEF w
    <3>3. WarningOK(w)
      BY <2>1, <3>2, IssueFacts DEF WarningOK
    <3> QED BY <3>1, <3>3 DEF w
  <2>4. \E w \in warnings' : w[1] = pos
    <3>1. PICK issue \in Issues(r) : TRUE
      BY <2>1
    <3>2. <<pos, issue>> \in warnings' /\ <<pos, issue>>[1] = pos
      BY <2>1
    <3> QED BY <3>2
  <2> QED BY <2>1, <2>2, <2>3, <2>4, ReadRow
<1>5. CASE WarnAboutDuplicate
  <2> DEFINE r == wb.sheet[pos]
             w == <<pos, <<"duplicate", seen[Key(r)]>>>>
  <2>1. /\ WellFormed(r) /\ Key(r) \in DOMAIN seen /\ warnings' = warnings \cup {w}
        /\ AtRow /\ pos' = pos + 1 /\ UNCHANGED <<wb, phase, rows, seen>>
    BY <1>5 DEF WarnAboutDuplicate
  <2>2. ~Accepted(wb.sheet, pos)
    BY <2>1, AcceptedIffNew
  <2>3. seen[Key(r)] \in rows /\ seen[Key(r)] < pos /\ Key(wb.sheet[seen[Key(r)]]) = Key(r)
    <3>1. seen[Key(r)] \in rows /\ Key(wb.sheet[seen[Key(r)]]) = Key(r)
      BY <1>1, <2>1 DEF SeenOK
    <3>2. \A i \in rows : i < pos
      BY <1>1
    <3> QED BY <3>1, <3>2
  <2>4. w[1] = pos /\ WarningOK(w)
    <3>1. w[1] = pos /\ w[2][1] = "duplicate" /\ w[2][2] = seen[Key(r)]
      OBVIOUS
    <3> HIDE DEF w
    <3> QED BY <2>2, <2>3, <3>1 DEF WarningOK
  <2> QED BY <2>1, <2>2, <2>4, ReadRow
<1>6. CASE AcceptRow
  <2> DEFINE r == wb.sheet[pos]
  <2>1. /\ WellFormed(r) /\ Key(r) \notin DOMAIN seen
        /\ seen' = [k \in DOMAIN seen \cup {Key(r)} |-> IF k = Key(r) THEN pos ELSE seen[k]]
        /\ rows' = rows \cup {pos}
        /\ AtRow /\ pos' = pos + 1 /\ UNCHANGED <<wb, phase, warnings>>
    BY <1>6 DEF AcceptRow
  <2>2. Accepted(wb.sheet, pos)
    BY <2>1, AcceptedIffNew
  <2> QED BY <2>1, <2>2, ReadRow
<1> QED BY <1>2, <1>3, <1>4, <1>5, <1>6
        DEF Next, RejectFile, AcceptHeader, RaiseOnRow, Return, Ended, vars

THEOREM SpecParseInv == Spec => []ParseInv
BY InitInv, NextInv, PTL DEF Spec

(* The row loop keeps its local variables typed, for any set of workbooks. *)
THEOREM SpecTypeOK == Spec => []TypeOK
<1>1. ParseInv => TypeOK
  BY DEF ParseInv
<1> QED BY SpecParseInv, <1>1, PTL

(* After any number of rows of any workbook the loop holds exactly the     *)
(* rows that the loop-free definition accepts (RowsAreTheAcceptedOnes).    *)
THEOREM SpecAccepted == Spec => []RowsAreTheAcceptedOnes
<1>1. ParseInv => RowsAreTheAcceptedOnes
  BY DEF ParseInv
<1> QED BY SpecParseInv, <1>1, PTL

(* No row of any workbook is lost silently, none is both accepted and      *)
(* warned about, and the warning of a duplicate names the row accepted     *)
(* with its key (EveryRowAccountedFor).                                    *)
THEOREM SpecAccounted == Spec => []EveryRowAccountedFor
<1>1. ParseInv => EveryRowAccountedFor
  <2> SUFFICES ASSUME ParseInv, NEW i \in 1..(pos - 1)
               PROVE  /\ Covered(i)
                      /\ i \in rows => ~IsBlankRow(wb.sheet[i])
                      /\ i \in rows => \A w \in warnings : w[1] # i
                      /\ \A w \in warnings :
                           w[1] = i /\ w[2][1] = "duplicate" =>
                              /\ w[2][2] \in rows /\ w[2][2] < i
                              /\ Key(wb.sheet[w[2][2]]) = Key(wb.sheet[i])
    BY DEF EveryRowAccountedFor, Covered
  <2>1. i \in rows => Accepted(wb.sheet, i)
    BY DEF ParseInv, RowsAreTheAcceptedOnes
  <2>2. Accepted(wb.sheet, i) => ~IsBlankRow(wb.sheet[i]) /\ Issues(wb.sheet[i]) = {}
    BY DEF Accepted, WellFormed
  <2> QED BY <2>1, <2>2 DEF ParseInv, WarningOK
<1> QED BY SpecParseInv, <1>1, PTL

=============================================================================
