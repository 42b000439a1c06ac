---------------------------- MODULE MCInboxScan ----------------------------
(***************************************************************************)
(* A bounded instance of InboxScan: a file with one car, an empty one and  *)
(* an unreadable one between them, scanned while a preview is applied.     *)
(***************************************************************************)
EXTENDS InboxScan

CONSTANTS c1, s1, s2, t1, t2

Line == [eid |-> None, name |-> [p \in NamePart |-> "w"],
         cols |-> [c \in Columns |-> "p1"], missing |-> {}, year |-> "ok",
         mileage |-> "empty", price |-> "ok", other |-> FALSE]
MCFold == [w \in Word |-> w]
MCSheet == [f \in File |-> IF f = "sold" THEN <<>> ELSE <<Line>>]
MCRank == [f \in File \cup BadFile |->
              CASE f = "stock" -> 1 [] f = "broken" -> 2 [] f = "sold" -> 3]
NoPayloads == {}
=============================================================================
