---------------------------- MODULE MCExcelSync ----------------------------
(***************************************************************************)
(* Bounded instances of ExcelSync.  The files bring a car with and without *)
(* excel_row_id, change its price, leave it out, give a column the blank   *)
(* or no value, and write a name in capitals.                              *)
(***************************************************************************)
EXTENDS ExcelSync, TLC

CONSTANTS c1, c2, c3, s1, s2, t1, t2

Cell(price, mileage) ==
    [c \in Columns |-> IF c = "price" THEN price ELSE mileage]

Called(brand, model) ==
    [p \in NamePart |-> CASE p = "brand" -> brand
                          [] p = "model" -> model
                          [] OTHER -> "year"]
n1 == Called("b1", "m1")
n2 == Called("b1", "m2")
N2 == Called("b1", "M2")
MCFold == [w \in Word |-> IF w = "M2" THEN "m2" ELSE w]

Line(e, n, price, mileage) ==
    [eid |-> e, name |-> n, cols |-> Cell(price, mileage), missing |-> {},
     year |-> "ok", mileage |-> IF mileage = None THEN "empty" ELSE "ok",
     price |-> "ok", other |-> FALSE]

Sheets ==
    [stock     |-> <<Line("e1", n1, "p1", "p1"), Line(None, n2, "p1", None)>>,
     repriced  |-> <<Line("e1", n1, "p2", None), Line(None, N2, "p1", "p2")>>,
     dearer    |-> <<Line(None, n2, "p2", "p1")>>,
     empty     |-> <<>>,
     labeled   |-> <<Line("e1", n1, "p1", "p1")>>,
     sold      |-> <<Line(None, n2, "p1", Blank)>>]

MCSheet == Restrict(Sheets, File)

NoPayloads == {}
NoChange == [name |-> [p \in NamePart |-> Unset], status |-> Unset,
             cols |-> [c \in Columns |-> Unset]]
MCRenames == {[NoChange EXCEPT !.name["model"] = "m2"],
              [NoChange EXCEPT !.status = "published", !.cols["price"] = "p1"]}
Manual == [eid |-> "e1", name |-> n2, cols |-> Cell("p1", None),
           status |-> "published", source |-> "manual", deleted |-> FALSE]
MCCreatePayloads == {Manual}

Cars == Permutations({c1, c2, c3})
Symmetry == Cars \cup Permutations({s1, s2}) \cup Permutations({t1, t2})
=============================================================================
