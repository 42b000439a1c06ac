---------------------------- MODULE MCExcelParse ----------------------------
(***************************************************************************)
(* Bounded instances of ExcelParse.  MCRaw is one row of every kind the    *)
(* loop tells apart; the workbooks are all sheets over these kinds up to   *)
(* the given length.                                                       *)
(***************************************************************************)
EXTENDS ExcelParse, TLC

Cell(price) == [c \in Columns |-> IF c = "price" THEN price ELSE None]

Called(model) == [p \in NamePart |-> IF p = "model" THEN model ELSE "w"]
n1 == Called("m1")
n2 == Called("m2")

Good(e, n) == [eid |-> e, name |-> n, cols |-> Cell("p1"), missing |-> {},
               year |-> "ok", mileage |-> "empty", price |-> "ok", other |-> FALSE]
NoPrice(e, n) == [Good(e, n) EXCEPT !.cols = Cell(None),
                                    !.missing = {"price"}]
Empty == [NoPrice(None, n1) EXCEPT !.missing = RequiredColumns, !.year = "empty"]

MCRaw ==
    {Good(None, n1), Good(None, Called("M1")), Good(None, n2),
     Good("e1", n1), Good("e1", n2),
     [Good("e1", n1) EXCEPT !.year = "empty", !.mileage = "invalid"],
     NoPrice("e1", n1),
     [NoPrice("e1", n1) EXCEPT !.price = "nan"],
     [Good(None, n1) EXCEPT !.year = "invalid"],
     [Good(None, n1) EXCEPT !.price = "invalid", !.year = "invalid"],
     [Good(None, n2) EXCEPT !.price = "nonpositive"],
     Empty,
     [Empty EXCEPT !.cols["mileage"] = Blank, !.mileage = "ok"],
     [Empty EXCEPT !.other = TRUE]}
MCRaising ==
    {[Good(None, n1) EXCEPT !.price = "nan"],
     [Good("e1", n2) EXCEPT !.year = "overflow"],
     [Empty EXCEPT !.mileage = "overflow"]}

MCFold == [w \in Word |-> IF w = "M1" THEN "m1" ELSE w]

SheetsOver(kinds, n) == UNION {[1..m -> kinds] : m \in 0..n}

Unreadable ==
    [opens : {FALSE}, header : {{}}, sheet : {<<>>}]
        \cup [opens : {TRUE}, header : SUBSET RequiredColumns, sheet : {<<>>}]

MCWorkbooks ==
    Unreadable
        \cup [opens : {TRUE}, header : {RequiredColumns},
              sheet : SheetsOver(MCRaw, 3) \cup SheetsOver(MCRaising, 1)]

=============================================================================
