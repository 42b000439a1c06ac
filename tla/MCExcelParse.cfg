SPECIFICATION Spec
CONSTANTS
    CarId = {}
    Eid = {"e1"}
    Word = {"w", "m1", "M1", "m2"}
    Fold <- MCFold
    Columns = {"price", "mileage"}
    Value = {"p1", Blank}
    Blank = Blank
    None = None
    NoCar = NoCar
    Workbooks <- MCWorkbooks
INVARIANTS
    TypeOK
    RowsAreTheAcceptedOnes
    EveryRowAccountedFor
