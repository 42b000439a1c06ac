SPECIFICATION FormSpec
CONSTANTS
    c1 = c1
    s1 = s1
    s2 = s2
    b1 = b1
    CarId = {c1}
    Eid = {"e1"}
    Word = {"w", "b2", "m2", "early"}
    Fold <- MCFold
    EarlyYears = {"early"}
    Columns = {"price", "mileage", "description", "body_status"}
    LF = LF
    CRLF = CRLF
    BadPrice = BadPrice
    Blank = Blank
    None = None
    Value = {"p1", "p2", Blank, LF, CRLF}
    NoCar = NoCar
    Unset = Unset
    CreatePayloads <- MCCreatePayloads
    UpdatePayloads <- MCUpdatePayloads
    Session = {s1, s2}
    Tab = {b1}
    Typed <- MCTyped
    MayCrash = TRUE
SYMMETRY Symmetry
PROPERTIES
    OnlyStaleFormsRevert
    SavedAsShown
