SPECIFICATION SyncSpec
CONSTANTS
    c1 = c1
    c2 = c2
    c3 = c3
    s1 = s1
    s2 = s2
    t1 = t1
    t2 = t2
    CarId = {c1, c2}
    Eid = {"e1"}
    Word = {"b1", "m1", "m2", "M2", "year"}
    Fold <- MCFold
    Columns = {"price", "mileage"}
    Value = {"p1", "p2", Blank}
    Blank = Blank
    None = None
    NoCar = NoCar
    Unset = Unset
    Session = {s1, s2}
    Token = {t1}
    File = {"sold"}
    Sheet <- MCSheet
    CreatePayloads <- NoPayloads
    UpdatePayloads <- NoPayloads
    MaxAlike = 2
    MayCrash = FALSE
INVARIANT OneCarPerKey
