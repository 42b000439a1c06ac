SPECIFICATION FairCache
CONSTANTS
    c1 = c1
    s1 = s1
    s2 = s2
    r1 = r1
    r2 = r2
    CarId = {c1}
    Eid = {"e1"}
    Word = {"w"}
    Fold <- MCFold
    Columns = {"price"}
    Value = {"p1", "p2"}
    Blank = Blank
    None = None
    NoCar = NoCar
    Unset = Unset
    CreatePayloads <- MCCreatePayloads
    UpdatePayloads = {}
    Session = {s1, s2}
    Reader = {r1, r2}
    MayCrash = TRUE
INVARIANTS
    CacheTypeOK
    OnlyRacesLeaveStale
PROPERTY StaleEndsForGood
