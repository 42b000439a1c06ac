SPECIFICATION FairInbox
CONSTANTS
    c1 = c1
    s1 = s1
    s2 = s2
    t1 = t1
    t2 = t2
    CarId = {c1}
    Eid = {"e1"}
    Word = {"w"}
    Fold <- MCFold
    Columns = {"price"}
    Value = {"p1", Blank}
    Blank = Blank
    None = None
    NoCar = NoCar
    Unset = Unset
    Session = {s1}
    Token = {t1, t2}
    File = {"stock", "sold"}
    BadFile = {"broken"}
    Rank <- MCRank
    Sheet <- MCSheet
    CreatePayloads <- NoPayloads
    UpdatePayloads <- NoPayloads
    MaxAlike = 1
    MayCrash = TRUE
    MayFail = TRUE
INVARIANTS
    AnnouncedPreviews
    BadFilesHarmNobody
    SentAreLogged
PROPERTY ScansEnd
