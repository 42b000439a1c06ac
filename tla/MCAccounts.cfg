SPECIFICATION FairAccounts
CONSTANTS
    u1 = u1
    u2 = u2
    s1 = s1
    s2 = s2
    UserId = {u1, u2}
    UserName = {"admin", "n1"}
    Email = {"e1", "e2"}
    Role = {"admin", "operator"}
    Bootstrap <- MCBootstrap
    Session = {s1, s2}
    None = None
INVARIANTS
    AccountsTypeOK
    NamesUnique
PROPERTIES
    LockoutIsFinal
    LostOnlyToAnother
    OffMeansOut
