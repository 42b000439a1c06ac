SPECIFICATION FairImages
CONSTANTS
    c1 = c1
    s1 = s1
    s2 = s2
    CarId = {c1}
    MaxImage = 3
    Corrupt = {3}
    Orders <- MCOrders
    Session = {s1, s2}
    MaxRetries = 1
    MaxRequests = 3
    MayCrash = TRUE
    None = None
INVARIANTS
    ImagesTypeOK
    FilesOfRows
PROPERTIES
    AloneRepairs
    ReorderIsObeyed
    OptimizedInTheEnd
