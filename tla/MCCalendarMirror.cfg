SPECIFICATION FairMirrorSpec
CONSTANTS
    s1 = s1
    c1 = c1
    p1 = p1
    Sessions <- MCSessions
    Customers <- MCCustomers
    Products <- MCProducts
    NoProduct = noProduct
    Dates <- MCDates
    RefreshMayFail = FALSE
    MaxSales = 2
    MaxRows = 2
    MaxCrashes = 2
INVARIANTS
    MirrorTypeOK
    NoLostWakeup
    HandledRowsAreMirrored
PROPERTIES
    MirrorCatchesUp
