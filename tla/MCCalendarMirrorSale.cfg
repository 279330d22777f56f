SPECIFICATION MirrorSpec
CONSTANTS
    s1 = s1
    c1 = c1
    p1 = p1
    Sessions <- MCSessions
    Customers <- MCCustomers
    Products <- MCProducts
    NoProduct = noProduct
    Dates <- MCDates
    RefreshMayFail = FALSE
    MaxSales = 3
    MaxRows = 2
    MaxCrashes = 1
INVARIANTS
    SyncedMeansMirrored
