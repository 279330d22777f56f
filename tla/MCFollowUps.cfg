SPECIFICATION ListSpec
CONSTANTS
    s1 = s1
    s2 = s2
    c1 = c1
    p1 = p1
    p2 = p2
    c2 = c2
    c3 = c3
    Sessions <- MCSessions
    Customers <- MCOneCustomer
    Products <- MCOneProduct
    NoProduct = noProduct
    Dates <- MCDates
    RefreshMayFail = TRUE
    MaxSales = 3
    MaxRows = 3
    OtherOpen <- MCOtherOpen
    OtherCycles <- MCOtherCycles
    DaysUntil <- MCDaysUntil
SYMMETRY SessionSymmetry
INVARIANTS
    TypeOK
    OneOpenPerPair
    ProjectedIsFollowed
    TilesMatchFilters
PROPERTIES
    LastPurchaseGoesForward
    SalesNeverCollide
    NobodyIsForgotten
