SPECIFICATION HSpec
CONSTANTS
    s1 = s1
    s2 = s2
    v1 = v1
    v2 = v2
    c1 = c1
    c2 = c2
    p1 = p1
    p2 = p2
    Unset = unset
    Customer <- MCCustomer
    SoldOn <- MCSoldOn
    CreatedAt <- MCCreatedAt
    Items <- MCItems
    NoDate = noDate
    Sessions <- MCSessions
    Sales <- MCSales
    Zero <- MCZero
    Dates <- MCDates
    LooseDates <- MCLoose
    Total <- MCTotal
    Standing <- MCStanding
    LedgerLimit = 6
    MaxEntries = 3
SYMMETRY Symmetry
INVARIANTS
    HistoryTypeOK
    PaidSaleHasItsEntrada
    DateMatchesStatus
    OneEntradaUnlessCrossed
    ReadersAgree
    SoldIsCollectedOrOwed
