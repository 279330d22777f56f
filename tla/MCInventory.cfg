SPECIFICATION Spec
CONSTANTS
    s1 = s1
    s2 = s2
    p1 = p1
    p2 = p2
    A = A
    B = B
    a1 = a1
    a2 = a2
    b1 = b1
    noOne = noOne
    Sessions <- MCSessions
    Products <- MCProducts
    Purchases <- MCPurchases
    Lots <- MCLots
    LotPurchase <- MCLotPurchase
    LotProduct <- MCLotProduct
    LotAge <- MCLotAge
    PurchaseDate <- MCPurchaseDate
    Carts <- MCCarts
    Paid <- MCPaid
    MaxQty = 1
    BaseStock <- MCBaseStock
    PanelStock <- MCPanelStock
    Free = noOne
    None = none
SYMMETRY SessionSymmetry
INVARIANTS
    TypeOK
    LotConservation
    SalidaMatchesStatus
PROPERTIES
    ConfirmedIsFrozen
    StockMovesWithLots
    PreviewTellsTheSale
    ImplementsLedger
