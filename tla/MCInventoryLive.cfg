SPECIFICATION FairSpec
CONSTANTS
    s1 = s1
    s2 = s2
    p1 = p1
    p2 = p2
    A = A
    B = B
    a1 = a1
    a2 = a2
    b1 = b1
    noOne = noOne
    Sessions <- MCSessions
    Products <- MCProducts
    Purchases <- MCCrossingPurchases
    Lots <- MCCrossingLots
    LotPurchase <- MCLotPurchase
    LotProduct <- MCLotProduct
    LotAge <- MCLotAge
    PurchaseDate <- MCPurchaseDate
    Carts <- MCCrossingCarts
    Paid <- MCPaid
    MaxQty = 1
    BaseStock <- MCBaseStock
    PanelStock <- MCPanelStock
    Free = noOne
    None = none
PROPERTIES
    EveryRequestEnds
