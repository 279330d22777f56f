---------------------------- MODULE MCInventory ----------------------------
(* Two products, two purchases (the first with an item of each product) and *)
(* two sessions that run one operation after another.                      *)
EXTENDS InventoryChecks, Pricing, TLC

CONSTANTS s1, s2, p1, p2, A, B, a1, a2, b1, noOne

MCSessions == {s1, s2}
MCOneSession == {s1}
MCProducts == {p1, p2}
MCPurchases == {A, B}
MCLots == {a1, a2, b1}
MCLotPurchase == [l \in Lots |-> IF l = b1 THEN B ELSE A]
MCLotProduct == [l \in Lots |-> IF l = a2 THEN p2 ELSE p1]
MCLotAge == [l \in Lots |-> CASE l = a1 -> 1 [] l = a2 -> 2 [] l = b1 -> 3]
MCPurchaseDate == [p \in Purchases |-> IF p = A THEN 1 ELSE 2]

Line(p, n) == [product |-> p, qty |-> n]
\* A sale across two lots, one with the products in the other order than
\* the purchase, one that repeats a product, one that needs one lot of two, one dated
\* before purchase B.
MCCarts == {
    [date |-> 2, lines |-> <<Line(p2, 1), Line(p1, 2)>>],
    [date |-> 2, lines |-> <<Line(p1, 1), Line(p1, 1)>>],
    [date |-> 2, lines |-> <<Line(p1, 1)>>],
    [date |-> 1, lines |-> <<Line(p1, 1)>>]}
MCPaid == {A}
MCBaseStock == p1 :> 1 @@ p2 :> 0
MCPanelStock == {2}

\* The sale that crosses a confirmation or a cancellation of purchase A.
MCCrossingCarts == {[date |-> 2, lines |-> <<Line(p2, 1), Line(p1, 1)>>]}
MCCrossingLots == {a1, a2}
MCCrossingPurchases == {A}

\* Rounding takes the nearest hundredth, a half away from zero.
ASSUME HalfUpIsNearest ==
    \A n \in -25..25, d \in 1..6 :
        LET twice == 2 * HalfUp(n, d) * d - 2 * n
        IN  /\ twice <= d /\ twice >= -d
            /\ twice = d => n >= 0
            /\ twice = -d => n <= 0

MCAsks == [price : {None, 0, 900, 1300, 1350}, percent : {None, 1000},
           amount : {None, 100, 2000}, reason : BOOLEAN]
MCItem(margin) == [price |-> 1000 + margin, cost |-> 1000]
MCHistories ==
    {<<>>, <<MCItem(350), MCItem(350)>>, <<[price |-> 1250, cost |-> None], MCItem(250), MCItem(250)>>}
        \cup {<<MCItem(a), MCItem(b), MCItem(250), MCItem(900)>> : a \in {150, 250, 460}, b \in {250, 350}}
MCPriced == [mode : {"percent", "fee"}, percent : {3000}, fee : {300, 350}]

\* A price is charged only below what is suggested or with a reason, and is
\* never negative; what the customer usually pays counts only if nothing is
\* asked for and its three last lines have a cost.
ASSUME PricesAreJustified ==
    \A p \in MCPriced, ask \in MCAsks, items \in MCHistories :
        LET r == ResolvePricing(p, 1000, ask, items)
        IN  ~r.refused =>
              /\ r.price >= 0 /\ r.profit = r.price - 1000
              /\ r.price > SuggestedUnitPrice(p, 1000) => ask.reason \/ r.habitual
              /\ r.habitual => NothingAsked(ask) /\ Len(Observed(items)) = 3

\* Both answers occur, and so does a preview that warns of a line the sale
\* refuses.
ASSUME EveryPriceOccurs ==
    LET p == [mode |-> "fee", percent |-> 3000, fee |-> 300]
        results == {ResolvePricing(p, 1000, ask, items) : ask \in MCAsks, items \in MCHistories}
    IN  /\ Refused \in results
        /\ \E r \in results : ~r.refused /\ r.habitual
        /\ \E r \in results : ~r.refused /\ r.overridden
        /\ \E ask \in MCAsks : PreviewPricing(p, 1000, ask, <<>>).warning

SessionSymmetry == Permutations(MCSessions)
=============================================================================
