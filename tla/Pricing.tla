------------------------------ MODULE Pricing ------------------------------
(***************************************************************************)
(* The price of a line of a sale, as the preview and the sale compute it:  *)
(* the standard margin of the product, the habitual margin of a customer,  *)
(* typed prices and discounts.  Amounts are integers, in hundredths of a   *)
(* quetzal and of a percent.                                               *)
(***************************************************************************)
EXTENDS Rounding, Sequences

CONSTANT None   \* what a request does not give, or a rule does not find

ASSUME NoneAssumption == None \notin Int

\* A product has a margin of its cost, or a fee.
BaseMargin(p, cost) ==
    IF p.mode = "percent" THEN HalfUp(cost * p.percent, 10000) ELSE p.fee

SuggestedUnitPrice(p, cost) == cost + BaseMargin(p, cost)

----------------------------------------------------------------------------
(* detect_habitual_margin.                                                 *)

Tolerance == 200
MinSalesForPattern == 3

\* The three last margins are within the tolerance of each other.
Consistent(m) == \A i, j \in 1..3 : m[i] - m[j] <= Tolerance

Average(m) == HalfUp(m[1] + m[2] + m[3], 3)

DetectHabitualMargin(observed, base) ==
    IF /\ Len(observed) >= MinSalesForPattern
       /\ Consistent(observed)
       /\ Average(observed) # base
      THEN Average(observed)
      ELSE None

\* get_recent_items_for_customer_product: at most three lines, the newest
\* first.
Recent(items) ==
    SubSeq(items, 1, IF Len(items) < MinSalesForPattern THEN Len(items) ELSE MinSalesForPattern)

\* Their margins; a line without a cost, from before costs were kept, takes
\* the place of an older one that has it.
Observed(items) ==
    LET known == SelectSeq(Recent(items), LAMBDA i : i.cost # None)
    IN  [k \in DOMAIN known |-> known[k].price - known[k].cost]

----------------------------------------------------------------------------
(* _resolve_sale_item_pricing.                                             *)

Refused == [refused |-> TRUE]

NothingAsked(ask) == ask.price = None /\ ask.percent = None /\ ask.amount = None
BothDiscounts(ask) == ask.percent # None /\ ask.amount # None
Discounted(ask) == ask.percent # None \/ ask.amount # None

\* The habitual margin replaces the standard one only if nothing was asked.
Habitual(p, cost, ask, items) ==
    IF NothingAsked(ask)
      THEN DetectHabitualMargin(Observed(items), BaseMargin(p, cost))
      ELSE None

Suggested(p, cost, ask, items) ==
    LET habitual == Habitual(p, cost, ask, items)
    IN  IF habitual = None THEN SuggestedUnitPrice(p, cost) ELSE cost + habitual

UnitPrice(suggested, ask) ==
    CASE ask.price # None -> ask.price
      [] ask.price = None /\ ask.percent # None ->
            HalfUp(suggested * (10000 - ask.percent), 10000)
      [] ask.price = None /\ ask.percent = None /\ ask.amount # None ->
            suggested - ask.amount
      [] OTHER -> suggested

\* A typed price comes without discounts, and above the suggested one it
\* comes with a reason.  No price is negative.
Refuses(suggested, ask) ==
    \/ BothDiscounts(ask)
    \/ ask.price # None /\ Discounted(ask)
    \/ ask.price # None /\ ask.price > suggested /\ ~ask.reason
    \/ UnitPrice(suggested, ask) < 0

ResolvePricing(p, cost, ask, items) ==
    LET suggested == Suggested(p, cost, ask, items)
        price == UnitPrice(suggested, ask)
    IN  IF Refuses(suggested, ask)
          THEN Refused
          ELSE [refused |-> FALSE, price |-> price, suggested |-> suggested,
                profit |-> price - cost,
                overridden |-> ask.price # None /\ price # suggested,
                habitual |-> Habitual(p, cost, ask, items) # None]

\* preview_sale shows a refused line at the suggested price, with a warning.
PreviewPricing(p, cost, ask, items) ==
    LET resolved == ResolvePricing(p, cost, ask, items)
    IN  IF resolved.refused
          THEN [price |-> SuggestedUnitPrice(p, cost), profit |-> BaseMargin(p, cost),
                warning |-> TRUE]
          ELSE [price |-> resolved.price, profit |-> resolved.profit, warning |-> FALSE]
=============================================================================
