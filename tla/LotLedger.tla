----------------------------- MODULE LotLedger -----------------------------
(***************************************************************************)
(* What the inventory promises to whoever reads the database: every        *)
(* operation happens at once or not at all.  The stock of a product, the   *)
(* remaining quantity of its lots, the allocations of the sales and the    *)
(* cash exits of the purchases move together in one step.                  *)
(***************************************************************************)
EXTENDS Integers, FiniteSetsExt

CONSTANTS Products, Purchases, Lots, LotPurchase, LotProduct, Paid, MaxQty,
          BaseStock, PanelStock

VARIABLES status, qty, remaining, sold, stock, salida

ledger == <<status, qty, remaining, sold, stock, salida>>

OfPurchase(p) == {l \in Lots : LotPurchase[l] = p}
Total(f, p) == MapThenSumSet(LAMBDA l : f[l], {l \in Lots : LotProduct[l] = p})

Init ==
    /\ status = [p \in Purchases |-> "absent"]
    /\ qty = [l \in Lots |-> 0] /\ remaining = qty /\ sold = qty
    /\ stock = BaseStock
    /\ salida = [p \in Purchases |-> 0]

\* A draft moves nothing but its own items.
Draft(p) ==
    /\ status[p] \in {"absent", "draft"}
    /\ status' = [status EXCEPT ![p] = "draft"]
    /\ \E q \in [OfPurchase(p) -> 0..MaxQty] :
          qty' = [l \in Lots |-> IF l \in OfPurchase(p) THEN q[l] ELSE qty[l]]
    /\ UNCHANGED <<remaining, sold, stock, salida>>

Confirm(p) ==
    /\ status[p] = "draft"
    /\ status' = [status EXCEPT ![p] = "confirmed"]
    /\ remaining' = [l \in Lots |-> IF l \in OfPurchase(p) THEN qty[l] ELSE remaining[l]]
    /\ stock' = [q \in Products |-> stock[q] + Total(remaining', q) - Total(remaining, q)]
    /\ salida' = [salida EXCEPT ![p] = IF p \in Paid THEN 1 ELSE 0]
    /\ UNCHANGED <<qty, sold>>

\* Cancelling a confirmed purchase undoes all of it, and only if nothing of
\* it was sold.
Cancel(p) ==
    /\ status[p] \in {"draft", "confirmed"}
    /\ \A l \in OfPurchase(p) : sold[l] = 0
    /\ status' = [status EXCEPT ![p] = "cancelled"]
    /\ remaining' = [l \in Lots |-> IF l \in OfPurchase(p) THEN 0 ELSE remaining[l]]
    /\ stock' = [q \in Products |-> stock[q] + Total(remaining', q) - Total(remaining, q)]
    /\ salida' = [salida EXCEPT ![p] = 0]
    /\ UNCHANGED <<qty, sold>>

Delete(p) ==
    /\ status[p] \in {"draft", "cancelled"}
    /\ status' = [status EXCEPT ![p] = "deleted"]
    /\ qty' = [l \in Lots |-> IF l \in OfPurchase(p) THEN 0 ELSE qty[l]]
    /\ UNCHANGED <<remaining, sold, stock, salida>>

\* A sale takes units of confirmed lots, never more than they hold, and
\* lowers the stock of each product by what it took.
Sell ==
    \E t \in [Lots -> 0..MaxQty] :
        /\ \E l \in Lots : t[l] > 0
        /\ \A l \in Lots : /\ t[l] <= remaining[l]
                           /\ t[l] > 0 => status[LotPurchase[l]] = "confirmed"
        /\ remaining' = [l \in Lots |-> remaining[l] - t[l]]
        /\ sold' = [l \in Lots |-> sold[l] + t[l]]
        /\ stock' = [q \in Products |-> stock[q] - Total(t, q)]
        /\ UNCHANGED <<status, qty, salida>>

\* The panel may write any stock, and nothing else with it.
Recount ==
    /\ \E p \in Products, v \in PanelStock : stock' = [stock EXCEPT ![p] = v]
    /\ UNCHANGED <<status, qty, remaining, sold, salida>>

Next ==
    \/ \E p \in Purchases : Draft(p) \/ Confirm(p) \/ Cancel(p) \/ Delete(p)
    \/ Sell
    \/ Recount

Spec == Init /\ [][Next]_ledger
=============================================================================
