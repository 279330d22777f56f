-------------------------- MODULE InventoryChecks --------------------------
(***************************************************************************)
(* The properties of Inventory that add up lots, the liveness of its       *)
(* requests, and the abstract ledger it implements.                        *)
(***************************************************************************)
EXTENDS SalePreview

LotTotal(f, p) == MapThenSumSet(LAMBDA l : f[l], {l \in Lots : LotProduct[l] = p})

PanelWrites == \E s \in Sessions : PanelWrite(s)

\* The two representations of the inventory move together: every step that
\* is not the panel's own edit changes the stock of a product by exactly
\* what it changes the remaining quantity of its lots, although the stock is
\* written by relative updates, line by line, and the lots by values the
\* session computed, also when a sale repeats a product on several lines.
StockMovesWithLots ==
    [][\/ \A p \in Products :
             stock'[p] - stock[p] = LotTotal(remaining', p) - LotTotal(remaining, p)
       \/ PanelWrites]_vars

\* Every request ends: it answers, or PostgreSQL picks it to break a
\* deadlock.  Sales and cancellations lock rows in different orders, so the
\* detector is needed.
EveryRequestEnds == \A s \in Sessions : pc[s] # "idle" ~> pc[s] = "idle"

\* What readers see is a sequence of atomic operations.
Ledger == INSTANCE LotLedger
            WITH status <- status, qty <- qty, remaining <- remaining, sold <- sold,
                 stock <- stock, salida <- salida
ImplementsLedger == Ledger!Spec
=============================================================================
