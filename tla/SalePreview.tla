---------------------------- MODULE SalePreview ----------------------------
(***************************************************************************)
(* SaleService.preview_sale: what the panel and the agent show before a    *)
(* sale.  It reads the committed lots, locks nothing and writes nothing.   *)
(* Every line starts from the same lots: a line does not see what an       *)
(* earlier one of the same product was shown to take.                      *)
(***************************************************************************)
EXTENDS Inventory, FiniteSetsExt

UnitsOf(S) == MapThenSumSet(LAMBDA l : remaining[l], S)

\* allocate_fifo over the lots S: each gives what the older ones leave to
\* consume.  If the lots fall short, all they have, as the preview retries.
AllocateFifo(S, n) ==
    LET older(l) == {k \in S : LotAge[k] < LotAge[l]}
        toConsume(l) == IF UnitsOf(older(l)) < n THEN n - UnitsOf(older(l)) ELSE 0
    IN  [l \in Lots |-> IF l \in S THEN Lesser(remaining[l], toConsume(l)) ELSE 0]

Candidates(cart, i) == Available(cart.lines[i].product, cart.date)

\* The lot_previews of a line, and those of the sale, added up.
ShownLine(cart, i) == AllocateFifo(Candidates(cart, i), cart.lines[i].qty)
Shown(cart) ==
    [l \in Lots |-> MapThenSumSet(LAMBDA i : ShownLine(cart, i)[l], DOMAIN cart.lines)]

\* The warning that the lots do not cover a line.
Blocked(cart, i) == UnitsOf(Candidates(cart, i)) < cart.lines[i].qty

----------------------------------------------------------------------------

OnceEach(cart) ==
    \A i, j \in DOMAIN cart.lines : cart.lines[i].product = cart.lines[j].product => i = j

\* The sale has locked every lot a preview of its line would offer now: no
\* purchase was confirmed since it selected its lots.
Seen(s, i) == \A l \in Candidates(op[s].cart, i) : lotLock[l] = s

\* The allocation survives concurrency.  A sale locks its lots one by one and
\* reads each as it locks it, while other sales empty them, purchases are
\* cancelled and others confirmed; what it takes is what a preview shows of
\* the instant it commits, and it is refused for want of lots only if that
\* preview warns.  For sales with one line for each product.
PreviewTellsTheSale ==
    [][\A s \in Sessions :
          /\ CommitSale(s) /\ OnceEach(op[s].cart)
             /\ (\A i \in DOMAIN op[s].cart.lines : Seen(s, i)) =>
                   took[s] = Shown(op[s].cart)
          /\ RefuseLots(s) /\ OnceEach(op[s].cart) /\ Seen(s, line[s]) =>
                Blocked(op[s].cart, line[s])]_vars

\* The preview and the sale never differ: in sales of any lines.
PreviewIsExact ==
    [][\A s \in Sessions :
          CommitSale(s) /\ (\A i \in DOMAIN op[s].cart.lines : Seen(s, i)) =>
              took[s] = Shown(op[s].cart)]_vars
=============================================================================
