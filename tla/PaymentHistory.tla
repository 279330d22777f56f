--------------------------- MODULE PaymentHistory ---------------------------
(***************************************************************************)
(* SalePayment with a history: the sales that ever had two requests at     *)
(* once, those that got an ENTRADA by hand, and the ENTRADAs that came     *)
(* with a sale.  It says when a payment is in the cash book exactly once,  *)
(* and on which day; it constrains nothing.                                *)
(***************************************************************************)
EXTENDS SalePayment

VARIABLES
    crossed,   \* the sales with two requests at once, or an ENTRADA by hand
    ofCreation \* the ENTRADAs of the book that the creation of a sale recorded

hvars == <<vars, crossed, ofCreation>>

WorksOn(s, v) == op[s] # NoOp /\ op[s].sale = v

Shared == {v \in Existing : \E s, r \in Sessions : s # r /\ WorksOn(s, v) /\ WorksOn(r, v)}

ByHand == {v \in Existing : RecordByHand /\ EntradasOf(v)' # EntradasOf(v)}

Created == IF CreateSale THEN entradas' \ entradas ELSE {}

HistoryTypeOK == TypeOK /\ crossed \subseteq Sales /\ ofCreation \subseteq entradas

HInit == Init /\ crossed = {} /\ ofCreation = {}

HNext ==
    /\ Next
    /\ crossed' = crossed \cup Shared' \cup ByHand
    /\ ofCreation' = (ofCreation \cap entradas') \cup Created

HSpec == HInit /\ [][HNext]_hvars

----------------------------------------------------------------------------

\* A sale shown as paid always has its ENTRADA, so cash that was collected is
\* never missing from the book, even when two requests move the same sale in
\* opposite directions at once.  It is of the payment date, unless the sale is
\* paid as it was created: then of the day of occurredAt, whatever fechaPago
\* the same request gave.
PaidSaleHasItsEntrada ==
    \A v \in Existing \ Zero :
        ~pending[v] => \E e \in EntradasOf(v) : e \in ofCreation \/ e.date = payDate[v]

\* A payment is in the book exactly once, unless two requests were at the
\* sale at once or somebody added to it by hand: a sequence of payments and
\* un-payments, with requests that die, never doubles or loses it.
OneEntradaUnlessCrossed ==
    \A v \in Existing \ crossed :
        IF pending[v] \/ v \in Zero
          THEN EntradasOf(v) = {}
          ELSE \E e \in EntradasOf(v) : EntradasOf(v) = {e}
=============================================================================
