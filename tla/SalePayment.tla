---------------------------- MODULE SalePayment ----------------------------
(***************************************************************************)
(* The payment of a sale and its ENTRADA in the cash book.                 *)
(*                                                                         *)
(* A sale is paid or pending.  The panel's PATCH and PUT move it both      *)
(* ways, the agent's registrar_cobro collects it on a date it chooses, and *)
(* registrar_movimiento_caja may hang one more ENTRADA on it.  All of them *)
(* read the sale without locking it and write it back at the commit.  The  *)
(* UPDATE, the INSERT or DELETE of cash rows and the COMMIT follow one     *)
(* another with no read in between: they are one step.                     *)
(***************************************************************************)
EXTENDS Naturals

CONSTANTS
    Sessions,
    Sales,
    Zero,        \* the sales whose total is zero: a gift, a sample
    Dates,
    NoDate,
    LooseDates,  \* the dates of ENTRADAs the agent adds by hand
    MaxEntries   \* bound on the cash rows ever inserted

ASSUME PaymentAssumption ==
    /\ Zero \subseteq Sales
    /\ NoDate \notin Dates
    /\ LooseDates \subseteq Dates
    /\ MaxEntries \in Nat

VARIABLES
    pending,   \* sales.is_payment_pending of the sales that exist
    payDate,   \* sales.payment_date
    entradas,  \* the ENTRADA rows of cash_movements that name a sale; the
               \* date of one is the day of its occurred_at
    lastId,    \* the cash rows inserted so far
    op,        \* what each session is doing
    stale      \* the ENTRADA rows a session selected, to delete them

vars == <<pending, payDate, entradas, lastId, op, stale>>

Existing == DOMAIN pending
Entrada == [id : Nat, sale : Sales, date : Dates]
NoOp == [kind |-> "none"]
Operation ==
    {NoOp}
    \cup [kind : {"pay"}, sale : Sales, date : Dates]
    \cup [kind : {"unpay", "deleting"}, sale : Sales]

TypeOK ==
    /\ Existing \subseteq Sales
    /\ pending \in [Existing -> BOOLEAN]
    /\ payDate \in [Existing -> Dates \cup {NoDate}]
    /\ entradas \subseteq Entrada
    /\ lastId \in Nat
    /\ op \in [Sessions -> Operation]
    /\ stale \in [Sessions -> SUBSET Entrada]

EntradasOf(v) == {e \in entradas : e.sale = v}

Init ==
    /\ pending = [v \in {} |-> TRUE]
    /\ payDate = [v \in {} |-> NoDate]
    /\ entradas = {}
    /\ lastId = 0
    /\ op = [s \in Sessions |-> NoOp]
    /\ stale = [s \in Sessions |-> {}]

----------------------------------------------------------------------------

Insert(v, d) ==
    /\ lastId < MaxEntries
    /\ lastId' = lastId + 1
    /\ entradas' = entradas \cup {[id |-> lastId', sale |-> v, date |-> d]}

\* Mutant of Record: the rule of the zero total is dropped.
RecordAlways(v, d) == Insert(v, d)

\* CashService.record inside the transaction of its caller; a total of zero
\* is no movement.
Record(v, d) == IF v \in Zero THEN UNCHANGED <<entradas, lastId>> ELSE Insert(v, d)

\* SaleService.create: a pending sale has no payment date and no ENTRADA.  The
\* payment date of a paid one is fechaPago; its ENTRADA is of occurredAt.  Each
\* is the date of the sale by default, and a request may give either.
CreateSale ==
    \E v \in Sales \ Existing, d \in Dates \cup {NoDate}, at \in Dates :
        /\ pending' = [w \in Existing \cup {v} |-> IF w = v THEN d = NoDate ELSE pending[w]]
        /\ payDate' = [w \in Existing \cup {v} |-> IF w = v THEN d ELSE payDate[w]]
        /\ IF d = NoDate THEN UNCHANGED <<entradas, lastId>> ELSE Record(v, at)
        /\ UNCHANGED <<op, stale>>

\* PATCH or PUT of a sale read as pending: paid today, unless the sale
\* already has a payment date.  Read as paid there is nothing to do.
LoadToPay(s) ==
    /\ op[s] = NoOp
    /\ \E v \in Existing, today \in Dates :
          LET date == IF payDate[v] = NoDate THEN today ELSE payDate[v] IN
          /\ pending[v]
          /\ op' = [op EXCEPT ![s] = [kind |-> "pay", sale |-> v, date |-> date]]
    /\ UNCHANGED <<pending, payDate, entradas, lastId, stale>>

\* registrar_cobro, once approved, reads the sale again (_venta_a_cobrar)
\* and collects it on the date the person gave.
LoadToCollect(s) ==
    /\ op[s] = NoOp
    /\ \E v \in Existing, date \in Dates :
          /\ pending[v]
          /\ op' = [op EXCEPT ![s] = [kind |-> "pay", sale |-> v, date |-> date]]
    /\ UNCHANGED <<pending, payDate, entradas, lastId, stale>>

\* Mutant of CommitPay: the status moves, the cash book does not.
ForgetEntry(s) ==
    /\ op[s].kind = "pay"
    /\ pending' = [pending EXCEPT ![op[s].sale] = FALSE]
    /\ payDate' = [payDate EXCEPT ![op[s].sale] = op[s].date]
    /\ op' = [op EXCEPT ![s] = NoOp]
    /\ UNCHANGED <<entradas, lastId, stale>>

\* Mutant of CommitPay: the ENTRADA is dated before the payment date is set.
RecordFirst(s) ==
    /\ op[s].kind = "pay"
    /\ pending' = [pending EXCEPT ![op[s].sale] = FALSE]
    /\ payDate' = [payDate EXCEPT ![op[s].sale] = op[s].date]
    /\ Record(op[s].sale, payDate[op[s].sale])
    /\ op' = [op EXCEPT ![s] = NoOp]
    /\ UNCHANGED stale

\* _apply_payment_status_transition to paid, flushed and committed.
CommitPay(s) ==
    /\ op[s].kind = "pay"
    /\ pending' = [pending EXCEPT ![op[s].sale] = FALSE]
    /\ payDate' = [payDate EXCEPT ![op[s].sale] = op[s].date]
    /\ Record(op[s].sale, op[s].date)
    /\ op' = [op EXCEPT ![s] = NoOp]
    /\ UNCHANGED stale

LoadToUnpay(s) ==
    /\ op[s] = NoOp
    /\ \E v \in Existing :
          /\ ~pending[v]
          /\ op' = [op EXCEPT ![s] = [kind |-> "unpay", sale |-> v]]
    /\ UNCHANGED <<pending, payDate, entradas, lastId, stale>>

\* A statement of its own selects the ENTRADA rows to delete.
SelectEntradas(s) ==
    /\ op[s].kind = "unpay"
    /\ stale' = [stale EXCEPT ![s] = EntradasOf(op[s].sale)]
    /\ op' = [op EXCEPT ![s] = [kind |-> "deleting", sale |-> op[s].sale]]
    /\ UNCHANGED <<pending, payDate, entradas, lastId>>

\* Mutant of CommitUnpay: the payment date survives.
KeepDate(s) ==
    /\ op[s].kind = "deleting"
    /\ pending' = [pending EXCEPT ![op[s].sale] = TRUE]
    /\ entradas' = entradas \ stale[s]
    /\ op' = [op EXCEPT ![s] = NoOp]
    /\ stale' = [stale EXCEPT ![s] = {}]
    /\ UNCHANGED <<payDate, lastId>>

\* A row that is gone already only makes SQLAlchemy warn.
CommitUnpay(s) ==
    /\ op[s].kind = "deleting"
    /\ pending' = [pending EXCEPT ![op[s].sale] = TRUE]
    /\ payDate' = [payDate EXCEPT ![op[s].sale] = NoDate]
    /\ entradas' = entradas \ stale[s]
    /\ op' = [op EXCEPT ![s] = NoOp]
    /\ stale' = [stale EXCEPT ![s] = {}]
    /\ UNCHANGED lastId

\* registrar_movimiento_caja(tipo = "entrada", venta_id = v).
RecordByHand ==
    \E v \in Existing, d \in LooseDates :
        /\ Insert(v, d)
        /\ UNCHANGED <<pending, payDate, op, stale>>

\* The request dies before its commit.
Fail(s) ==
    /\ op[s] # NoOp
    /\ op' = [op EXCEPT ![s] = NoOp]
    /\ stale' = [stale EXCEPT ![s] = {}]
    /\ UNCHANGED <<pending, payDate, entradas, lastId>>

Next ==
    \/ CreateSale
    \/ RecordByHand
    \/ \E s \in Sessions :
          \/ LoadToPay(s) \/ LoadToCollect(s) \/ CommitPay(s)
          \/ LoadToUnpay(s) \/ SelectEntradas(s) \/ CommitUnpay(s)
          \/ Fail(s)

Spec == Init /\ [][Next]_vars

----------------------------------------------------------------------------

\* payment_date follows is_payment_pending: the two columns are written by
\* the same UPDATE, so no interleaving separates them.
DateMatchesStatus == \A v \in Existing : pending[v] <=> payDate[v] = NoDate

\* A payment is in the book once: one ENTRADA per paid sale, none per
\* pending sale, none for a total of zero.
OneEntradaPerPayment ==
    \A v \in Existing :
        IF pending[v] \/ v \in Zero
          THEN EntradasOf(v) = {}
          ELSE \E e \in EntradasOf(v) : EntradasOf(v) = {e}
=============================================================================
