------------------------------ MODULE CashBook ------------------------------
(***************************************************************************)
(* The readers of the cash book, over the ENTRADAs of SalePayment and the  *)
(* other movements of the business.  No balance is stored: the panel's     *)
(* pages compute it with a window in SQL, the agent adds it up row by row, *)
(* and the summary is one sum.  Each reader is a function of the book as   *)
(* one statement sees it.                                                  *)
(***************************************************************************)
EXTENDS Integers, PaymentHistory, Ordering, FiniteSetsExt, SequencesExt

CONSTANTS
    Total,        \* of each sale
    Standing,     \* the movements that name no sale
    LedgerLimit   \* limit=10_000

MovementTypes == {"entrada", "salida", "aporte_socio", "retiro_socio", "saldo_inicial"}
Outflows == {"salida", "retiro_socio"}

ASSUME CashAssumption ==
    /\ Dates \subseteq Nat /\ IsFiniteSet(Dates) /\ Dates # {}
    /\ Total \in [Sales -> Nat]
    /\ Zero = {v \in Sales : Total[v] = 0}
    /\ IsFiniteSet(Standing)
    /\ \A m \in Standing : /\ m.type \in MovementTypes /\ m.date \in Dates
                           /\ m.amount \in Nat \ {0} /\ m.id \in Int \ Nat
    /\ \A m, n \in Standing : m.id = n.id => m = n
    /\ LedgerLimit \in Nat

\* CashService.record takes no amount of zero: one added by hand to a gift
\* is of some amount.
Cobro(e) == [id |-> e.id, type |-> "entrada", date |-> e.date,
             amount |-> IF Total[e.sale] = 0 THEN 1 ELSE Total[e.sale]]

Book == Standing \cup {Cobro(e) : e \in entradas}

Signed(m) == IF m.type \in Outflows THEN -m.amount ELSE m.amount
Sum(S) == MapThenSumSet(Signed, S)

\* occurred_at, and created_at and id for what a batch leaves tied.
Before(m, n) == m.date < n.date \/ (m.date = n.date /\ m.id < n.id)
InOrder(S) == Ordered(S, {p \in S \X S : Before(p[1], p[2])})

Within(start, end) == {m \in Book : start <= m.date /\ m.date <= end}

----------------------------------------------------------------------------
(* The readers. *)

\* get_running_balance.
RunningBalance(asOf) == Sum({m \in Book : m.date <= asOf})

\* get_owner_balance: what the business owes its owner.
OwnerBalance ==
    LET of(t) == MapThenSumSet(LAMBDA m : m.amount, {m \in Book : m.type = t})
    IN  of("aporte_socio") - of("retiro_socio")

\* ledger: the period from a balance of zero, its first rows up to a limit.
Ledger(start, end) ==
    LET rows == InOrder(Within(start, end))
        listed == SubSeq(rows, 1, Min({Len(rows), LedgerLimit}))
    IN  [i \in DOMAIN listed |->
            [row |-> listed[i], balance |-> FoldSeq(LAMBDA m, b : b + Signed(m), 0,
                                                    SubSeq(listed, 1, i))]]

\* Mutant of Window: the period is filtered before the window adds up.
WindowOfPeriod(m, S) == Sum({n \in S : n = m \/ Before(n, m)})
\* sum(...) OVER (ORDER BY ...) on the whole book, whatever the period.
Window(m, S) == Sum({n \in Book : n = m \/ Before(n, m)})

\* get_recent_with_balance: a page, the newest first.
Recent(start, end, limit, offset) ==
    LET S == Within(start, end)
        newest == Reverse(InOrder(S))
        page == SubSeq(newest, offset + 1, Min({Len(newest), offset + limit}))
    IN  [i \in DOMAIN page |-> [row |-> page[i], balance |-> Window(page[i], S)]]

Count(start, end) == Cardinality(Within(start, end))

\* consultar_caja: the newest rows of what ledger gives, or all for a limit of 0.
Consulta(start, end, limite) ==
    LET entries == Reverse(Ledger(start, end))
    IN  IF limite = 0 THEN entries ELSE SubSeq(entries, 1, Min({Len(entries), limite}))

----------------------------------------------------------------------------

Pages(start, end, limit) ==
    FlattenSeq([k \in 1 .. Count(start, end) \div limit + 1 |->
                    Recent(start, end, limit, (k - 1) * limit)])

Shifted(rows, by) == [i \in DOMAIN rows |-> [rows[i] EXCEPT !.balance = @ + by]]

\* The three ways to compute a balance agree on every book: the pages of the
\* panel, glued, are the whole period newest first; the agent shows the same
\* rows, its balances short of them by what there was before the period; the
\* last balance up to a day is the sum up to that day.  While the period has
\* no more rows than ledger takes.
ReadersAgree ==
    \A start, end \in Dates :
        LET before == RunningBalance(start - 1)
            all == Pages(start, end, 2)
        IN  Count(start, end) <= LedgerLimit =>
                /\ all = Shifted(Consulta(start, end, 0), before)
                /\ Shifted(Consulta(start, end, 2), before) = Recent(start, end, 2, 0)
                /\ all # <<>> => all[1].balance = RunningBalance(end)

\* The day a sale counts as collected: its payment date, unless it is paid as it
\* was created.
CollectedOn(v) ==
    IF \E e \in ofCreation : e.sale = v THEN (CHOOSE e \in ofCreation : e.sale = v).date
                                        ELSE payDate[v]

\* The money in hand on any day is what there was plus every sale collected
\* up to that day, once: payments taken back, requests that die and dates
\* a person chose included.  Unless two requests were at one
\* sale at once, or somebody added an ENTRADA to it by hand.
CashIsWhatWasCollected ==
    \A day \in Dates : crossed = {} =>
        RunningBalance(day) =
            Sum({m \in Standing : m.date <= day})
            + MapThenSumSet(LAMBDA v : Total[v],
                            {v \in Existing : ~pending[v] /\ CollectedOn(v) <= day})
=============================================================================
