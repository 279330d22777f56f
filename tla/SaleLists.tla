----------------------------- MODULE SaleLists ------------------------------
(***************************************************************************)
(* The readers of the sales: the list of the panel and of the agent, with  *)
(* its count and its sum, what customers owe, the profit report and the    *)
(* sales of the month.  They are functions of the sales that exist, of     *)
(* which are pending and of the rest of each, here a constant: a PUT may   *)
(* change its date and customer, and a reader takes them as they are.      *)
(***************************************************************************)
EXTENDS CashBook

CONSTANTS
    Customer,    \* of each sale
    SoldOn,      \* sales.date
    CreatedAt,   \* sales.created_at
    Items,       \* its lines: [line, product, quantity, subtotal, profit]
    Unset        \* a filter that is not given

Products == {i.product : i \in UNION {Items[v] : v \in Sales}}

ASSUME SaleAssumption ==
    /\ Unset \notin BOOLEAN /\ Unset \notin Int /\ IsFiniteSet(Products)
    /\ \A v \in Sales : SoldOn[v] \in Dates /\ CreatedAt[v] \in Nat
    /\ \A v \in Sales : IsFiniteSet(Items[v])
    /\ \A v \in Sales : \A i \in Items[v] :
          i.quantity \in Nat /\ i.subtotal \in Nat /\ i.profit \in Int
    /\ \A v, w \in Sales : CreatedAt[v] = CreatedAt[w] => v = w
    /\ \A v \in Sales : Total[v] = MapThenSumSet(LAMBDA i : i.subtotal, Items[v])

----------------------------------------------------------------------------
(* The list: one filter for its page, its count and its sum.               *)

NoFilter == [customer |-> Unset, product |-> Unset, start |-> Unset, end |-> Unset, pending |-> Unset]
Owed == [NoFilter EXCEPT !.pending = TRUE]

\* Mutant of Filtered: the list forgets the filter by payment.
PaidOrNot(f) ==
    {v \in Existing :
        /\ f.customer \in {Unset, Customer[v]}
        /\ f.product = Unset \/ \E i \in Items[v] : i.product = f.product
        /\ f.start = Unset \/ SoldOn[v] >= f.start
        /\ f.end = Unset \/ SoldOn[v] <= f.end}

\* _apply_filters.
Filtered(f) ==
    {v \in Existing :
        /\ f.customer \in {Unset, Customer[v]}
        /\ f.product = Unset \/ \E i \in Items[v] : i.product = f.product
        /\ f.start = Unset \/ SoldOn[v] >= f.start
        /\ f.end = Unset \/ SoldOn[v] <= f.end
        /\ f.pending \in {Unset, pending[v]}}

CountSales(f) == Cardinality(Filtered(f))
TotalOf(S) == MapThenSumSet(LAMBDA v : Total[v], S)
SumTotal(f) == TotalOf(Filtered(f))

\* The last ones created first.
GetAll(f, limit, offset) ==
    LET S == Filtered(f)
        list == Ordered(S, {p \in S \X S : CreatedAt[p[1]] > CreatedAt[p[2]]})
    IN  SubSeq(list, offset + 1, Min({Len(list), offset + limit}))

ListSales(f, limit, offset) ==
    [data |-> GetAll(f, limit, offset), total |-> CountSales(f), totalAmount |-> SumTotal(f)]

\* consultar_ventas: what the agent sees of it, on a day.
ConsultarVentas(f, limit, offset, today) ==
    LET sales == GetAll(f, limit, offset)
    IN  [ventas |-> [k \in DOMAIN sales |->
                        [id |-> sales[k],
                         daysPending |-> IF pending[sales[k]] THEN today - SoldOn[sales[k]]
                                                              ELSE Unset]],
         montoTotal |-> SumTotal(f),
         hayMas |-> offset + Len(sales) < CountSales(f)]

\* The two numbers of the panel, and the sales of the month so far.
PendingPayments == [total |-> SumTotal(Owed), count |-> CountSales(Owed)]
SalesThisMonth(firstDay, today) ==
    TotalOf({v \in Existing : SoldOn[v] \in firstDay..today})

----------------------------------------------------------------------------
(* The reports.                                                            *)

LinesOf(S) == UNION {{[sale |-> v, item |-> i] : i \in Items[v]} : v \in S}

\* receivable_by_product: the lines of the sales still to be collected.
Receivable(p) ==
    MapThenSumSet(LAMBDA l : l.item.subtotal,
                  {l \in LinesOf({v \in Existing : pending[v]}) : l.item.product = p})

Key(groupBy, l) ==
    CASE groupBy = "sale" -> l.sale
      [] groupBy = "customer" -> Customer[l.sale]
      [] groupBy = "product" -> l.item.product

\* build_profit_rows.
ProfitRows(S, groupBy) ==
    LET lines(key) == {l \in LinesOf(S) : Key(groupBy, l) = key}
    IN  [key \in {Key(groupBy, l) : l \in LinesOf(S)} |->
            [quantity |-> MapThenSumSet(LAMBDA l : l.item.quantity, lines(key)),
             revenue |-> MapThenSumSet(LAMBDA l : l.item.subtotal, lines(key)),
             profit |-> MapThenSumSet(LAMBDA l : l.item.profit, lines(key))]]

\* get_profit_report: its totals cover the rows its limit leaves out.
ProfitTotals(start, end, groupBy) ==
    LET rows == ProfitRows(Filtered([NoFilter EXCEPT !.start = start, !.end = end]), groupBy)
    IN  [quantity |-> MapThenSumSet(LAMBDA k : rows[k].quantity, DOMAIN rows),
         revenue |-> MapThenSumSet(LAMBDA k : rows[k].revenue, DOMAIN rows),
         profit |-> MapThenSumSet(LAMBDA k : rows[k].profit, DOMAIN rows)]

----------------------------------------------------------------------------

\* What was sold was collected or is owed: the sum of the sales is the sum of
\* those that are pending plus what payments brought into the cash book.
CollectedOrOwed ==
    crossed = {} =>
        SumTotal(NoFilter)
            = PendingPayments.total + RunningBalance(Max(Dates)) - Sum(Standing)

\* What the agent reads page by page, for as long as hay_mas says so, is
\* every sale of the filter once, and monto_total is the sum of them.
PagesMakeTheList(f, today) ==
    LET page(k) == ConsultarVentas(f, 1, k - 1, today)
        last == CHOOSE k \in 1 .. CountSales(f) + 1 :
                    ~page(k).hayMas /\ \A j \in 1 .. k - 1 : page(j).hayMas
        read == FlattenSeq([k \in 1..last |-> page(k).ventas])
        ids == {read[k].id : k \in DOMAIN read}
    IN  /\ ids = Filtered(f) /\ Len(read) = ListSales(f, 1, 0).total
        /\ page(1).montoTotal = TotalOf(ids)
        /\ \A k \in DOMAIN read : (read[k].daysPending # Unset) <=> pending[read[k].id]

\* The three groupings of the profit report have the same totals, and their
\* revenue is the sum of the list over the same days.
ReportsAddUp(start, end) ==
    LET of(g) == ProfitTotals(start, end, g)
    IN  /\ of("sale") = of("customer") /\ of("customer") = of("product")
        /\ of("sale").revenue = SumTotal([NoFilter EXCEPT !.start = start, !.end = end])
        /\ of("sale").revenue = SalesThisMonth(start, end)

\* The money of the sales, however it is read, is collected or owed, while
\* payments cross, die and are taken back: the cash of every day and what
\* customers owe make up what was sold (of sales nobody crossed at), what
\* they owe by product is what they owe by sale, and the lists and the
\* reports add up to the same sums.
SoldIsCollectedOrOwed ==
    /\ CashIsWhatWasCollected
    /\ CollectedOrOwed
    /\ PendingPayments.total = MapThenSumSet(Receivable, Products)
    /\ \A f \in {NoFilter, Owed} : PagesMakeTheList(f, Max(Dates))
    /\ \A start, end \in Dates : ReportsAddUp(start, end)
=============================================================================
