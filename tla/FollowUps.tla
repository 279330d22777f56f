----------------------------- MODULE FollowUps -----------------------------
(***************************************************************************)
(* The purchase cycle of a customer and product, and its follow-up: the    *)
(* reminder a sale opens on the projected date, and that the next sale, a  *)
(* postponement or a dismissal closes.                                     *)
(*                                                                         *)
(* A session is one request: a sale (after its lots were allocated), a     *)
(* postponement or a dismissal.  Its writes reach the tables at the        *)
(* commit; the rows it has updated or selected FOR UPDATE are in heldRows  *)
(* and heldProducts until then.  A sale takes the product row first (the   *)
(* UPDATE of add_to_stock) and keeps it: that, and no lock on the cycle    *)
(* read, is what serialises the sales of a product.  The sync column and   *)
(* the wake signal are what the calendar thread works from.                *)
(***************************************************************************)
EXTENDS Naturals, Sequences, FiniteSetsExt, SequencesExt

CONSTANTS
    Sessions,
    Customers,
    Products,
    NoProduct,
    Dates,            \* of sales, in days
    RefreshMayFail,   \* whether the read after a commit may raise
    MaxSales,         \* bound: no sale begins beyond it
    MaxRows           \* bound: nothing that opens a follow-up begins beyond it

ASSUME FollowUpAssumption ==
    /\ NoProduct \notin Products
    /\ Dates \subseteq Nat
    /\ RefreshMayFail \in BOOLEAN
    /\ MaxSales \in Nat
    /\ MaxRows \in Nat

VARIABLES
    sales,      \* the committed sales: customer, products, date
    cycle,      \* customer_product_cycles
    rows,       \* follow_ups, by order of insertion
    wake,       \* the threading.Event of calendar_sync
    op, pc,     \* what a session runs, and its next statement
    heldProducts, heldRows,   \* the rows it has locked
    left,       \* a sale: the products it still has to lock or to project
    product,    \* the product of the line in hand
    mine,       \* the cycles it wrote
    found,      \* the open follow-up it read last, or 0
    asPending,  \* those of them it read with sync_status = pending
    opening     \* the products it inserted a follow-up for

tables == <<sales, cycle, rows>>
memory == <<left, product, mine, found, asPending, opening>>
session == <<op, pc, heldProducts, heldRows, memory>>
vars == <<tables, wake, session>>

----------------------------------------------------------------------------

NoCycle == [last |-> 0, projected |-> FALSE, exists |-> FALSE]
Cycle == [last : Nat, projected : BOOLEAN, exists : BOOLEAN]
NoOp == [kind |-> "none"]
Reasons == {"none", "sale", "postponed", "dismissed"}
FollowUp == [customer : Customers, product : Products,
             closeReason : Reasons, sync : {"pending", "synced", "failed"}]
Sale == [customer : Customers, products : SUBSET Products, date : Dates]
Operation ==
    {NoOp}
    \cup [kind : {"sale"}, customer : Customers, products : SUBSET Products, date : Dates]
    \cup [kind : {"postpone", "dismiss"}, row : Nat]
Labels == {"idle", "stock", "cycle", "renew", "fill", "close", "open", "lock", "decide", "notify"}

TypeOK ==
    /\ sales \in Seq(Sale)
    /\ cycle \in [Customers \X Products -> Cycle]
    /\ rows \in Seq(FollowUp)
    /\ wake \in BOOLEAN
    /\ op \in [Sessions -> Operation]
    /\ pc \in [Sessions -> Labels]
    /\ heldProducts \in [Sessions -> SUBSET Products]
    /\ heldRows \in [Sessions -> SUBSET Nat]
    /\ left \in [Sessions -> SUBSET Products]
    /\ product \in [Sessions -> Products \cup {NoProduct}]
    /\ mine \in [Sessions -> [Products -> Cycle]]
    /\ found \in [Sessions -> Nat]
    /\ asPending \in [Sessions -> SUBSET Nat]
    /\ opening \in [Sessions -> SUBSET Products]

\* status = 'open' exactly when close_reason is null (a check constraint).
IsOpen(i) == rows[i].closeReason = "none"
OpenOf(c, p) ==
    {i \in DOMAIN rows : IsOpen(i) /\ rows[i].customer = c /\ rows[i].product = p}

RowFree(i, s) == \A t \in Sessions \ {s} : i \notin heldRows[t]
ProductFree(p, s) == \A t \in Sessions \ {s} : p \notin heldProducts[t]

Init ==
    /\ sales = <<>>
    /\ cycle = [cp \in Customers \X Products |-> NoCycle]
    /\ rows = <<>>
    /\ wake = FALSE
    /\ op = [s \in Sessions |-> NoOp]
    /\ pc = [s \in Sessions |-> "idle"]
    /\ heldProducts = [s \in Sessions |-> {}]
    /\ heldRows = [s \in Sessions |-> {}]
    /\ left = [s \in Sessions |-> {}]
    /\ product = [s \in Sessions |-> NoProduct]
    /\ mine = [s \in Sessions |-> [p \in Products |-> NoCycle]]
    /\ found = [s \in Sessions |-> 0]
    /\ asPending = [s \in Sessions |-> {}]
    /\ opening = [s \in Sessions |-> {}]

\* The end of a transaction; a committed one goes on to request the pass.
EndedAt(s, label) ==
    /\ op' = [op EXCEPT ![s] = IF label = "idle" THEN NoOp ELSE @]
    /\ pc' = [pc EXCEPT ![s] = label]
    /\ heldProducts' = [heldProducts EXCEPT ![s] = {}]
    /\ heldRows' = [heldRows EXCEPT ![s] = {}]
    /\ left' = [left EXCEPT ![s] = {}]
    /\ product' = [product EXCEPT ![s] = NoProduct]
    /\ mine' = [mine EXCEPT ![s] = [p \in Products |-> NoCycle]]
    /\ found' = [found EXCEPT ![s] = 0]
    /\ asPending' = [asPending EXCEPT ![s] = {}]
    /\ opening' = [opening EXCEPT ![s] = {}]

Rollback(s) == EndedAt(s, "idle") /\ UNCHANGED <<tables, wake>>

----------------------------------------------------------------------------
(* SaleService.create, from add_to_stock to the end.                       *)

BeginSale(s) ==
    /\ pc[s] = "idle"
    /\ Len(sales) < MaxSales /\ Len(rows) < MaxRows
    /\ \E c \in Customers, ps \in SUBSET Products \ {{}}, d \in Dates :
          /\ op' = [op EXCEPT ![s] = [kind |-> "sale", customer |-> c,
                                      products |-> ps, date |-> d]]
          /\ left' = [left EXCEPT ![s] = ps]
    /\ pc' = [pc EXCEPT ![s] = "stock"]
    /\ UNCHANGED <<tables, wake, heldProducts, heldRows, product, mine, found, asPending, opening>>

\* Mutant of TakeStock: the stock is written at the commit, and nothing is
\* locked before.
TakeNothing(s) ==
    /\ pc[s] = "stock"
    /\ pc' = [pc EXCEPT ![s] = "cycle"]
    /\ UNCHANGED <<tables, wake, op, heldProducts, heldRows, memory>>

\* add_to_stock of each line; the cart's order is any order.
TakeStock(s) ==
    /\ pc[s] = "stock"
    /\ \E p \in left[s] :
          /\ ProductFree(p, s)
          /\ heldProducts' = [heldProducts EXCEPT ![s] = @ \cup {p}]
          /\ left' = [left EXCEPT ![s] = IF @ = {p} THEN op[s].products ELSE @ \ {p}]
          /\ pc' = [pc EXCEPT ![s] = IF left[s] = {p} THEN "cycle" ELSE @]
    /\ UNCHANGED <<tables, wake, op, heldRows, product, mine, found, asPending, opening>>

\* The dates of the committed sales of a pair: get_by_customer.
History(c, p) ==
    {sales[i].date : i \in {j \in DOMAIN sales : /\ sales[j].customer = c
                                                 /\ p \in sales[j].products}}

NewInformation(prev, d) == ~prev.exists \/ d > prev.last

\* Mutant of FirstProjection: a late sale never opens the first follow-up.
NeverFirst(prev, next) == FALSE
FirstProjection(prev, next) == ~prev.projected /\ next.projected

\* Mutant of Projected: the date of the sale replaces last_purchase_date.
LatestWrite(prev, dates, d) ==
    [last |-> d, projected |-> Cardinality(dates) >= 2, exists |-> TRUE]

\* project needs two distinct dates; a late sale leaves last_purchase_date.
Projected(prev, dates, d) ==
    [last |-> IF d >= prev.last THEN d ELSE prev.last,
     projected |-> Cardinality(dates) >= 2,
     exists |-> TRUE]

\* One line: read the cycle and the sales, write the cycle.  A product comes
\* once per sale here: a second line of it finds its own date in the cycle,
\* and the follow-ups stay as they are.
UpdateCycle(s) ==
    /\ pc[s] = "cycle"
    /\ \E p \in left[s] :
          LET c == op[s].customer
              d == op[s].date
              prev == cycle[<<c, p>>]
              next == Projected(prev, History(c, p) \cup {d}, d)
          IN /\ left' = [left EXCEPT ![s] = @ \ {p}]
             /\ mine' = [mine EXCEPT ![s][p] = next]
             /\ product' = [product EXCEPT ![s] = p]
             /\ pc' = [pc EXCEPT ![s] =
                         CASE NewInformation(prev, d) -> "renew"
                           [] ~NewInformation(prev, d) /\ FirstProjection(prev, next) -> "fill"
                           [] OTHER -> "cycle"]
    /\ UNCHANGED <<tables, wake, op, heldProducts, heldRows, found, asPending, opening>>

\* record_purchase opens the next follow-up if the pair has a projection.
AfterClosing(s) == IF mine[s][product[s]].projected THEN "open" ELSE "cycle"

\* get_open is an unlocked read.
FindToClose(s) ==
    /\ pc[s] = "renew"
    /\ LET open == OpenOf(op[s].customer, product[s]) IN
          IF open = {}
            THEN /\ pc' = [pc EXCEPT ![s] = AfterClosing(s)]
                 /\ UNCHANGED <<found, asPending>>
            ELSE \E i \in open :
                 /\ pc' = [pc EXCEPT ![s] = "close"]
                 /\ found' = [found EXCEPT ![s] = i]
                 /\ asPending' = [asPending EXCEPT ![s] =
                                    IF rows[i].sync = "pending" THEN @ \cup {i} ELSE @]
    /\ UNCHANGED <<tables, wake, op, heldProducts, heldRows, left, product, mine, opening>>

\* open_if_missing.
FindMissing(s) ==
    /\ pc[s] = "fill"
    /\ pc' = [pc EXCEPT ![s] =
                IF OpenOf(op[s].customer, product[s]) = {} THEN "open" ELSE "cycle"]
    /\ UNCHANGED <<tables, wake, op, heldProducts, heldRows, memory>>

\* _close flushes UPDATE ... WHERE id = found, whatever the row has become.
Close(s) ==
    /\ pc[s] = "close"
    /\ RowFree(found[s], s)
    /\ heldRows' = [heldRows EXCEPT ![s] = @ \cup {found[s]}]
    /\ pc' = [pc EXCEPT ![s] = AfterClosing(s)]
    /\ UNCHANGED <<tables, wake, op, heldProducts, memory>>

\* Mutant of Taken: an index that is not unique.
NeverTaken(s) == FALSE

\* The partial unique index: an open follow-up of the pair that this
\* transaction has not closed.
Taken(s) == OpenOf(op[s].customer, product[s]) \ heldRows[s] # {}

Open(s) ==
    /\ pc[s] = "open"
    /\ ~Taken(s)
    /\ opening' = [opening EXCEPT ![s] = @ \cup {product[s]}]
    /\ pc' = [pc EXCEPT ![s] = "cycle"]
    /\ UNCHANGED <<tables, wake, op, heldProducts, heldRows, left, product, mine,
                   found, asPending>>

\* The IntegrityError rolls back the whole sale.
Collide(s) == pc[s] = "open" /\ Taken(s) /\ Rollback(s)

\* Mutant of NewRow: the follow-up is not offered to the calendar.
SkippedRow(c, p) == [customer |-> c, product |-> p, closeReason |-> "none", sync |-> "skipped"]
NewRow(c, p) == [customer |-> c, product |-> p, closeReason |-> "none", sync |-> "pending"]

\* SQLAlchemy leaves out of the UPDATE a column set to the value it was read
\* with: a row read as pending keeps what the table has by now.
SyncOnClose(i, untouched) == IF i \in untouched THEN rows[i].sync ELSE "pending"

Closed(i, reason, untouched) ==
    [rows[i] EXCEPT !.closeReason = reason, !.sync = SyncOnClose(i, untouched)]

CommitSale(s) ==
    /\ pc[s] = "cycle"
    /\ left[s] = {}
    /\ LET c == op[s].customer IN
          /\ sales' = Append(sales, [customer |-> c, products |-> op[s].products,
                                     date |-> op[s].date])
          /\ cycle' = [cp \in Customers \X Products |->
                          IF cp[1] = c /\ cp[2] \in op[s].products
                            THEN mine[s][cp[2]] ELSE cycle[cp]]
          /\ rows' = [i \in DOMAIN rows |->
                         IF i \in heldRows[s] THEN Closed(i, "sale", asPending[s]) ELSE rows[i]]
                     \o SetToSeq({NewRow(c, p) : p \in opening[s]})
    /\ EndedAt(s, "notify")
    /\ UNCHANGED wake

\* PUT of a sale may move its date and its customer.  It recomputes no cycle
\* and no follow-up, and it asks for no pass.
EditSale ==
    /\ \E i \in DOMAIN sales, c \in Customers, d \in Dates :
          sales' = [sales EXCEPT ![i].customer = c, ![i].date = d]
    /\ UNCHANGED <<cycle, rows, wake, session>>

----------------------------------------------------------------------------
(* FollowUpService.postpone and dismiss.                                   *)

BeginByHand(s) ==
    /\ pc[s] = "idle"
    /\ Len(rows) < MaxRows
    /\ \E k \in {"postpone", "dismiss"}, i \in DOMAIN rows :
          op' = [op EXCEPT ![s] = [kind |-> k, row |-> i]]
    /\ pc' = [pc EXCEPT ![s] = "lock"]
    /\ UNCHANGED <<tables, wake, heldProducts, heldRows, memory>>

\* get_by_id_for_update.
LockRow(s) ==
    /\ pc[s] = "lock"
    /\ RowFree(op[s].row, s)
    /\ heldRows' = [heldRows EXCEPT ![s] = {op[s].row}]
    /\ pc' = [pc EXCEPT ![s] = "decide"]
    /\ UNCHANGED <<tables, wake, op, heldProducts, memory>>

\* 409: the other one of a double submission came first.
RefuseClosed(s) == pc[s] = "decide" /\ ~IsOpen(op[s].row) /\ Rollback(s)

\* The old follow-up closes and the new one of the same pair opens.
Postponed(s) ==
    LET i == op[s].row IN
    Append([rows EXCEPT ![i] = Closed(i, "postponed", {})],
           NewRow(rows[i].customer, rows[i].product))

\* Nothing here checks the index: under the row lock it cannot refuse.
Postpone(s) ==
    /\ pc[s] = "decide" /\ op[s].kind = "postpone"
    /\ IsOpen(op[s].row)
    /\ rows' = Postponed(s)
    /\ EndedAt(s, "notify")
    /\ UNCHANGED <<sales, cycle, wake>>

Dismiss(s) ==
    /\ pc[s] = "decide" /\ op[s].kind = "dismiss"
    /\ IsOpen(op[s].row)
    /\ rows' = [rows EXCEPT ![op[s].row] = Closed(op[s].row, "dismissed", {})]
    /\ EndedAt(s, "notify")
    /\ UNCHANGED <<sales, cycle, wake>>

----------------------------------------------------------------------------

\* request_calendar_sync, after the commit.
Notify(s) ==
    /\ pc[s] = "notify"
    /\ wake' = TRUE
    /\ EndedAt(s, "idle")
    /\ UNCHANGED tables

\* db.refresh, between the commit and the request, needs a connection: the
\* pool is exhausted or the server is gone.  A dismissal refreshes nothing.
RefreshFails(s) ==
    /\ RefreshMayFail
    /\ pc[s] = "notify" /\ op[s].kind # "dismiss"
    /\ Rollback(s)

\* A refused validation or a lost connection before the commit.
Fail(s) == pc[s] \notin {"idle", "notify"} /\ Rollback(s)

Step(s) ==
    \/ TakeStock(s) \/ UpdateCycle(s) \/ FindToClose(s) \/ FindMissing(s)
    \/ Close(s) \/ Open(s) \/ Collide(s) \/ CommitSale(s)
    \/ LockRow(s) \/ RefuseClosed(s) \/ Postpone(s) \/ Dismiss(s) \/ Notify(s)

Next ==
    \/ EditSale
    \/ \E s \in Sessions :
          BeginSale(s) \/ BeginByHand(s) \/ Step(s) \/ RefreshFails(s) \/ Fail(s)

Spec == Init /\ [][Next]_vars

----------------------------------------------------------------------------

\* A customer and product has one open follow-up at most.  The index refuses
\* a sale's second one; a postponement must never produce one, also when it
\* is sent twice or crosses a sale, for then it would answer 500.
OneOpenPerPair ==
    \A c \in Customers, p \in Products : Cardinality(OpenOf(c, p)) <= 1

\* last_purchase_date only goes forward, although a sale computes it from an
\* unlocked read: two sales of one product never overlap there.
LastPurchaseGoesForward ==
    [][\A cp \in Customers \X Products : cycle'[cp].last >= cycle[cp].last]_vars

\* A sale is never lost to the index because of another sale: it takes a
\* postponement of the very row it was about to close.
SalesNeverCollide ==
    [][\A s \in Sessions : Collide(s) =>
          found[s] # 0 /\ rows[found[s]].closeReason = "postponed"]_vars

\* A customer with a projection stays in the lists: the pair has an open
\* follow-up, unless a person dismissed its latest one.
ProjectedIsFollowed ==
    \A c \in Customers, p \in Products :
        LET ofPair == {i \in DOMAIN rows : rows[i].customer = c /\ rows[i].product = p} IN
        cycle[<<c, p>>].projected =>
            /\ ofPair # {}
            /\ rows[Max(ofPair)].closeReason \in {"none", "dismissed"}
=============================================================================
