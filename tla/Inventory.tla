----------------------------- MODULE Inventory -----------------------------
(***************************************************************************)
(* Stock, FIFO lots and purchases of one business, as the services of the  *)
(* sales back end change them from concurrent database sessions.           *)
(*                                                                         *)
(* A session is one HTTP request or one tool call of the agent: it runs    *)
(* one operation as one PostgreSQL transaction under READ COMMITTED.  Its  *)
(* writes stay in the session (mem, took, delta) until the commit, which   *)
(* is one step; the row locks it takes (SELECT ... FOR UPDATE, UPDATE) are *)
(* explicit and last until it ends.  One action is one statement, or the   *)
(* locking of one row.  Any exception, lost connection or process death    *)
(* before the commit rolls the session back.                               *)
(*                                                                         *)
(* A lot is an item of a purchase: the code keeps both in purchase_items.  *)
(***************************************************************************)
EXTENDS Integers, Relation

CONSTANTS
    Sessions,      \* concurrent database sessions
    Products,
    Purchases,
    Lots,          \* purchase items
    LotPurchase,   \* the purchase a lot belongs to
    LotProduct,    \* the product a lot holds
    LotAge,        \* the order of (purchase date, created_at): distinct per lot
    PurchaseDate,
    Carts,         \* what a sale may ask for: [date, lines: Seq([product, qty])]
    Paid,          \* the purchases whose total is above zero
    MaxQty,        \* bound on the quantity of a purchase item
    BaseStock,     \* Product.stock at creation, which no lot backs
    PanelStock,    \* the values the panel may type into Product.stock
    Free           \* the owner of a row nobody has locked

ASSUME LotAssumption ==
    /\ IsFiniteSet(Lots)
    /\ LotPurchase \in [Lots -> Purchases]
    /\ LotProduct \in [Lots -> Products]
    /\ LotAge \in [Lots -> Nat]
    /\ \A k, l \in Lots : LotAge[k] = LotAge[l] => k = l
    /\ PurchaseDate \in [Purchases -> Nat]

ASSUME CartAssumption ==
    \A c \in Carts :
        /\ c.date \in Nat
        /\ DOMAIN c.lines \subseteq Nat /\ IsFiniteSet(DOMAIN c.lines)
        /\ 1 \in DOMAIN c.lines
        /\ \A i \in DOMAIN c.lines :
              c.lines[i].product \in Products /\ c.lines[i].qty \in Nat \ {0}

ASSUME ValueAssumption ==
    /\ MaxQty \in Nat
    /\ Paid \subseteq Purchases
    /\ BaseStock \in [Products -> Int]
    /\ PanelStock \subseteq Int
    /\ Free \notin Sessions

VARIABLES
    status,     \* purchases.status
    qty,        \* purchase_items.quantity; 0: the purchase has no such item
    remaining,  \* purchase_items.remaining_quantity
    sold,       \* what the sale_item_lot_allocations rows of a lot add up to
    stock,      \* products.stock
    salida,     \* how many SALIDA rows of cash_movements name the purchase
    purLock, lotLock, prodLock,   \* the session holding each row, or Free
    op,         \* the operation a session runs
    pc,         \* its next statement
    line,       \* a sale: the cart line being priced
    todo,       \* the rows it still has to lock or to go through
    need,       \* a sale: to_consume of allocate_fifo
    mem,        \* a sale: PurchaseItem.remaining_quantity in the session
    took,       \* a sale: quantity_allocated per lot, not committed yet
    delta       \* what its add_to_stock calls add to each product

committed == <<status, qty, remaining, sold, stock, salida>>
locks == <<purLock, lotLock, prodLock>>
session == <<op, pc, line, todo, need, mem, took, delta>>
vars == <<committed, locks, session>>

----------------------------------------------------------------------------
(* Types. *)

Status == {"absent", "draft", "confirmed", "cancelled", "deleted"}
Kinds == {"confirm", "cancel", "delete", "update"}
NoOp == [kind |-> "none"]
Operation ==
    {NoOp}
    \cup [kind : {"sale"}, cart : Carts]
    \cup [kind : Kinds, purchase : Purchases]
    \cup [kind : {"panel"}, product : Products, read : Int]
Owner == Sessions \cup {Free}
Labels == {"idle", "check", "select", "lots", "stock", "commit",
           "purchase", "items", "decide", "apply", "panel"}

TypeOK ==
    /\ status \in [Purchases -> Status]
    /\ qty \in [Lots -> Nat]
    /\ remaining \in [Lots -> Nat]
    /\ sold \in [Lots -> Nat]
    /\ stock \in [Products -> Int]
    /\ salida \in [Purchases -> Nat]
    /\ purLock \in [Purchases -> Owner]
    /\ lotLock \in [Lots -> Owner]
    /\ prodLock \in [Products -> Owner]
    /\ op \in [Sessions -> Operation]
    /\ pc \in [Sessions -> Labels]
    /\ line \in [Sessions -> Nat]
    /\ todo \in [Sessions -> SUBSET Lots]
    /\ need \in [Sessions -> Nat]
    /\ mem \in [Sessions -> [Lots -> Nat]]
    /\ took \in [Sessions -> [Lots -> Nat]]
    /\ delta \in [Sessions -> [Products -> Int]]

----------------------------------------------------------------------------
(* Rows and locks. *)

NoLots == [l \in Lots |-> 0]
NoProducts == [p \in Products |-> 0]

\* A FOR UPDATE or an UPDATE goes on once no other session holds the row.
RowFree(owner, s) == owner \in {Free, s}

Unlocked(f, s) == [r \in DOMAIN f |-> IF f[r] = s THEN Free ELSE f[r]]

\* The end of a transaction: its locks go, and what it held in memory.
Ended(s) ==
    /\ purLock' = Unlocked(purLock, s)
    /\ lotLock' = Unlocked(lotLock, s)
    /\ prodLock' = Unlocked(prodLock, s)
    /\ op' = [op EXCEPT ![s] = NoOp]
    /\ pc' = [pc EXCEPT ![s] = "idle"]
    /\ line' = [line EXCEPT ![s] = 0]
    /\ todo' = [todo EXCEPT ![s] = {}]
    /\ need' = [need EXCEPT ![s] = 0]
    /\ mem' = [mem EXCEPT ![s] = NoLots]
    /\ took' = [took EXCEPT ![s] = NoLots]
    /\ delta' = [delta EXCEPT ![s] = NoProducts]

\* Mutant of Rollback: the transaction of a request that fails stays open.
LeftOpen(s) ==
    /\ op' = [op EXCEPT ![s] = NoOp]
    /\ pc' = [pc EXCEPT ![s] = "idle"]
    /\ UNCHANGED <<committed, locks, line, todo, need, mem, took, delta>>

Rollback(s) == Ended(s) /\ UNCHANGED committed

ItemsOf(p) == {l \in Lots : LotPurchase[l] = p /\ qty[l] > 0}
\* Mutant of Oldest: ORDER BY the newest first.
Newest(S) == {l \in S : \A k \in S : LotAge[k] <= LotAge[l]}
Oldest(S) == {l \in S : \A k \in S : LotAge[l] <= LotAge[k]}
\* Mutant of Lesser: takes what is asked for, whatever the lot holds.
Asked(a, b) == b
Lesser(a, b) == IF a <= b THEN a ELSE b

Init ==
    /\ status = [p \in Purchases |-> "absent"]
    /\ qty = NoLots /\ remaining = NoLots /\ sold = NoLots
    /\ stock = BaseStock
    /\ salida = [p \in Purchases |-> 0]
    /\ purLock = [p \in Purchases |-> Free]
    /\ lotLock = [l \in Lots |-> Free]
    /\ prodLock = [p \in Products |-> Free]
    /\ op = [s \in Sessions |-> NoOp]
    /\ pc = [s \in Sessions |-> "idle"]
    /\ line = [s \in Sessions |-> 0]
    /\ todo = [s \in Sessions |-> {}]
    /\ need = [s \in Sessions |-> 0]
    /\ mem = [s \in Sessions |-> NoLots]
    /\ took = [s \in Sessions |-> NoLots]
    /\ delta = [s \in Sessions |-> NoProducts]

----------------------------------------------------------------------------
(* SaleService.create. *)

CartLine(s) == op[s].cart.lines[line[s]]

BeginSale(s) ==
    /\ pc[s] = "idle"
    /\ \E c \in Carts : op' = [op EXCEPT ![s] = [kind |-> "sale", cart |-> c]]
    /\ line' = [line EXCEPT ![s] = 1]
    /\ pc' = [pc EXCEPT ![s] = "check"]
    /\ UNCHANGED <<committed, locks, todo, need, mem, took, delta>>

\* The stock the session reads: the committed one and its own updates.
StockRead(s, p) == stock[p] + delta[s][p]

\* An unlocked read: `product.stock < item_data.quantity` is a 400.
CheckStock(s) ==
    /\ pc[s] = "check"
    /\ StockRead(s, CartLine(s).product) >= CartLine(s).qty
    /\ pc' = [pc EXCEPT ![s] = "select"]
    /\ UNCHANGED <<committed, locks, op, line, todo, need, mem, took, delta>>

RefuseStock(s) ==
    /\ pc[s] = "check"
    /\ StockRead(s, CartLine(s).product) < CartLine(s).qty
    /\ Rollback(s)

\* The rows get_fifo_available_lots selects, in the statement's snapshot.
Available(p, date) ==
    {l \in Lots : /\ LotProduct[l] = p
                  /\ status[LotPurchase[l]] = "confirmed"
                  /\ remaining[l] > 0
                  /\ PurchaseDate[LotPurchase[l]] <= date}

SelectLots(s) ==
    /\ pc[s] = "select"
    /\ todo' = [todo EXCEPT ![s] = Available(CartLine(s).product, op[s].cart.date)]
    /\ need' = [need EXCEPT ![s] = CartLine(s).qty]
    /\ pc' = [pc EXCEPT ![s] = "lots"]
    /\ UNCHANGED <<committed, locks, op, line, mem, took, delta>>

\* Mutant of LotRead: a second line of a product does not see the first.
CommittedLot(s, l) == remaining[l]

\* What the session sees in a lot as it locks it: the committed quantity,
\* or what it left there itself for an earlier line of the same sale.
LotRead(s, l) == IF lotLock[l] = s THEN mem[s][l] ELSE remaining[l]

\* FOR UPDATE OF purchase_items locks the rows in ORDER BY order and drops
\* one that a sale emptied meanwhile.  allocate_fifo then takes from each
\* row in that order; the rows being locked, the two loops are one.
LockLot(s) ==
    /\ pc[s] = "lots"
    /\ \E l \in Oldest(todo[s]) :
          LET take == Lesser(LotRead(s, l), need[s]) IN
          /\ RowFree(lotLock[l], s)
          /\ lotLock' = [lotLock EXCEPT ![l] = s]
          /\ mem' = [mem EXCEPT ![s][l] = LotRead(s, l) - take]
          /\ took' = [took EXCEPT ![s][l] = @ + take]
          /\ need' = [need EXCEPT ![s] = @ - take]
          /\ todo' = [todo EXCEPT ![s] = @ \ {l}]
    /\ UNCHANGED <<committed, purLock, prodLock, op, pc, line, delta>>

Allocated(s) ==
    /\ pc[s] = "lots"
    /\ todo[s] = {}
    /\ need[s] = 0
    /\ pc' = [pc EXCEPT ![s] = "stock"]
    /\ UNCHANGED <<committed, locks, op, line, todo, need, mem, took, delta>>

\* InsufficientLots, which the orchestrator turns into a 409.
RefuseLots(s) ==
    /\ pc[s] = "lots"
    /\ todo[s] = {}
    /\ need[s] > 0
    /\ Rollback(s)

\* Mutant of AddToStock: writes from the stock it loaded, so a second line
\* of the same product forgets the first.
AddToLoadedStock(s, p, d) ==
    /\ RowFree(prodLock[p], s)
    /\ prodLock' = [prodLock EXCEPT ![p] = s]
    /\ delta' = [delta EXCEPT ![s][p] = d]

\* UPDATE products SET stock = stock + d: the row stays locked.
AddToStock(s, p, d) ==
    /\ RowFree(prodLock[p], s)
    /\ prodLock' = [prodLock EXCEPT ![p] = s]
    /\ delta' = [delta EXCEPT ![s][p] = @ + d]

TakeStock(s) ==
    /\ pc[s] = "stock"
    /\ AddToStock(s, CartLine(s).product, -CartLine(s).qty)
    /\ IF line[s] + 1 \in DOMAIN op[s].cart.lines
         THEN /\ line' = [line EXCEPT ![s] = @ + 1]
              /\ pc' = [pc EXCEPT ![s] = "check"]
         ELSE /\ pc' = [pc EXCEPT ![s] = "commit"]
              /\ UNCHANGED line
    /\ UNCHANGED <<committed, purLock, lotLock, op, todo, need, mem, took>>

\* The commit writes the value the session holds for every lot it took from.
CommitSale(s) ==
    /\ pc[s] = "commit"
    /\ remaining' = [l \in Lots |-> IF took[s][l] > 0 THEN mem[s][l] ELSE remaining[l]]
    /\ sold' = [l \in Lots |-> sold[l] + took[s][l]]
    /\ stock' = [p \in Products |-> stock[p] + delta[s][p]]
    /\ Ended(s)
    /\ UNCHANGED <<status, qty, salida>>

Sale(s) ==
    \/ CheckStock(s) \/ RefuseStock(s) \/ SelectLots(s) \/ LockLot(s)
    \/ Allocated(s) \/ RefuseLots(s) \/ TakeStock(s) \/ CommitSale(s)

----------------------------------------------------------------------------
(* PurchaseService: create, and the four operations that enter through     *)
(* _get_for_update.                                                        *)

\* The items of a purchase: at most one lot of the model per item.
ItemLists(p) ==
    {q \in [Lots -> 0..MaxQty] :
        /\ \A l \in Lots : LotPurchase[l] # p => q[l] = qty[l]
        /\ \E l \in Lots : LotPurchase[l] = p /\ q[l] > 0}

CreatePurchase ==
    \E p \in Purchases :
        /\ status[p] = "absent"
        /\ status' = [status EXCEPT ![p] = "draft"]
        /\ qty' \in ItemLists(p)
        /\ UNCHANGED <<remaining, sold, stock, salida, locks, session>>

BeginOnPurchase(s) ==
    /\ pc[s] = "idle"
    /\ \E k \in Kinds, p \in Purchases :
          /\ status[p] # "absent"
          /\ op' = [op EXCEPT ![s] = [kind |-> k, purchase |-> p]]
    /\ pc' = [pc EXCEPT ![s] = "purchase"]
    /\ UNCHANGED <<committed, locks, line, todo, need, mem, took, delta>>

\* SELECT ... FOR UPDATE of the purchase; no row left is a 404.
LockPurchase(s) ==
    /\ pc[s] = "purchase"
    /\ LET p == op[s].purchase
       IN /\ RowFree(purLock[p], s)
          /\ status[p] # "deleted"
          /\ purLock' = [purLock EXCEPT ![p] = s]
          /\ todo' = [todo EXCEPT ![s] = ItemsOf(p)]
    /\ pc' = [pc EXCEPT ![s] = "items"]
    /\ UNCHANGED <<committed, lotLock, prodLock, op, line, need, mem, took, delta>>

PurchaseGone(s) ==
    /\ pc[s] = "purchase"
    /\ RowFree(purLock[op[s].purchase], s)
    /\ status[op[s].purchase] = "deleted"
    /\ Rollback(s)

\* SELECT ... FOR UPDATE of its items, in no stated order.
LockItem(s) ==
    /\ pc[s] = "items"
    /\ \E l \in todo[s] :
          /\ RowFree(lotLock[l], s)
          /\ lotLock' = [lotLock EXCEPT ![l] = s]
          /\ todo' = [todo EXCEPT ![s] = @ \ {l}]
    /\ UNCHANGED <<committed, purLock, prodLock, op, pc, line, need, mem, took, delta>>

ItemsLocked(s) ==
    /\ pc[s] = "items"
    /\ todo[s] = {}
    /\ pc' = [pc EXCEPT ![s] = "decide"]
    /\ UNCHANGED <<committed, locks, op, line, todo, need, mem, took, delta>>

\* From here the status and the items are read under the locks.
Deciding(s, k) == pc[s] = "decide" /\ op[s].kind = k
StatusOf(s) == status[op[s].purchase]

\* Mutants of Editable and Confirmable: the confirmed purchase slips through.
EditableTooLong(p) == status[p] # "cancelled"
ConfirmableAgain(p) == status[p] \in {"draft", "confirmed"}
Editable(p) == status[p] = "draft"
Deletable(p) == status[p] # "confirmed"
Confirmable(p) == status[p] = "draft"

\* Every answer that leaves the database as it was: the 409s, and the
\* idempotent returns of confirm and cancel.
NothingToDo(s) ==
    /\ \/ Deciding(s, "update") /\ ~Editable(op[s].purchase)
       \/ Deciding(s, "delete") /\ ~Deletable(op[s].purchase)
       \/ Deciding(s, "confirm") /\ ~Confirmable(op[s].purchase)
       \/ Deciding(s, "cancel") /\ StatusOf(s) = "cancelled"
    /\ Rollback(s)

CommitUpdate(s) ==
    /\ Deciding(s, "update") /\ Editable(op[s].purchase)
    /\ qty' \in ItemLists(op[s].purchase)
    /\ Ended(s)
    /\ UNCHANGED <<status, remaining, sold, stock, salida>>

CommitDelete(s) ==
    /\ Deciding(s, "delete") /\ Deletable(op[s].purchase)
    /\ status' = [status EXCEPT ![op[s].purchase] = "deleted"]
    /\ qty' = [l \in Lots |-> IF LotPurchase[l] = op[s].purchase THEN 0 ELSE qty[l]]
    /\ Ended(s)
    /\ UNCHANGED <<remaining, sold, stock, salida>>

\* A draft is cancelled without touching stock, lots or cash.
CancelDraft(s) ==
    /\ Deciding(s, "cancel") /\ StatusOf(s) = "draft"
    /\ status' = [status EXCEPT ![op[s].purchase] = "cancelled"]
    /\ Ended(s)
    /\ UNCHANGED <<qty, remaining, sold, stock, salida>>

\* confirm and cancel walk the items, one add_to_stock each.
StartItems(s) ==
    /\ \/ Deciding(s, "confirm") /\ Confirmable(op[s].purchase)
       \/ Deciding(s, "cancel") /\ StatusOf(s) = "confirmed"
    /\ todo' = [todo EXCEPT ![s] = ItemsOf(op[s].purchase)]
    /\ pc' = [pc EXCEPT ![s] = "apply"]
    /\ UNCHANGED <<committed, locks, op, line, need, mem, took, delta>>

Applying(s, k) == pc[s] = "apply" /\ op[s].kind = k

ConfirmItem(s) ==
    /\ Applying(s, "confirm")
    /\ \E l \in todo[s] :
          /\ AddToStock(s, LotProduct[l], qty[l])
          /\ todo' = [todo EXCEPT ![s] = @ \ {l}]
    /\ UNCHANGED <<committed, purLock, lotLock, op, pc, line, need, mem, took>>

\* A lot only exists from the confirmation on, and so does the SALIDA.
CommitConfirm(s) ==
    /\ Applying(s, "confirm")
    /\ todo[s] = {}
    /\ LET p == op[s].purchase
       IN /\ status' = [status EXCEPT ![p] = "confirmed"]
          /\ remaining' = [l \in Lots |-> IF l \in ItemsOf(p) THEN qty[l] ELSE remaining[l]]
          /\ salida' = IF p \in Paid THEN [salida EXCEPT ![p] = @ + 1] ELSE salida
    /\ stock' = [p \in Products |-> stock[p] + delta[s][p]]
    /\ Ended(s)
    /\ UNCHANGED <<qty, sold>>

\* Mutant of Consumed: cancel does not look at what was sold.
NeverConsumed(l) == FALSE
Consumed(l) == qty[l] - remaining[l] > 0

CancelItem(s) ==
    /\ Applying(s, "cancel")
    /\ \E l \in todo[s] :
          /\ ~Consumed(l)
          /\ StockRead(s, LotProduct[l]) - remaining[l] >= 0
          /\ AddToStock(s, LotProduct[l], -remaining[l])
          /\ todo' = [todo EXCEPT ![s] = @ \ {l}]
    /\ UNCHANGED <<committed, purLock, lotLock, op, pc, line, need, mem, took>>

\* 409: units already sold, or the stock would go below zero.  The second
\* test is made with the product row locked.
RefuseCancel(s) ==
    /\ Applying(s, "cancel")
    /\ \E l \in todo[s] :
          \/ Consumed(l)
          \/ /\ RowFree(prodLock[LotProduct[l]], s)
             /\ StockRead(s, LotProduct[l]) - remaining[l] < 0
    /\ Rollback(s)

CommitCancel(s) ==
    /\ Applying(s, "cancel")
    /\ todo[s] = {}
    /\ LET p == op[s].purchase
       IN /\ status' = [status EXCEPT ![p] = "cancelled"]
          /\ remaining' = [l \in Lots |-> IF l \in ItemsOf(p) THEN 0 ELSE remaining[l]]
          /\ salida' = [salida EXCEPT ![p] = 0]
    /\ stock' = [p \in Products |-> stock[p] + delta[s][p]]
    /\ Ended(s)
    /\ UNCHANGED <<qty, sold>>

PurchaseStep(s) ==
    \/ LockPurchase(s) \/ PurchaseGone(s) \/ LockItem(s) \/ ItemsLocked(s)
    \/ NothingToDo(s) \/ CommitUpdate(s) \/ CommitDelete(s) \/ CancelDraft(s)
    \/ StartItems(s) \/ ConfirmItem(s) \/ CommitConfirm(s)
    \/ CancelItem(s) \/ RefuseCancel(s) \/ CommitCancel(s)

----------------------------------------------------------------------------
(* ProductService.update with a stock: an unlocked read, an absolute write. *)

BeginPanel(s) ==
    /\ pc[s] = "idle"
    /\ \E p \in Products :
          op' = [op EXCEPT ![s] = [kind |-> "panel", product |-> p, read |-> stock[p]]]
    /\ pc' = [pc EXCEPT ![s] = "panel"]
    /\ UNCHANGED <<committed, locks, line, todo, need, mem, took, delta>>

\* The session emits no UPDATE when the typed value is the one it read.
PanelWrite(s) ==
    /\ pc[s] = "panel"
    /\ \E v \in PanelStock :
          \/ v = op[s].read /\ UNCHANGED stock
          \/ /\ v # op[s].read
             /\ RowFree(prodLock[op[s].product], s)
             /\ stock' = [stock EXCEPT ![op[s].product] = v]
    /\ Ended(s)
    /\ UNCHANGED <<status, qty, remaining, sold, salida>>

----------------------------------------------------------------------------
(* PostgreSQL and the process. *)

\* The sessions that hold the row a session asks for next.
Holders(s) ==
    CASE pc[s] = "purchase" -> {purLock[op[s].purchase]}
      [] pc[s] = "lots" -> {lotLock[l] : l \in Oldest(todo[s])}
      [] pc[s] = "items" -> {lotLock[l] : l \in todo[s]}
      [] pc[s] = "stock" -> {prodLock[CartLine(s).product]}
      [] pc[s] = "apply" -> {prodLock[LotProduct[l]] : l \in todo[s]}
      [] pc[s] = "panel" -> {prodLock[op[s].product]}
      [] OTHER -> {}

WaitsFor == [s, t \in Sessions |-> t # s /\ t \in Holders(s) /\ Holders(s) \cap {s, Free} = {}]

InDeadlock(s) == TransitiveClosure(WaitsFor, Sessions)[<<s, s>>]

\* The deadlock detector aborts one transaction of a cycle.
DeadlockVictim(s) ==
    /\ pc[s] # "idle"
    /\ InDeadlock(s)
    /\ Rollback(s)

\* A refused validation (customer, product, price), a lost connection, a
\* process that dies: get_db closes the session, the server rolls it back.
Fail(s) == pc[s] # "idle" /\ Rollback(s)

Step(s) == Sale(s) \/ PurchaseStep(s) \/ PanelWrite(s)

Next ==
    \/ CreatePurchase
    \/ \E s \in Sessions :
          \/ BeginSale(s) \/ BeginOnPurchase(s) \/ BeginPanel(s)
          \/ Step(s) \/ DeadlockVictim(s) \/ Fail(s)

Spec == Init /\ [][Next]_vars

\* PostgreSQL queues the sessions that wait for a row, so one that asks
\* again and again gets it; its deadlock detector runs on every long wait.
FairSpec ==
    /\ Spec
    /\ \A s \in Sessions : SF_vars(Step(s)) /\ WF_vars(DeadlockVictim(s))

----------------------------------------------------------------------------
(* Properties. *)

\* Whatever the sessions interleave, the units of a confirmed lot are either
\* in it or in a committed sale, and a lot that was never confirmed or was
\* cancelled has no unit and no sale: nothing is sold twice, nothing is lost.
LotConservation ==
    \A l \in Lots :
        IF status[LotPurchase[l]] = "confirmed"
          THEN remaining[l] + sold[l] = qty[l]
          ELSE remaining[l] = 0 /\ sold[l] = 0

\* A purchase that cost money has one SALIDA in the cash book exactly while
\* it is confirmed, also when two requests confirm or cancel it at once.
SalidaMatchesStatus ==
    \A p \in Purchases :
        salida[p] = IF status[p] = "confirmed" /\ p \in Paid THEN 1 ELSE 0

\* Once confirmed, a purchase keeps its items, and the one way out is cancel.
ConfirmedIsFrozen ==
    [][\A p \in Purchases : status[p] = "confirmed" =>
          /\ status'[p] \in {"confirmed", "cancelled"}
          /\ \A l \in Lots : LotPurchase[l] = p => qty'[l] = qty[l]]_vars
=============================================================================
