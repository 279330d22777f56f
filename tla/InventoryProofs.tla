-------------------------- MODULE InventoryProofs --------------------------
(***************************************************************************)
(* The theorems of Inventory, for any number of sessions, products,        *)
(* purchases, lots and carts.  The invariants of the runs are not          *)
(* inductive: they hold because of what each session has locked and read   *)
(* at each statement, which OperationOK, SaleOK and PurchaseOK add.  That  *)
(* stock and lots move together, and that the sessions implement LotLedger,*)
(* needs more: what each session has put together for its commit (MovesOf);*)
(* that a preview tells the sale, that it took its lots oldest first       *)
(* (FifoSoFar).                                                            *)
(***************************************************************************)
EXTENDS InventoryChecks, Sums, TLAPS

SaleLabels == {"check", "select", "lots", "stock", "commit"}
PurchaseLabels == {"purchase", "items", "decide", "apply"}

\* A session runs an operation of the kind its label belongs to.
OperationOK ==
    \A s \in Sessions :
        /\ pc[s] \in SaleLabels =>
              /\ op[s] \in [kind : {"sale"}, cart : Carts]
              /\ line[s] \in DOMAIN op[s].cart.lines
        /\ pc[s] \in PurchaseLabels => op[s] \in [kind : Kinds, purchase : Purchases]
        /\ pc[s] = "panel" => op[s] \in [kind : {"panel"}, product : Products, read : Int]

\* A sale knows the exact quantity of every lot it has locked, and takes
\* units only from lots it has locked and that are confirmed.  Nobody else
\* takes units, and a session that has just begun holds no lot.
SaleOf(s) ==
    \A l \in Lots :
        /\ pc[s] \in SaleLabels =>
              /\ lotLock[l] = s => mem[s][l] + took[s][l] = remaining[l]
              /\ took[s][l] > 0 => /\ lotLock[l] = s
                                   /\ status[LotPurchase[l]] = "confirmed"
        /\ pc[s] \notin SaleLabels => took[s][l] = 0
        /\ pc[s] \in {"idle", "purchase", "panel"} => lotLock[l] # s

\* Past LockPurchase the purchase is the session's alone, past its items
\* the items too; what confirm and cancel decided on still holds.
PurchaseOf(s) ==
    pc[s] \in PurchaseLabels =>
        LET p == op[s].purchase
        IN /\ status[p] # "absent"
           /\ pc[s] # "purchase" =>
                 /\ purLock[p] = s
                 /\ status[p] # "deleted"
                 /\ \A l \in ItemsOf(p) : lotLock[l] = s \/ (pc[s] = "items" /\ l \in todo[s])
           /\ pc[s] = "apply" =>
                 \/ op[s].kind = "confirm" /\ status[p] = "draft"
                 \/ /\ op[s].kind = "cancel" /\ status[p] = "confirmed"
                    /\ \A l \in ItemsOf(p) : l \in todo[s] \/ remaining[l] = qty[l]

SaleOK == \A s \in Sessions : SaleOf(s)
PurchaseOK == \A s \in Sessions : PurchaseOf(s)

IInv ==
    /\ TypeOK
    /\ OperationOK
    /\ SaleOK
    /\ PurchaseOK
    /\ LotConservation
    /\ SalidaMatchesStatus

----------------------------------------------------------------------------
(* Types. *)

SessionTypeOK ==
    /\ purLock \in [Purchases -> Owner]
    /\ lotLock \in [Lots -> Owner]
    /\ prodLock \in [Products -> Owner]
    /\ op \in [Sessions -> Operation]
    /\ pc \in [Sessions -> Labels]
    /\ line \in [Sessions -> Nat]
    /\ todo \in [Sessions -> SUBSET Lots]
    /\ need \in [Sessions -> Nat]
    /\ mem \in [Sessions -> [Lots -> Nat]]
    /\ took \in [Sessions -> [Lots -> Nat]]
    /\ delta \in [Sessions -> [Products -> Int]]

\* The end of a transaction leaves an idle session without an operation.
LEMMA EndedTypes ==
    ASSUME TypeOK, OperationOK, NEW s \in Sessions, Ended(s)
    PROVE  SessionTypeOK' /\ OperationOK'
<1> USE DEF TypeOK, Ended
<1>1. purLock' \in [Purchases -> Owner] /\ lotLock' \in [Lots -> Owner]
        /\ prodLock' \in [Products -> Owner]
  BY DEF Unlocked, Owner
<1>2. op' \in [Sessions -> Operation] /\ pc' \in [Sessions -> Labels]
  BY DEF Operation, Labels
<1>3. line' \in [Sessions -> Nat] /\ todo' \in [Sessions -> SUBSET Lots]
        /\ need' \in [Sessions -> Nat]
  OBVIOUS
<1>4. mem' \in [Sessions -> [Lots -> Nat]] /\ took' \in [Sessions -> [Lots -> Nat]]
        /\ delta' \in [Sessions -> [Products -> Int]]
  BY DEF NoLots, NoProducts
<1>5. OperationOK'
  BY DEF OperationOK, SaleLabels, PurchaseLabels
<1>. QED
  BY <1>1, <1>2, <1>3, <1>4, <1>5 DEF SessionTypeOK

\* So does a rollback, which writes no table.
LEMMA RollbackTypes ==
    ASSUME TypeOK, OperationOK, NEW s \in Sessions, Rollback(s)
    PROVE  TypeOK' /\ OperationOK'
BY EndedTypes DEF Rollback, committed, TypeOK, SessionTypeOK

\* add_to_stock keeps the types of the stock changes and of the product locks.
LEMMA AddToStockTypes ==
    ASSUME TypeOK, NEW s \in Sessions, NEW p \in Products, NEW d \in Int, AddToStock(s, p, d)
    PROVE  delta' \in [Sessions -> [Products -> Int]] /\ prodLock' \in [Products -> Owner]
BY DEF AddToStock, TypeOK, Owner

\* The line a sale is pricing names a product and a quantity above zero.
LEMMA CartLineType ==
    ASSUME OperationOK, NEW s \in Sessions, pc[s] \in SaleLabels
    PROVE  /\ op[s].cart \in Carts /\ op[s].cart.date \in Nat
           /\ CartLine(s).product \in Products
           /\ CartLine(s).qty \in Nat \ {0}
BY CartAssumption DEF OperationOK, CartLine

\* The steps of a sale keep the types.
LEMMA SaleTypes ==
    ASSUME TypeOK, OperationOK, NEW s \in Sessions, BeginSale(s) \/ Sale(s)
    PROVE  TypeOK' /\ OperationOK'
<1> USE DEF committed, locks
<1>1. CASE BeginSale(s)
  BY <1>1, CartAssumption DEF BeginSale, TypeOK, OperationOK, Operation, Labels,
     SaleLabels, PurchaseLabels
<1>2. CASE CheckStock(s)
  BY <1>2 DEF CheckStock, TypeOK, OperationOK, Labels, SaleLabels, PurchaseLabels
<1>3. CASE RefuseStock(s) \/ RefuseLots(s)
  BY <1>3, RollbackTypes DEF RefuseStock, RefuseLots
<1>4. CASE SelectLots(s)
  <2>1. pc[s] \in SaleLabels
    BY <1>4 DEF SelectLots, SaleLabels
  <2>. QED
    BY <1>4, <2>1, CartLineType DEF SelectLots, Available, TypeOK, OperationOK, Labels,
       SaleLabels, PurchaseLabels
<1>5. CASE LockLot(s)
  <2> PICK l \in Oldest(todo[s]) : LockLot(s)!2!(l)
    BY <1>5 DEF LockLot
  <2> DEFINE take == Lesser(LotRead(s, l), need[s])
  <2>1. l \in Lots
    BY DEF Oldest, TypeOK
  <2>2. LotRead(s, l) \in Nat /\ take \in Nat /\ take <= LotRead(s, l) /\ take <= need[s]
    BY <2>1 DEF LotRead, Lesser, TypeOK
  <2>3. mem' \in [Sessions -> [Lots -> Nat]] /\ took' \in [Sessions -> [Lots -> Nat]]
          /\ need' \in [Sessions -> Nat]
    BY <2>1, <2>2 DEF TypeOK
  <2>4. OperationOK'
    BY <1>5 DEF LockLot, OperationOK
  <2>. QED
    BY <1>5, <2>1, <2>3, <2>4 DEF LockLot, TypeOK, Owner
<1>6. CASE Allocated(s)
  BY <1>6 DEF Allocated, TypeOK, OperationOK, Labels, SaleLabels, PurchaseLabels
<1>7. CASE TakeStock(s)
  <2>1. pc[s] \in SaleLabels
    BY <1>7 DEF TakeStock, SaleLabels
  <2>2. delta' \in [Sessions -> [Products -> Int]]
    BY <1>7, <2>1, CartLineType DEF TakeStock, AddToStock, TypeOK
  <2>3. line[s] \in DOMAIN op[s].cart.lines /\ op[s] \in [kind : {"sale"}, cart : Carts]
    BY <2>1 DEF OperationOK
  <2>4. CASE line[s] + 1 \in DOMAIN op[s].cart.lines
    <3>1. line[s] + 1 \in Nat
      BY <2>3, <2>4, CartAssumption
    <3>2. line' = [line EXCEPT ![s] = @ + 1] /\ pc' = [pc EXCEPT ![s] = "check"] /\ op' = op
      BY <1>7, <2>4 DEF TakeStock
    <3>3. line' \in [Sessions -> Nat] /\ pc' \in [Sessions -> Labels]
      BY <3>1, <3>2 DEF TypeOK, Labels
    <3>4. OperationOK'
      BY <2>3, <2>4, <3>2 DEF OperationOK, TypeOK, SaleLabels, PurchaseLabels
    <3>. QED
      BY <1>7, <2>2, <3>3, <3>4, CartLineType, <2>1
         DEF TakeStock, AddToStock, TypeOK, Owner
  <2>5. CASE line[s] + 1 \notin DOMAIN op[s].cart.lines
    <3>1. line' = line /\ pc' = [pc EXCEPT ![s] = "commit"] /\ op' = op
      BY <1>7, <2>5 DEF TakeStock
    <3>2. line' \in [Sessions -> Nat] /\ pc' \in [Sessions -> Labels] /\ OperationOK'
      BY <2>3, <3>1 DEF TypeOK, Labels, OperationOK, SaleLabels, PurchaseLabels
    <3>. QED
      BY <1>7, <2>2, <3>2, CartLineType, <2>1
         DEF TakeStock, AddToStock, TypeOK, Owner
  <2>. QED
    BY <2>4, <2>5
<1>8. CASE CommitSale(s)
  <2>1. SessionTypeOK' /\ OperationOK'
    BY <1>8, EndedTypes DEF CommitSale
  <2>2. remaining' \in [Lots -> Nat] /\ sold' \in [Lots -> Nat]
    BY <1>8 DEF CommitSale, TypeOK
  <2>3. stock' \in [Products -> Int]
    BY <1>8 DEF CommitSale, TypeOK
  <2>. QED
    BY <1>8, <2>1, <2>2, <2>3 DEF CommitSale, TypeOK, SessionTypeOK
<1>. QED
  BY <1>1, <1>2, <1>3, <1>4, <1>5, <1>6, <1>7, <1>8 DEF Sale

\* So do the steps on a purchase.
LEMMA PurchaseTypes ==
    ASSUME TypeOK, OperationOK, NEW s \in Sessions, BeginOnPurchase(s) \/ PurchaseStep(s)
    PROVE  TypeOK' /\ OperationOK'
<1> USE DEF committed, locks
<1>1. CASE BeginOnPurchase(s)
  BY <1>1 DEF BeginOnPurchase, TypeOK, OperationOK, Operation, Labels, SaleLabels,
     PurchaseLabels
<1>2. CASE LockPurchase(s)
  <2>1. op[s].purchase \in Purchases
    BY <1>2 DEF LockPurchase, OperationOK, PurchaseLabels
  <2>. QED
    BY <1>2, <2>1 DEF LockPurchase, ItemsOf, TypeOK, OperationOK, Labels, Owner, SaleLabels,
       PurchaseLabels
<1>3. CASE LockItem(s)
  BY <1>3 DEF LockItem, TypeOK, OperationOK, Owner
<1>4. CASE ItemsLocked(s)
  BY <1>4 DEF ItemsLocked, TypeOK, OperationOK, Labels, SaleLabels, PurchaseLabels
<1>5. CASE PurchaseGone(s) \/ NothingToDo(s) \/ RefuseCancel(s)
  BY <1>5, RollbackTypes DEF PurchaseGone, NothingToDo, RefuseCancel
<1>6. CASE CommitUpdate(s)
  <2>1. qty' \in [Lots -> Nat]
    BY <1>6, ValueAssumption DEF CommitUpdate, ItemLists
  <2>. QED
    BY <1>6, <2>1, EndedTypes DEF CommitUpdate, TypeOK, SessionTypeOK
<1>7. CASE CommitDelete(s)
  <2>1. status' \in [Purchases -> Status]
    BY <1>7 DEF CommitDelete, TypeOK, Status
  <2>2. qty' \in [Lots -> Nat]
    BY <1>7 DEF CommitDelete, TypeOK
  <2>. QED
    BY <1>7, <2>1, <2>2, EndedTypes DEF CommitDelete, TypeOK, SessionTypeOK
<1>8. CASE CancelDraft(s)
  <2>1. status' \in [Purchases -> Status]
    BY <1>8 DEF CancelDraft, TypeOK, Status
  <2>. QED
    BY <1>8, <2>1, EndedTypes DEF CancelDraft, TypeOK, SessionTypeOK
<1>9. CASE StartItems(s)
  BY <1>9 DEF StartItems, Deciding, ItemsOf, TypeOK, OperationOK, Labels, SaleLabels,
     PurchaseLabels
<1>10. CASE ConfirmItem(s) \/ CancelItem(s)
  <2>1. PICK l \in todo[s] : \/ AddToStock(s, LotProduct[l], qty[l])
                             \/ AddToStock(s, LotProduct[l], -remaining[l])
    BY <1>10 DEF ConfirmItem, CancelItem
  <2>2. l \in Lots /\ LotProduct[l] \in Products /\ qty[l] \in Int /\ -remaining[l] \in Int
    BY LotAssumption DEF TypeOK
  <2>3. delta' \in [Sessions -> [Products -> Int]] /\ prodLock' \in [Products -> Owner]
    BY <2>1, <2>2, AddToStockTypes
  <2>4. CASE ConfirmItem(s)
    BY <2>3, <2>4 DEF ConfirmItem, TypeOK, OperationOK
  <2>5. CASE CancelItem(s)
    BY <2>3, <2>5 DEF CancelItem, TypeOK, OperationOK
  <2>. QED
    BY <1>10, <2>4, <2>5
<1>11. CASE CommitConfirm(s)
  <2>1. status' \in [Purchases -> Status]
    BY <1>11 DEF CommitConfirm, TypeOK, Status
  <2>2. remaining' \in [Lots -> Nat]
    BY <1>11 DEF CommitConfirm, TypeOK
  <2>3. stock' \in [Products -> Int]
    BY <1>11 DEF CommitConfirm, TypeOK
  <2>4. salida' \in [Purchases -> Nat]
    <3>1. \/ salida' = [salida EXCEPT ![op[s].purchase] = @ + 1]
          \/ salida' = salida
      BY <1>11 DEF CommitConfirm
    <3>2. salida \in [Purchases -> Nat] /\ op[s].purchase \in Purchases
      BY <1>11 DEF CommitConfirm, Applying, TypeOK, OperationOK, PurchaseLabels
    <3>. QED
      BY <3>1, <3>2
  <2>. QED
    BY <1>11, <2>1, <2>2, <2>3, <2>4, EndedTypes DEF CommitConfirm, TypeOK, SessionTypeOK
<1>12. CASE CommitCancel(s)
  <2>1. status' \in [Purchases -> Status]
    BY <1>12 DEF CommitCancel, TypeOK, Status
  <2>2. remaining' \in [Lots -> Nat]
    BY <1>12 DEF CommitCancel, TypeOK
  <2>3. stock' \in [Products -> Int]
    BY <1>12 DEF CommitCancel, TypeOK
  <2>4. salida' \in [Purchases -> Nat]
    BY <1>12 DEF CommitCancel, TypeOK
  <2>. QED
    BY <1>12, <2>1, <2>2, <2>3, <2>4, EndedTypes DEF CommitCancel, TypeOK, SessionTypeOK
<1>. QED
  BY <1>1, <1>2, <1>3, <1>4, <1>5, <1>6, <1>7, <1>9, <1>10, <1>11, <1>8, <1>12
     DEF PurchaseStep

\* And the creation of a purchase and the panel's edit of a product.
LEMMA OtherTypes ==
    ASSUME TypeOK, OperationOK,
           CreatePurchase \/ \E s \in Sessions : BeginPanel(s) \/ PanelWrite(s)
    PROVE  TypeOK' /\ OperationOK'
<1> USE DEF committed, locks
<1>1. CASE CreatePurchase
  <2>1. qty' \in [Lots -> Nat] /\ status' \in [Purchases -> Status]
    BY <1>1, ValueAssumption DEF CreatePurchase, ItemLists, TypeOK, Status
  <2>. QED
    BY <1>1, <2>1 DEF CreatePurchase, TypeOK, OperationOK, session
<1>2. ASSUME NEW s \in Sessions, BeginPanel(s)
      PROVE  TypeOK' /\ OperationOK'
  BY <1>2 DEF BeginPanel, TypeOK, OperationOK, Operation, Labels, SaleLabels, PurchaseLabels
<1>3. ASSUME NEW s \in Sessions, PanelWrite(s)
      PROVE  TypeOK' /\ OperationOK'
  <2>1. stock' \in [Products -> Int]
    BY <1>3, ValueAssumption DEF PanelWrite, TypeOK
  <2>. QED
    BY <1>3, <2>1, EndedTypes DEF PanelWrite, TypeOK, SessionTypeOK
<1>. QED
  BY <1>1, <1>2, <1>3

\* The types hold of the empty database.
LEMMA TypesStart == Init => TypeOK /\ OperationOK
BY LotAssumption, ValueAssumption DEF Init, TypeOK, OperationOK, NoLots, NoProducts, Status,
   Owner, Operation, Labels, SaleLabels, PurchaseLabels

\* Every step of the system keeps them.
LEMMA TypesStep == TypeOK /\ OperationOK /\ [Next]_vars => (TypeOK /\ OperationOK)'
<1> SUFFICES ASSUME TypeOK, OperationOK, [Next]_vars
             PROVE  (TypeOK /\ OperationOK)'
  OBVIOUS
<1>1. CASE Next
  <2>1. ASSUME NEW s \in Sessions, DeadlockVictim(s) \/ Fail(s)
        PROVE  (TypeOK /\ OperationOK)'
    BY <2>1, RollbackTypes DEF DeadlockVictim, Fail
  <2>. QED
    BY <1>1, <2>1, SaleTypes, PurchaseTypes, OtherTypes DEF Next, Step
<1>2. CASE UNCHANGED vars
  BY <1>2 DEF vars, committed, locks, session, TypeOK, OperationOK
<1>. QED
  BY <1>1, <1>2

\* Every variable keeps its type, and a session that runs a statement of an
\* operation always has an operation of that kind: the handlers of sales,
\* purchases and the panel never see another request's data.
THEOREM TypeCorrect == Spec => [](TypeOK /\ OperationOK)
BY TypesStart, TypesStep, PTL DEF Spec
----------------------------------------------------------------------------
(* Locks: what a session does leaves the others' assumptions alone. *)

\* The step touches the memory and the locks of s alone.
OnlySession(s) ==
    \A t \in Sessions : t # s =>
        /\ pc'[t] = pc[t] /\ op'[t] = op[t] /\ todo'[t] = todo[t]
        /\ mem'[t] = mem[t] /\ took'[t] = took[t]
        /\ \A l \in Lots : lotLock'[l] = t <=> lotLock[l] = t
        /\ \A p \in Purchases : purLock'[p] = t <=> purLock[p] = t

\* It writes only rows that s has locked, and a purchase that it takes out
\* of "confirmed" leaves no unit that somebody else could be selling.
UnderLocks(s) ==
    /\ \A l \in Lots : remaining'[l] # remaining[l] => lotLock[l] = s
    /\ \A l \in Lots : qty'[l] # qty[l] => purLock[LotPurchase[l]] = s
    /\ \A p \in Purchases :
          status'[p] # status[p] => purLock[p] = s /\ status'[p] # "absent"
    /\ \A l \in Lots :
          status[LotPurchase[l]] = "confirmed" /\ status'[LotPurchase[l]] # "confirmed"
          => lotLock[l] = s \/ remaining[l] = 0

\* Two-phase locking: such a step keeps what every other session relies on.
LEMMA OthersKept ==
    ASSUME TypeOK, OperationOK, SaleOK, PurchaseOK,
           NEW s \in Sessions, OnlySession(s), UnderLocks(s),
           NEW t \in Sessions, t # s
    PROVE  SaleOf(t)' /\ PurchaseOf(t)'
<1>1. SaleOf(t)'
  <2> SUFFICES ASSUME NEW l \in Lots
               PROVE  SaleOf(t)!(l)'
    BY DEF SaleOf
  <2>1. SaleOf(t)!(l)
    BY DEF SaleOK, SaleOf
  <2>2. /\ pc'[t] = pc[t] /\ mem'[t] = mem[t] /\ took'[t] = took[t]
        /\ lotLock'[l] = t <=> lotLock[l] = t
    BY DEF OnlySession
  <2>3. lotLock[l] = t => remaining'[l] = remaining[l]
    BY DEF UnderLocks
  <2>4. took[t][l] > 0 => status'[LotPurchase[l]] = "confirmed"
    <3>1. took[t][l] \in Nat /\ mem[t][l] \in Nat /\ remaining[l] \in Nat
      BY DEF TypeOK
    <3>. QED
      BY <2>1, <3>1 DEF UnderLocks
  <2>. QED
    BY <2>1, <2>2, <2>3, <2>4
<1>2. PurchaseOf(t)'
  <2> SUFFICES ASSUME pc[t] \in PurchaseLabels
               PROVE  PurchaseOf(t)'
    BY DEF PurchaseOf, OnlySession
  <2> DEFINE p == op[t].purchase
  <2>1. p \in Purchases /\ PurchaseOf(t)
    BY DEF OperationOK, PurchaseOK
  <2>2. /\ pc'[t] = pc[t] /\ op'[t] = op[t] /\ todo'[t] = todo[t]
        /\ purLock'[p] = t <=> purLock[p] = t
        /\ \A l \in Lots : lotLock'[l] = t <=> lotLock[l] = t
    BY <2>1 DEF OnlySession
  <2>3. status'[p] # "absent"
    BY <2>1 DEF UnderLocks, PurchaseOf
  <2>4. CASE pc[t] = "purchase"
    BY <2>2, <2>3, <2>4 DEF PurchaseOf
  <2>5. CASE pc[t] # "purchase"
    <3>1. purLock[p] = t
      BY <2>1, <2>5 DEF PurchaseOf
    <3>2. status'[p] = status[p]
      BY <2>1, <3>1 DEF UnderLocks
    <3>3. \A l \in Lots : LotPurchase[l] = p => qty'[l] = qty[l]
      BY <3>1 DEF UnderLocks
    <3>4. ItemsOf(p)' = ItemsOf(p)
      BY <2>2, <3>3 DEF ItemsOf
    <3>5. \A l \in ItemsOf(p) : l \in Lots /\ qty'[l] = qty[l]
      BY <3>3 DEF ItemsOf
    <3>6. \A l \in Lots : lotLock[l] = t => remaining'[l] = remaining[l]
      BY DEF UnderLocks
    <3>. QED
      BY <2>1, <2>2, <2>5, <3>1, <3>2, <3>4, <3>5, <3>6 DEF PurchaseOf
  <2>. QED
    BY <2>4, <2>5
<1>. QED
  BY <1>1, <1>2

\* A session whose transaction ends relies on nothing any more.
LEMMA EndedKept ==
    ASSUME TypeOK, NEW s \in Sessions, Ended(s)
    PROVE  OnlySession(s) /\ SaleOf(s)' /\ PurchaseOf(s)'
<1> USE DEF Ended, TypeOK
<1>1. OnlySession(s)
  BY ValueAssumption DEF OnlySession, Unlocked
<1>2. pc'[s] = "idle" /\ \A l \in Lots : took'[s][l] = 0 /\ lotLock'[l] # s
  BY ValueAssumption DEF Unlocked, NoLots
<1>3. SaleOf(s)' /\ PurchaseOf(s)'
  BY <1>2 DEF SaleOf, PurchaseOf, SaleLabels, PurchaseLabels
<1>. QED
  BY <1>1, <1>3

\* A session that rolls back leaves the inductive invariant as it was.
LEMMA RollbackKept ==
    ASSUME IInv, NEW s \in Sessions, Rollback(s)
    PROVE  IInv'
<1>1. TypeOK' /\ OperationOK'
  BY RollbackTypes DEF IInv
<1>2. Ended(s) /\ UNCHANGED <<status, qty, remaining, sold, stock, salida>>
  BY DEF Rollback, committed
<1>3. UnderLocks(s)
  BY <1>2 DEF UnderLocks
<1>4. SaleOK' /\ PurchaseOK'
  BY <1>2, <1>3, EndedKept, OthersKept DEF IInv, SaleOK, PurchaseOK
<1>5. LotConservation' /\ SalidaMatchesStatus'
  BY <1>2 DEF IInv, LotConservation, SalidaMatchesStatus
<1>. QED
  BY <1>1, <1>4, <1>5 DEF IInv

\* So does a step that writes no table, if its own session keeps what it
\* relies on.
LEMMA QuietKept ==
    ASSUME IInv, NEW s \in Sessions, OnlySession(s),
           UNCHANGED <<status, qty, remaining, sold, stock, salida>>,
           TypeOK', OperationOK', SaleOf(s)', PurchaseOf(s)'
    PROVE  IInv'
<1>1. UnderLocks(s)
  BY DEF UnderLocks
<1>2. SaleOK' /\ PurchaseOK'
  BY <1>1, OthersKept DEF IInv, SaleOK, PurchaseOK
<1>3. LotConservation' /\ SalidaMatchesStatus'
  BY DEF IInv, LotConservation, SalidaMatchesStatus
<1>. QED
  BY <1>2, <1>3 DEF IInv

\* The commit of a sale writes the lots it has locked, and their units go
\* from remaining to sold.
LEMMA SaleWrites ==
    ASSUME IInv, NEW s \in Sessions, CommitSale(s)
    PROVE  /\ \A l \in Lots :
                 /\ remaining[l] \in Nat /\ sold[l] \in Nat /\ took[s][l] \in Nat
                 /\ remaining'[l] = remaining[l] - took[s][l]
                 /\ sold'[l] = sold[l] + took[s][l]
                 /\ took[s][l] > 0 => /\ lotLock[l] = s /\ took[s][l] <= remaining[l]
                                      /\ status[LotPurchase[l]] = "confirmed"
           /\ UnderLocks(s)
<1>1. ASSUME NEW l \in Lots
      PROVE  /\ remaining[l] \in Nat /\ sold[l] \in Nat /\ took[s][l] \in Nat
             /\ remaining'[l] = remaining[l] - took[s][l]
             /\ sold'[l] = sold[l] + took[s][l]
             /\ took[s][l] > 0 => /\ lotLock[l] = s /\ took[s][l] <= remaining[l]
                                  /\ status[LotPurchase[l]] = "confirmed"
  <2>1. /\ remaining'[l] = IF took[s][l] > 0 THEN mem[s][l] ELSE remaining[l]
        /\ sold'[l] = sold[l] + took[s][l]
    BY DEF CommitSale
  <2>2. took[s][l] \in Nat /\ mem[s][l] \in Nat /\ remaining[l] \in Nat /\ sold[l] \in Nat
    BY DEF IInv, TypeOK
  <2>3. took[s][l] > 0 => /\ lotLock[l] = s /\ status[LotPurchase[l]] = "confirmed"
                          /\ mem[s][l] + took[s][l] = remaining[l]
    BY DEF CommitSale, IInv, SaleOK, SaleOf, SaleLabels
  <2>. QED
    BY <2>1, <2>2, <2>3
<1>2. UNCHANGED <<status, qty>>
  BY DEF CommitSale
<1>3. UnderLocks(s)
  BY <1>1, <1>2 DEF UnderLocks
<1>. QED
  BY <1>1, <1>3

\* The commits on a purchase write its own rows, which are locked.
LEMMA PurchaseWrites ==
    ASSUME IInv, NEW s \in Sessions,
           \/ CommitUpdate(s) \/ CommitDelete(s) \/ CancelDraft(s)
           \/ CommitConfirm(s) \/ CommitCancel(s)
    PROVE  UnderLocks(s)
<1>1. TypeOK /\ OperationOK
  BY DEF IInv
<1> DEFINE p == op[s].purchase
<1>2. pc[s] \in PurchaseLabels /\ pc[s] \in {"decide", "apply"}
  BY DEF CommitUpdate, CommitDelete, CancelDraft, CommitConfirm, CommitCancel, Deciding,
     Applying, PurchaseLabels
<1>3. p \in Purchases /\ purLock[p] = s /\ \A l \in ItemsOf(p) : lotLock[l] = s
  BY <1>1, <1>2 DEF IInv, OperationOK, PurchaseOK, PurchaseOf
<1>4. CASE CommitUpdate(s)
  BY <1>3, <1>4 DEF UnderLocks, CommitUpdate, Editable, ItemLists
<1>5. CASE CommitDelete(s)
  BY <1>1, <1>3, <1>5 DEF UnderLocks, CommitDelete, Deletable, TypeOK
<1>6. CASE CancelDraft(s)
  BY <1>1, <1>3, <1>6 DEF UnderLocks, CancelDraft, StatusOf, TypeOK
<1>7. CASE CommitConfirm(s)
  <2>1. status[p] = "draft"
    BY <1>2, <1>7 DEF CommitConfirm, Applying, IInv, PurchaseOK, PurchaseOf
  <2>. QED
    BY <1>1, <1>3, <1>7, <2>1 DEF UnderLocks, CommitConfirm, TypeOK
<1>8. CASE CommitCancel(s)
  <2>1. status[p] = "confirmed"
    BY <1>2, <1>8 DEF CommitCancel, Applying, IInv, PurchaseOK, PurchaseOf
  <2>2. \A l \in Lots : LotPurchase[l] = p => l \in ItemsOf(p) \/ remaining[l] = 0
    <3> SUFFICES ASSUME NEW l \in Lots, LotPurchase[l] = p, qty[l] = 0
                 PROVE  remaining[l] = 0
      BY <1>1 DEF ItemsOf, TypeOK
    <3>1. remaining[l] \in Nat /\ sold[l] \in Nat /\ remaining[l] + sold[l] = qty[l]
      BY <1>1, <2>1 DEF TypeOK, IInv, LotConservation
    <3>. QED
      BY <3>1
  <2>. QED
    BY <1>1, <1>3, <1>8, <2>2 DEF UnderLocks, CommitCancel, TypeOK
<1>. QED
  BY <1>4, <1>5, <1>6, <1>7, <1>8

----------------------------------------------------------------------------
(* The inductive step, for sales. *)

\* Every statement of a sale keeps the inductive invariant.
LEMMA SaleKept ==
    ASSUME IInv, NEW s \in Sessions, BeginSale(s) \/ Sale(s)
    PROVE  IInv'
<1> USE DEF committed, locks
<1> DEFINE Quiet == UNCHANGED <<status, qty, remaining, sold, stock, salida>>
<1>1. TypeOK /\ OperationOK /\ TypeOK' /\ OperationOK'
  BY SaleTypes DEF IInv
<1>2. SaleOf(s) /\ \A t \in Sessions : PurchaseOf(t)
  BY DEF IInv, SaleOK, PurchaseOK
<1>3. CASE BeginSale(s)
  <2>1. OnlySession(s) /\ Quiet
    BY <1>1, <1>3 DEF BeginSale, OnlySession, TypeOK
  <2>2. pc[s] = "idle" /\ pc'[s] = "check" /\ took'[s] = took[s] /\ lotLock' = lotLock
    BY <1>1, <1>3 DEF BeginSale, TypeOK
  <2>3. SaleOf(s)' /\ PurchaseOf(s)'
    BY <1>1, <1>2, <2>2 DEF SaleOf, PurchaseOf, SaleLabels, PurchaseLabels, TypeOK
  <2>. QED
    BY <1>1, <2>1, <2>3, QuietKept
<1>4. CASE CheckStock(s) \/ SelectLots(s) \/ Allocated(s) \/ TakeStock(s)
  <2>1. OnlySession(s) /\ Quiet
    BY <1>1, <1>4 DEF CheckStock, SelectLots, Allocated, TakeStock, OnlySession, TypeOK
  <2>2. /\ pc[s] \in SaleLabels /\ pc'[s] \in SaleLabels
        /\ took' = took /\ mem' = mem /\ lotLock' = lotLock
    BY <1>1, <1>4 DEF CheckStock, SelectLots, Allocated, TakeStock, SaleLabels, TypeOK
  <2>3. SaleOf(s)' /\ PurchaseOf(s)'
    BY <1>2, <2>1, <2>2 DEF SaleOf, PurchaseOf, SaleLabels, PurchaseLabels
  <2>. QED
    BY <1>1, <2>1, <2>3, QuietKept
<1>5. CASE LockLot(s)
  <2> PICK l \in Oldest(todo[s]) : LockLot(s)!2!(l)
    BY <1>5 DEF LockLot
  <2> DEFINE take == Lesser(LotRead(s, l), need[s])
  <2>1. l \in Lots /\ pc[s] = "lots" /\ pc' = pc /\ need[s] \in Nat /\ remaining[l] \in Nat
          /\ mem[s][l] \in Nat /\ took[s][l] \in Nat
    BY <1>1, <1>5 DEF Oldest, TypeOK, LockLot
  <2>2. OnlySession(s) /\ Quiet
    BY <1>1, <1>5, <2>1, ValueAssumption DEF LockLot, RowFree, OnlySession, TypeOK
  <2>3. /\ lotLock'[l] = s /\ mem'[s][l] = LotRead(s, l) - take
        /\ took'[s][l] = took[s][l] + take
        /\ \A k \in Lots \ {l} : /\ lotLock'[k] = lotLock[k] /\ mem'[s][k] = mem[s][k]
                                 /\ took'[s][k] = took[s][k]
    BY <1>1, <2>1 DEF TypeOK
  <2>4. LotRead(s, l) + took[s][l] = remaining[l] /\ LotRead(s, l) \in Nat
    BY <1>2, <2>1 DEF LotRead, SaleOf, SaleLabels
  <2>5. take \in Nat /\ take <= LotRead(s, l)
    BY <2>1, <2>4 DEF Lesser
  <2>6. mem'[s][l] + took'[s][l] = remaining[l]
    BY <2>1, <2>3, <2>4, <2>5
  <2>7. took'[s][l] > 0 => status[LotPurchase[l]] = "confirmed"
    BY <2>1, <2>3, <2>4, <2>5, LotAssumption DEF IInv, LotConservation
  <2>8. SaleOf(s)'
    BY <1>2, <2>1, <2>2, <2>3, <2>6, <2>7 DEF SaleOf, SaleLabels
  <2>9. PurchaseOf(s)'
    BY <2>1 DEF PurchaseOf, PurchaseLabels
  <2>. QED
    BY <1>1, <2>2, <2>8, <2>9, QuietKept
<1>6. CASE RefuseStock(s) \/ RefuseLots(s)
  BY <1>6, RollbackKept DEF RefuseStock, RefuseLots
<1>7. CASE CommitSale(s)
  <2>1. Ended(s) /\ UNCHANGED <<status, qty, salida>> /\ pc[s] = "commit"
    BY <1>7 DEF CommitSale
  <2>2. \A l \in Lots :
           /\ remaining[l] \in Nat /\ sold[l] \in Nat /\ took[s][l] \in Nat
           /\ remaining'[l] = remaining[l] - took[s][l]
           /\ sold'[l] = sold[l] + took[s][l]
           /\ took[s][l] > 0 => status[LotPurchase[l]] = "confirmed"
    BY <1>7, SaleWrites
  <2>3. UnderLocks(s)
    BY <1>7, SaleWrites
  <2>4. SaleOK' /\ PurchaseOK'
    BY <1>1, <2>1, <2>3, EndedKept, OthersKept DEF IInv, SaleOK, PurchaseOK
  <2>5. LotConservation'
    <3>1. ASSUME NEW l \in Lots
          PROVE  IF status[LotPurchase[l]] = "confirmed"
                   THEN remaining'[l] + sold'[l] = qty[l]
                   ELSE remaining'[l] = 0 /\ sold'[l] = 0
      <4>1. CASE took[s][l] > 0
        BY <2>2, <4>1 DEF IInv, LotConservation
      <4>2. CASE ~(took[s][l] > 0)
        <5>1. remaining'[l] = remaining[l] /\ sold'[l] = sold[l]
          BY <2>2, <4>2
        <5>. QED
          BY <5>1 DEF IInv, LotConservation
      <4>. QED
        BY <4>1, <4>2
    <3>. QED
      BY <2>1, <3>1 DEF LotConservation
  <2>6. SalidaMatchesStatus'
    BY <2>1 DEF IInv, SalidaMatchesStatus
  <2>. QED
    BY <1>1, <2>4, <2>5, <2>6 DEF IInv
<1>. QED
  BY <1>3, <1>4, <1>5, <1>6, <1>7 DEF Sale
----------------------------------------------------------------------------
(* The inductive step, for purchases. *)

\* The steps that lock rows or walk the items and write nothing yet.
LEMMA PurchaseQuiet ==
    ASSUME IInv, NEW s \in Sessions,
           \/ BeginOnPurchase(s) \/ LockPurchase(s) \/ LockItem(s) \/ ItemsLocked(s)
           \/ StartItems(s) \/ ConfirmItem(s) \/ CancelItem(s)
    PROVE  IInv'
<1> USE DEF committed, locks
<1> DEFINE Quiet == UNCHANGED <<status, qty, remaining, sold, stock, salida>>
<1>1. TypeOK /\ OperationOK /\ TypeOK' /\ OperationOK'
  BY PurchaseTypes DEF IInv, PurchaseStep
<1>2. SaleOf(s) /\ PurchaseOf(s)
  BY DEF IInv, SaleOK, PurchaseOK
<1> DEFINE p == op[s].purchase
<1>3. CASE BeginOnPurchase(s)
  <2>1. OnlySession(s) /\ Quiet
    BY <1>1, <1>3 DEF BeginOnPurchase, OnlySession, TypeOK
  <2>2. /\ pc[s] = "idle" /\ pc'[s] = "purchase" /\ took' = took /\ lotLock' = lotLock
        /\ status[op'[s].purchase] # "absent"
    BY <1>1, <1>3 DEF BeginOnPurchase, TypeOK
  <2>3. SaleOf(s)'
    BY <1>2, <2>2 DEF SaleOf, SaleLabels
  <2>4. PurchaseOf(s)'
    BY <2>1, <2>2 DEF PurchaseOf
  <2>. QED
    BY <1>1, <2>1, <2>3, <2>4, QuietKept
<1>4. CASE LockPurchase(s)
  <2>1. p \in Purchases /\ pc[s] = "purchase" /\ pc'[s] = "items" /\ op' = op
          /\ purLock'[p] = s /\ status[p] # "deleted" /\ took' = took /\ lotLock' = lotLock
          /\ todo'[s] = ItemsOf(p)
    BY <1>1, <1>4 DEF LockPurchase, OperationOK, PurchaseLabels, TypeOK
  <2>2. OnlySession(s) /\ Quiet
    BY <1>1, <1>4, ValueAssumption DEF LockPurchase, RowFree, OnlySession, TypeOK
  <2>3. ItemsOf(p)' = ItemsOf(p)
    BY <2>1, <2>2 DEF ItemsOf
  <2>4. SaleOf(s)'
    BY <1>2, <2>1 DEF SaleOf, SaleLabels
  <2>5. PurchaseOf(s)'
    BY <1>2, <2>1, <2>2, <2>3 DEF PurchaseOf, PurchaseLabels
  <2>. QED
    BY <1>1, <2>2, <2>4, <2>5, QuietKept
<1>5. CASE LockItem(s)
  <2> PICK l \in todo[s] : /\ RowFree(lotLock[l], s)
                           /\ lotLock' = [lotLock EXCEPT ![l] = s]
                           /\ todo' = [todo EXCEPT ![s] = @ \ {l}]
    BY <1>5 DEF LockItem
  <2>1. OnlySession(s) /\ Quiet
    BY <1>1, <1>5, ValueAssumption DEF LockItem, RowFree, OnlySession, TypeOK
  <2>2. /\ l \in Lots /\ pc[s] = "items" /\ pc' = pc /\ op' = op /\ took' = took
        /\ purLock' = purLock /\ todo'[s] = todo[s] \ {l} /\ lotLock'[l] = s
        /\ \A k \in Lots \ {l} : lotLock'[k] = lotLock[k]
    BY <1>1, <1>5 DEF LockItem, TypeOK
  <2>3. \A k \in ItemsOf(p) : k \in Lots
    BY DEF ItemsOf
  <2>4. SaleOf(s)'
    BY <1>2, <2>2 DEF SaleOf, SaleLabels
  <2>5. ItemsOf(p)' = ItemsOf(p)
    BY <2>1, <2>2 DEF ItemsOf
  <2>6. PurchaseOf(s)'
    BY <1>2, <2>1, <2>2, <2>3, <2>5 DEF PurchaseOf, PurchaseLabels
  <2>. QED
    BY <1>1, <2>1, <2>4, <2>6, QuietKept
<1>6. CASE ItemsLocked(s) \/ StartItems(s)
  <2>1. OnlySession(s) /\ Quiet /\ op' = op /\ took' = took /\ lotLock' = lotLock
          /\ purLock' = purLock
    BY <1>1, <1>6 DEF ItemsLocked, StartItems, OnlySession, TypeOK
  <2>2. /\ pc[s] \in {"items", "decide"} /\ pc'[s] \in {"decide", "apply"}
        /\ pc[s] = "items" => todo[s] = {}
        /\ pc'[s] = "apply" =>
              /\ pc[s] = "decide" /\ todo'[s] = ItemsOf(p)
              /\ \/ op[s].kind = "confirm" /\ status[p] = "draft"
                 \/ op[s].kind = "cancel" /\ status[p] = "confirmed"
    BY <1>1, <1>6 DEF ItemsLocked, StartItems, Deciding, Confirmable, StatusOf, TypeOK
  <2>3. ItemsOf(p)' = ItemsOf(p)
    BY <2>1 DEF ItemsOf
  <2>4. SaleOf(s)'
    BY <1>2, <2>1, <2>2 DEF SaleOf, SaleLabels
  <2>5. PurchaseOf(s)'
    BY <1>2, <2>1, <2>2, <2>3 DEF PurchaseOf, PurchaseLabels
  <2>. QED
    BY <1>1, <2>1, <2>4, <2>5, QuietKept
<1>7. CASE ConfirmItem(s) \/ CancelItem(s)
  <2>1. OnlySession(s) /\ Quiet /\ op' = op /\ took' = took /\ lotLock' = lotLock
          /\ purLock' = purLock /\ pc' = pc /\ pc[s] = "apply"
    BY <1>1, <1>7 DEF ConfirmItem, CancelItem, Applying, OnlySession, TypeOK
  <2>2. PICK l \in todo[s] :
           /\ todo'[s] = todo[s] \ {l}
           /\ op[s].kind = "confirm" \/ (op[s].kind = "cancel" /\ ~Consumed(l))
    BY <1>1, <1>7 DEF ConfirmItem, CancelItem, Applying, TypeOK
  <2>3. ItemsOf(p)' = ItemsOf(p)
    BY <2>1 DEF ItemsOf
  <2>4. SaleOf(s)'
    BY <1>2, <2>1 DEF SaleOf, SaleLabels
  <2>5. op[s].kind = "cancel" /\ status[p] = "confirmed" /\ l \in ItemsOf(p)
          => remaining[l] = qty[l]
    <3>1. l \in Lots /\ remaining[l] \in Nat /\ sold[l] \in Nat /\ qty[l] \in Nat
      BY <1>1 DEF TypeOK
    <3>. QED
      BY <2>2, <3>1 DEF ItemsOf, Consumed, IInv, LotConservation
  <2>6. PurchaseOf(s)'
    BY <1>2, <2>1, <2>2, <2>3, <2>5 DEF PurchaseOf, PurchaseLabels
  <2>. QED
    BY <1>1, <2>1, <2>4, <2>6, QuietKept
<1>. QED
  BY <1>3, <1>4, <1>5, <1>6, <1>7

\* The commits.  Each writes under its locks (UnderLocks) and moves the
\* lots, the status and the SALIDA of its own purchase together.
LEMMA PurchaseCommits ==
    ASSUME IInv, NEW s \in Sessions,
           \/ CommitUpdate(s) \/ CommitDelete(s) \/ CancelDraft(s)
           \/ CommitConfirm(s) \/ CommitCancel(s)
    PROVE  IInv'
<1>1. TypeOK /\ OperationOK /\ TypeOK' /\ OperationOK'
  BY PurchaseTypes DEF IInv, PurchaseStep
<1> DEFINE p == op[s].purchase
<1> DEFINE Mine == {l \in Lots : LotPurchase[l] = p}
<1>2. Ended(s) /\ pc[s] \in PurchaseLabels /\ pc[s] \in {"decide", "apply"}
  BY DEF CommitUpdate, CommitDelete, CancelDraft, CommitConfirm, CommitCancel, Deciding,
     Applying, PurchaseLabels
<1>3. /\ p \in Purchases /\ purLock[p] = s
      /\ status[p] # "absent" /\ status[p] # "deleted"
      /\ \A l \in ItemsOf(p) : lotLock[l] = s
  BY <1>1, <1>2 DEF IInv, OperationOK, PurchaseOK, PurchaseOf
<1>4. ASSUME NEW l \in Lots
      PROVE  /\ qty[l] \in Nat /\ remaining[l] \in Nat /\ sold[l] \in Nat
             /\ LotPurchase[l] \in Purchases
             /\ IF status[LotPurchase[l]] = "confirmed"
                  THEN remaining[l] + sold[l] = qty[l]
                  ELSE remaining[l] = 0 /\ sold[l] = 0
  BY <1>1, LotAssumption DEF TypeOK, IInv, LotConservation
<1>5. SaleOK' /\ PurchaseOK'
  BY <1>1, <1>2, PurchaseWrites, EndedKept, OthersKept DEF IInv, SaleOK, PurchaseOK
<1>6. CASE CommitUpdate(s)
  <2>1. UNCHANGED <<status, remaining, sold, salida>> /\ status[p] = "draft"
          /\ \A l \in Lots \ Mine : qty'[l] = qty[l]
    BY <1>6 DEF CommitUpdate, Editable, ItemLists
  <2>2. LotConservation'
    BY <1>4, <2>1 DEF LotConservation
  <2>3. SalidaMatchesStatus'
    BY <2>1 DEF IInv, SalidaMatchesStatus
  <2>. QED
    BY <1>1, <1>5, <2>2, <2>3 DEF IInv
<1>7. CASE CommitDelete(s)
  <2>1. /\ UNCHANGED <<remaining, sold, salida>>
        /\ status' = [status EXCEPT ![p] = "deleted"]
        /\ status[p] # "confirmed"
        /\ \A l \in Lots \ Mine : qty'[l] = qty[l]
    BY <1>7 DEF CommitDelete, Deletable
  <2>2. LotConservation'
    BY <1>1, <1>4, <2>1 DEF LotConservation, TypeOK
  <2>3. SalidaMatchesStatus'
    BY <1>1, <1>3, <2>1 DEF IInv, SalidaMatchesStatus, TypeOK
  <2>. QED
    BY <1>1, <1>5, <2>2, <2>3 DEF IInv
<1>8. CASE CancelDraft(s)
  <2>1. /\ UNCHANGED <<qty, remaining, sold, salida>>
        /\ status' = [status EXCEPT ![p] = "cancelled"]
        /\ status[p] = "draft"
    BY <1>8 DEF CancelDraft, StatusOf
  <2>2. LotConservation'
    BY <1>1, <1>4, <2>1 DEF LotConservation, TypeOK
  <2>3. SalidaMatchesStatus'
    BY <1>1, <1>3, <2>1 DEF IInv, SalidaMatchesStatus, TypeOK
  <2>. QED
    BY <1>1, <1>5, <2>2, <2>3 DEF IInv
<1>9. CASE CommitConfirm(s)
  <2>1. /\ UNCHANGED <<qty, sold>>
        /\ status' = [status EXCEPT ![p] = "confirmed"]
        /\ remaining' = [l \in Lots |-> IF l \in ItemsOf(p) THEN qty[l] ELSE remaining[l]]
        /\ salida' = IF p \in Paid THEN [salida EXCEPT ![p] = @ + 1] ELSE salida
    BY <1>9 DEF CommitConfirm
  <2>2. status[p] = "draft"
    BY <1>2, <1>9 DEF CommitConfirm, Applying, IInv, PurchaseOK, PurchaseOf
  <2>3. LotConservation'
    <3>1. ASSUME NEW l \in Lots
          PROVE  IF status'[LotPurchase[l]] = "confirmed"
                   THEN remaining'[l] + sold'[l] = qty'[l]
                   ELSE remaining'[l] = 0 /\ sold'[l] = 0
      <4>1. CASE LotPurchase[l] = p
        BY <1>1, <1>3, <1>4, <2>1, <2>2, <4>1 DEF ItemsOf, TypeOK
      <4>2. CASE LotPurchase[l] # p
        BY <1>1, <1>4, <2>1, <4>2 DEF ItemsOf, TypeOK
      <4>. QED
        BY <4>1, <4>2
    <3>. QED
      BY <3>1 DEF LotConservation
  <2>4. SalidaMatchesStatus'
    BY <1>1, <1>3, <2>1, <2>2 DEF IInv, SalidaMatchesStatus, TypeOK
  <2>. QED
    BY <1>1, <1>5, <2>3, <2>4 DEF IInv
<1>10. CASE CommitCancel(s)
  <2>1. /\ UNCHANGED <<qty, sold>>
        /\ status' = [status EXCEPT ![p] = "cancelled"]
        /\ remaining' = [l \in Lots |-> IF l \in ItemsOf(p) THEN 0 ELSE remaining[l]]
        /\ salida' = [salida EXCEPT ![p] = 0]
    BY <1>10 DEF CommitCancel
  <2>2. status[p] = "confirmed" /\ \A l \in ItemsOf(p) : remaining[l] = qty[l]
    BY <1>2, <1>10 DEF CommitCancel, Applying, IInv, PurchaseOK, PurchaseOf
  <2>3. \A l \in Mine : l \in ItemsOf(p) \/ (remaining[l] = 0 /\ sold[l] = 0)
    BY <1>4, <2>2 DEF ItemsOf
  <2>4. LotConservation'
    <3>1. ASSUME NEW l \in Lots
          PROVE  IF status'[LotPurchase[l]] = "confirmed"
                   THEN remaining'[l] + sold'[l] = qty'[l]
                   ELSE remaining'[l] = 0 /\ sold'[l] = 0
      <4>1. CASE LotPurchase[l] = p
        <5>1. status'[p] = "cancelled"
          BY <1>1, <1>3, <2>1 DEF TypeOK
        <5>2. remaining[l] = 0 \/ l \in ItemsOf(p)
          BY <2>3, <4>1
        <5>3. remaining'[l] = 0
          BY <2>1, <5>2
        <5>4. sold[l] = 0
          BY <1>4, <2>2, <2>3, <4>1
        <5>. QED
          BY <2>1, <4>1, <5>1, <5>3, <5>4
      <4>2. CASE LotPurchase[l] # p
        BY <1>1, <1>4, <2>1, <4>2 DEF ItemsOf, TypeOK
      <4>. QED
        BY <4>1, <4>2
    <3>. QED
      BY <3>1 DEF LotConservation
  <2>5. SalidaMatchesStatus'
    BY <1>1, <1>3, <2>1 DEF IInv, SalidaMatchesStatus, TypeOK
  <2>. QED
    BY <1>1, <1>5, <2>4, <2>5 DEF IInv
<1>. QED
  BY <1>6, <1>7, <1>8, <1>9, <1>10

\* So do the creation of a purchase, the panel and the end of a session.
LEMMA OtherKept ==
    ASSUME IInv, CreatePurchase \/ \E s \in Sessions : BeginPanel(s) \/ PanelWrite(s)
    PROVE  IInv'
<1>1. TypeOK /\ OperationOK /\ TypeOK' /\ OperationOK'
  BY OtherTypes DEF IInv
<1>2. CASE CreatePurchase
  <2>1. PICK p \in Purchases : /\ status[p] = "absent"
                               /\ status' = [status EXCEPT ![p] = "draft"]
                               /\ qty' \in ItemLists(p)
                               /\ UNCHANGED <<remaining, sold, stock, salida, locks, session>>
    BY <1>2 DEF CreatePurchase
  <2>2. UNCHANGED <<remaining, sold, salida, purLock, lotLock, op, pc, todo, mem, took>>
          /\ \A l \in Lots : LotPurchase[l] # p => qty'[l] = qty[l]
    BY <2>1 DEF locks, session, ItemLists
  <2>3. ASSUME NEW q \in Purchases, q # p
        PROVE  ItemsOf(q)' = ItemsOf(q) /\ status'[q] = status[q]
               /\ \A l \in ItemsOf(q) : qty'[l] = qty[l]
    BY <1>1, <2>1, <2>2, <2>3 DEF ItemsOf, TypeOK
  <2>4. ASSUME NEW s \in Sessions
        PROVE  SaleOf(s)' /\ PurchaseOf(s)'
    <3>1. SaleOf(s) /\ PurchaseOf(s)
      BY DEF IInv, SaleOK, PurchaseOK
    <3>2. SaleOf(s)'
      BY <1>1, <2>1, <2>2, <3>1, LotAssumption DEF SaleOf, TypeOK
    <3>3. pc[s] \in PurchaseLabels => op[s].purchase \in Purchases /\ op[s].purchase # p
      BY <1>1, <2>1, <3>1 DEF OperationOK, PurchaseOf
    <3>4. PurchaseOf(s)'
      BY <2>2, <2>3, <3>1, <3>3 DEF PurchaseOf
    <3>. QED
      BY <3>2, <3>4
  <2>5. LotConservation' /\ SalidaMatchesStatus'
    BY <1>1, <2>1, <2>2, LotAssumption DEF IInv, LotConservation, SalidaMatchesStatus, TypeOK
  <2>. QED
    BY <1>1, <2>4, <2>5 DEF IInv, SaleOK, PurchaseOK
<1>3. ASSUME NEW s \in Sessions, BeginPanel(s)
      PROVE  IInv'
  <2>1. OnlySession(s) /\ UNCHANGED <<status, qty, remaining, sold, stock, salida>>
    BY <1>1, <1>3 DEF BeginPanel, OnlySession, committed, locks, TypeOK
  <2>2. pc[s] = "idle" /\ pc'[s] = "panel" /\ took' = took /\ lotLock' = lotLock
    BY <1>1, <1>3 DEF BeginPanel, locks, TypeOK
  <2>3. SaleOf(s)' /\ PurchaseOf(s)'
    BY <2>2 DEF IInv, SaleOK, SaleOf, PurchaseOf, SaleLabels, PurchaseLabels
  <2>. QED
    BY <1>1, <2>1, <2>3, QuietKept
<1>4. ASSUME NEW s \in Sessions, PanelWrite(s)
      PROVE  IInv'
  <2>1. Ended(s) /\ UNCHANGED <<status, qty, remaining, sold, salida>>
    BY <1>4 DEF PanelWrite
  <2>2. UnderLocks(s)
    BY <2>1 DEF UnderLocks
  <2>3. SaleOK' /\ PurchaseOK'
    BY <1>1, <2>1, <2>2, EndedKept, OthersKept DEF IInv, SaleOK, PurchaseOK
  <2>4. LotConservation' /\ SalidaMatchesStatus'
    BY <2>1 DEF IInv, LotConservation, SalidaMatchesStatus
  <2>. QED
    BY <1>1, <2>3, <2>4 DEF IInv
<1>. QED
  BY <1>2, <1>3, <1>4

----------------------------------------------------------------------------
(* The theorems. *)

\* The inductive invariant holds of the empty database.
LEMMA InvStart == Init => IInv
<1> SUFFICES ASSUME Init PROVE IInv
  OBVIOUS
<1>1. TypeOK /\ OperationOK
  BY TypesStart
<1>2. SaleOK /\ PurchaseOK
  BY ValueAssumption DEF Init, SaleOK, SaleOf, PurchaseOK, PurchaseOf, SaleLabels,
     PurchaseLabels, NoLots
<1>3. LotConservation /\ SalidaMatchesStatus
  BY LotAssumption DEF Init, LotConservation, SalidaMatchesStatus, NoLots
<1>. QED
  BY <1>1, <1>2, <1>3 DEF IInv

\* Every step of the system keeps it.
LEMMA InvStep == IInv /\ [Next]_vars => IInv'
<1> SUFFICES ASSUME IInv, [Next]_vars PROVE IInv'
  OBVIOUS
<1>1. CASE Next
  <2>1. ASSUME NEW s \in Sessions,
               DeadlockVictim(s) \/ Fail(s) \/ PurchaseGone(s) \/ NothingToDo(s)
                 \/ RefuseCancel(s)
        PROVE  IInv'
    BY <2>1, RollbackKept DEF DeadlockVictim, Fail, PurchaseGone, NothingToDo, RefuseCancel
  <2>2. ASSUME NEW s \in Sessions, PurchaseStep(s) \/ BeginOnPurchase(s)
        PROVE  IInv'
    BY <2>1, <2>2, PurchaseQuiet, PurchaseCommits DEF PurchaseStep
  <2>. QED
    BY <1>1, <2>1, <2>2, SaleKept, OtherKept DEF Next, Step
<1>2. CASE UNCHANGED vars
  BY <1>2 DEF vars, committed, locks, session, IInv, TypeOK, OperationOK, SaleOK, SaleOf,
     PurchaseOK, PurchaseOf, ItemsOf, LotConservation, SalidaMatchesStatus
<1>. QED
  BY <1>1, <1>2

\* The inductive invariant: the tables are consistent with one another, and
\* what each session holds in memory still describes the rows it has locked.
THEOREM Invariance == Spec => []IInv
BY InvStart, InvStep, PTL DEF Spec

\* However many sessions sell, confirm, cancel and delete at once, on any
\* purchases and with any carts, no unit of a lot is sold twice or lost.
THEOREM LotsConserved == Spec => []LotConservation
<1>1. IInv => LotConservation
  BY DEF IInv
<1>. QED
  BY <1>1, Invariance, PTL

\* The cash book holds one SALIDA per confirmed purchase that cost money
\* and none for the others, also under double confirmations.
THEOREM SalidaCorrect == Spec => []SalidaMatchesStatus
<1>1. IInv => SalidaMatchesStatus
  BY DEF IInv
<1>. QED
  BY <1>1, Invariance, PTL

\* No request, and no interleaving of requests, edits the items of a
\* confirmed purchase, deletes it or takes it back to a draft.
THEOREM ConfirmedFrozen == Spec => ConfirmedIsFrozen
<1> DEFINE Frozen == \A p \in Purchases : status[p] = "confirmed" =>
                        /\ status'[p] \in {"confirmed", "cancelled"}
                        /\ \A l \in Lots : LotPurchase[l] = p => qty'[l] = qty[l]
<1>1. IInv /\ [Next]_vars => [Frozen]_vars
  <2> SUFFICES ASSUME IInv, Next PROVE Frozen
    BY DEF vars
  <2>1. TypeOK /\ OperationOK
    BY DEF IInv
  <2>2. CASE UNCHANGED <<status, qty>>
    BY <2>2
  <2>3. CASE CreatePurchase
    BY <2>1, <2>3 DEF CreatePurchase, ItemLists, TypeOK
  <2>4. ASSUME NEW s \in Sessions, Sale(s) \/ BeginSale(s)
        PROVE  UNCHANGED <<status, qty>>
    BY <2>4 DEF Sale, BeginSale, CheckStock, RefuseStock, SelectLots, LockLot, Allocated,
       RefuseLots, TakeStock, CommitSale, Rollback, committed
  <2>5. ASSUME NEW s \in Sessions, CommitUpdate(s)
        PROVE  Frozen
    BY <2>1, <2>5 DEF CommitUpdate, Editable, ItemLists, TypeOK
  <2>6. ASSUME NEW s \in Sessions, CommitDelete(s)
        PROVE  Frozen
    BY <2>1, <2>6 DEF CommitDelete, Deletable, TypeOK
  <2>7. ASSUME NEW s \in Sessions, CancelDraft(s) \/ CommitConfirm(s) \/ CommitCancel(s)
        PROVE  Frozen
    BY <2>1, <2>7 DEF CancelDraft, CommitConfirm, CommitCancel, TypeOK
  <2>8. ASSUME NEW s \in Sessions,
               \/ BeginOnPurchase(s) \/ LockPurchase(s) \/ PurchaseGone(s) \/ LockItem(s)
               \/ ItemsLocked(s) \/ NothingToDo(s) \/ StartItems(s) \/ ConfirmItem(s)
               \/ CancelItem(s) \/ RefuseCancel(s)
        PROVE  UNCHANGED <<status, qty>>
    BY <2>8 DEF BeginOnPurchase, LockPurchase, PurchaseGone, LockItem, ItemsLocked,
       NothingToDo, StartItems, ConfirmItem, CancelItem, RefuseCancel, Rollback, committed
  <2>9. ASSUME NEW s \in Sessions,
               BeginPanel(s) \/ PanelWrite(s) \/ DeadlockVictim(s) \/ Fail(s)
        PROVE  UNCHANGED <<status, qty>>
    BY <2>9 DEF BeginPanel, PanelWrite, DeadlockVictim, Fail, Rollback, committed
  <2>. QED
    BY <2>2, <2>3, <2>4, <2>5, <2>6, <2>7, <2>8, <2>9 DEF Next, Step, PurchaseStep
<1>. QED
  BY <1>1, Invariance, PTL DEF Spec, ConfirmedIsFrozen

----------------------------------------------------------------------------
(* Stock and lots: what a session has put together for its commit. *)

\* The units of its line that a sale has taken and not written to the stock.
InHand(s) ==
    CASE pc[s] = "lots" -> CartLine(s).qty - need[s]
      [] pc[s] = "stock" -> CartLine(s).qty
      [] OTHER -> 0

\* What a sale takes from the stock of a product is what it took from its
\* lots, but for the line in hand; it has taken something once a line is full.
SaleMoves(s) ==
    pc[s] \in SaleLabels =>
        /\ \A p \in Products :
              delta[s][p] + LotTotal(took[s], p) =
                 IF p = CartLine(s).product THEN InHand(s) ELSE 0
        /\ pc[s] = "lots" => \A l \in todo[s] : LotProduct[l] = CartLine(s).product
        /\ (pc[s] = "lots" /\ need[s] # CartLine(s).qty) \/ pc[s] \in {"stock", "commit"} =>
              \E l \in Lots : took[s][l] > 0

\* The units that a confirmation or a cancellation has gone through.
Walked(s) ==
    [l \in Lots |-> IF l \in ItemsOf(op[s].purchase) \ todo[s]
                      THEN IF op[s].kind = "confirm" THEN qty[l] ELSE -remaining[l]
                      ELSE 0]

\* What it adds to the stock of a product is the total of those units.
PurchaseMoves(s) ==
    pc[s] = "apply" =>
        /\ todo[s] \subseteq ItemsOf(op[s].purchase)
        /\ \A p \in Products : delta[s][p] = LotTotal(Walked(s), p)

\* Before it starts on a cart or on the items it adds nothing.
NothingMoved(s) ==
    pc[s] \in {"idle", "purchase", "items", "decide", "panel"} =>
        \A p \in Products : delta[s][p] = 0

MovesOf(s) == SaleMoves(s) /\ PurchaseMoves(s) /\ NothingMoved(s)

\* The bound on a quantity is there for the ledger, whose sales have it too.
MovesInv ==
    /\ IInv
    /\ \A s \in Sessions : MovesOf(s)
    /\ \A l \in Lots : qty[l] <= MaxQty

\* Totals over the lots of a product: of a function that is zero everywhere,
LEMMA TotalZero ==
    ASSUME NEW f, \A l \in Lots : f[l] = 0, NEW p
    PROVE  LotTotal(f, p) = 0
<1> DEFINE S == {l \in Lots : LotProduct[l] = p}
<1>1. IsFiniteSet(S) /\ \A l \in S : f[l] \in Int /\ f[l] = f[l] + f[l]
  BY LotAssumption, FS_Subset
<1>2. LotTotal(f, p) = SumOver(f, S)
  BY DEF LotTotal, SumOver
<1> HIDE DEF S
<1>3. SumOver(f, S) \in Int
  BY <1>1, SumType
<1>4. SumOver(f, S) = SumOver(f, S) + SumOver(f, S)
  BY <1>1, SumPlus
<1>. QED
  BY <1>2, <1>3, <1>4

\* of one that is an integer everywhere,
LEMMA TotalType ==
    ASSUME NEW f, \A l \in Lots : f[l] \in Int, NEW p
    PROVE  LotTotal(f, p) \in Int
<1> DEFINE S == {l \in Lots : LotProduct[l] = p}
<1>1. IsFiniteSet(S) /\ \A l \in S : f[l] \in Int
  BY LotAssumption, FS_Subset
<1>2. LotTotal(f, p) = SumOver(f, S)
  BY DEF LotTotal, SumOver
<1> HIDE DEF S
<1>. QED
  BY <1>1, <1>2, SumType

\* of two functions that agree on the lots of the product,
LEMMA TotalSame ==
    ASSUME NEW f, NEW g, NEW p, \A l \in Lots : LotProduct[l] = p => f[l] = g[l]
    PROVE  LotTotal(f, p) = LotTotal(g, p)
<1> DEFINE S == {l \in Lots : LotProduct[l] = p}
<1>1. IsFiniteSet(S) /\ \A l \in S : f[l] = g[l]
  BY LotAssumption, FS_Subset
<1>2. LotTotal(f, p) = SumOver(f, S) /\ LotTotal(g, p) = SumOver(g, S)
  BY DEF LotTotal, SumOver
<1> HIDE DEF S
<1>. QED
  BY <1>1, <1>2, SumSame

\* of two functions that a third one adds up.
LEMMA TotalPlus ==
    ASSUME NEW f, NEW g, NEW h, NEW p,
           \A l \in Lots : f[l] \in Int /\ g[l] \in Int /\ h[l] = f[l] + g[l]
    PROVE  LotTotal(h, p) = LotTotal(f, p) + LotTotal(g, p)
<1> DEFINE S == {l \in Lots : LotProduct[l] = p}
<1>1. IsFiniteSet(S) /\ \A l \in S : f[l] \in Int /\ g[l] \in Int /\ h[l] = f[l] + g[l]
  BY LotAssumption, FS_Subset
<1>2. /\ LotTotal(f, p) = SumOver(f, S) /\ LotTotal(g, p) = SumOver(g, S)
      /\ LotTotal(h, p) = SumOver(h, S)
  BY DEF LotTotal, SumOver
<1> HIDE DEF S
<1>. QED
  BY <1>1, <1>2, SumPlus

\* One lot changes: the total of its product changes by as much.
LEMMA TotalAt ==
    ASSUME NEW f, NEW g, NEW k \in Lots,
           \A l \in Lots : f[l] \in Int /\ g[l] \in Int,
           \A l \in Lots \ {k} : g[l] = f[l]
    PROVE  LotTotal(g, LotProduct[k]) = LotTotal(f, LotProduct[k]) + g[k] - f[k]
<1> DEFINE S == {l \in Lots : LotProduct[l] = LotProduct[k]}
           R == S \ {k}
<1>1. /\ IsFiniteSet(S) /\ IsFiniteSet(R) /\ k \in S
      /\ \A l \in S : f[l] \in Int /\ g[l] \in Int
      /\ \A l \in R : f[l] \in Int /\ f[l] = g[l]
  BY LotAssumption, FS_Subset
<1>2. LotTotal(f, LotProduct[k]) = SumOver(f, S) /\ LotTotal(g, LotProduct[k]) = SumOver(g, S)
  BY DEF LotTotal, SumOver
<1> HIDE DEF S
<1>3. SumOver(f, S) = f[k] + SumOver(f, R) /\ SumOver(g, S) = g[k] + SumOver(g, R)
  BY <1>1, SumTake
<1> HIDE DEF R
<1>4. SumOver(f, R) = SumOver(g, R)
  BY <1>1, SumSame
<1>5. SumOver(f, R) \in Int
  BY <1>1, SumType
<1>. QED
  BY <1>1, <1>2, <1>3, <1>4, <1>5

\* Nothing a session does changes what another one has in memory.
OthersSame(s) ==
    \A t \in Sessions : t # s =>
        UNCHANGED <<pc[t], op[t], line[t], todo[t], need[t], took[t], delta[t]>>

\* Every step of a session touches its own memory only.
LEMMA OneSession ==
    ASSUME TypeOK, NEW s \in Sessions,
           \/ BeginSale(s) \/ BeginOnPurchase(s) \/ BeginPanel(s) \/ Step(s)
           \/ DeadlockVictim(s) \/ Fail(s)
    PROVE  OthersSame(s)
<1> USE DEF OthersSame, TypeOK, committed, locks
<1>1. ASSUME Ended(s) PROVE OthersSame(s)
  BY <1>1 DEF Ended
<1>2. CASE BeginSale(s) \/ BeginOnPurchase(s) \/ BeginPanel(s)
  BY <1>2 DEF BeginSale, BeginOnPurchase, BeginPanel
<1>3. CASE DeadlockVictim(s) \/ Fail(s) \/ PanelWrite(s)
  BY <1>1, <1>3 DEF DeadlockVictim, Fail, PanelWrite, Rollback
<1>4. CASE Sale(s)
  <2>1. CASE CheckStock(s) \/ SelectLots(s) \/ Allocated(s)
    BY <2>1 DEF CheckStock, SelectLots, Allocated
  <2>2. CASE LockLot(s)
    BY <2>2 DEF LockLot
  <2>3. CASE TakeStock(s)
    BY <2>3 DEF TakeStock, AddToStock
  <2>4. CASE RefuseStock(s) \/ RefuseLots(s) \/ CommitSale(s)
    BY <1>1, <2>4 DEF RefuseStock, RefuseLots, CommitSale, Rollback
  <2>. QED
    BY <1>4, <2>1, <2>2, <2>3, <2>4 DEF Sale
<1>5. CASE PurchaseStep(s)
  <2>1. CASE LockPurchase(s) \/ LockItem(s) \/ ItemsLocked(s) \/ StartItems(s)
    BY <2>1 DEF LockPurchase, LockItem, ItemsLocked, StartItems
  <2>2. CASE ConfirmItem(s) \/ CancelItem(s)
    BY <2>2 DEF ConfirmItem, CancelItem, AddToStock
  <2>3. CASE \/ PurchaseGone(s) \/ NothingToDo(s) \/ CommitUpdate(s) \/ CommitDelete(s)
             \/ CancelDraft(s) \/ CommitConfirm(s) \/ RefuseCancel(s) \/ CommitCancel(s)
    BY <1>1, <2>3 DEF PurchaseGone, NothingToDo, CommitUpdate, CommitDelete, CancelDraft,
       CommitConfirm, RefuseCancel, CommitCancel, Rollback
  <2>. QED
    BY <1>5, <2>1, <2>2, <2>3 DEF PurchaseStep
<1>. QED
  BY <1>2, <1>3, <1>4, <1>5 DEF Step

\* Every step of a session writes under its locks.
LEMMA WritesUnderLocks ==
    ASSUME IInv, NEW s \in Sessions,
           \/ BeginSale(s) \/ BeginOnPurchase(s) \/ BeginPanel(s) \/ Step(s)
           \/ DeadlockVictim(s) \/ Fail(s)
    PROVE  UnderLocks(s)
<1>1. CASE CommitSale(s)
  BY <1>1, SaleWrites
<1>2. CASE \/ CommitUpdate(s) \/ CommitDelete(s) \/ CancelDraft(s)
           \/ CommitConfirm(s) \/ CommitCancel(s)
  BY <1>2, PurchaseWrites
<1>3. CASE ~(CommitSale(s) \/ CommitUpdate(s) \/ CommitDelete(s) \/ CancelDraft(s)
               \/ CommitConfirm(s) \/ CommitCancel(s))
  <2>1. UNCHANGED <<status, qty, remaining>>
    BY <1>3 DEF Step, Sale, PurchaseStep, BeginSale, BeginOnPurchase, BeginPanel, PanelWrite,
       DeadlockVictim, Fail, CheckStock, RefuseStock, SelectLots, LockLot, Allocated, RefuseLots,
       TakeStock, LockPurchase, PurchaseGone, LockItem, ItemsLocked, NothingToDo, StartItems,
       ConfirmItem, CancelItem, RefuseCancel, Rollback, committed
  <2>. QED
    BY <2>1 DEF UnderLocks
<1>. QED
  BY <1>1, <1>2, <1>3

\* What a session has put together stays what it is while others write: the
\* items it walks are locked.
LEMMA OthersMoves ==
    ASSUME MovesInv, NEW t \in Sessions,
           UNCHANGED <<pc[t], op[t], line[t], todo[t], need[t], took[t], delta[t]>>,
           pc[t] = "apply" =>
              /\ ItemsOf(op[t].purchase)' = ItemsOf(op[t].purchase)
              /\ \A l \in ItemsOf(op[t].purchase) : qty'[l] = qty[l] /\ remaining'[l] = remaining[l]
    PROVE  MovesOf(t)'
<1>1. MovesOf(t)
  BY DEF MovesInv
<1>2. SaleMoves(t)'
  BY <1>1 DEF MovesOf, SaleMoves, InHand, CartLine
<1>3. PurchaseMoves(t)'
  <2> SUFFICES ASSUME pc[t] = "apply" PROVE PurchaseMoves(t)'
    BY DEF PurchaseMoves
  <2>1. Walked(t)' = Walked(t)
    BY DEF Walked
  <2>. QED
    BY <1>1, <2>1 DEF MovesOf, PurchaseMoves
<1>4. NothingMoved(t)'
  BY <1>1 DEF MovesOf, NothingMoved
<1>. QED
  BY <1>2, <1>3, <1>4 DEF MovesOf

\* A session whose transaction ends has put nothing together.
LEMMA EndedMoves ==
    ASSUME TypeOK, NEW s \in Sessions, Ended(s)
    PROVE  MovesOf(s)'
<1>1. pc'[s] = "idle" /\ \A p \in Products : delta'[s][p] = 0
  BY DEF Ended, TypeOK, NoProducts
<1>. QED
  BY <1>1 DEF MovesOf, SaleMoves, PurchaseMoves, NothingMoved, SaleLabels

\* The statements of a sale keep its lots and its stock changes in step.
LEMMA SaleMovesStep ==
    ASSUME MovesInv, NEW s \in Sessions, BeginSale(s) \/ Sale(s)
    PROVE  MovesOf(s)'
<1> USE DEF committed, locks
<1>1. TypeOK /\ OperationOK /\ SaleOf(s) /\ MovesOf(s)
  BY DEF MovesInv, IInv, SaleOK
<1>2. /\ \A l \in Lots : took[s][l] \in Nat
      /\ \A p \in Products : delta[s][p] \in Int /\ LotTotal(took[s], p) \in Int
      /\ need[s] \in Nat
  <2>1. \A l \in Lots : took[s][l] \in Nat
    BY <1>1 DEF TypeOK
  <2>2. \A l \in Lots : took[s][l] \in Int
    BY <2>1
  <2>3. \A p \in Products : LotTotal(took[s], p) \in Int
    BY <2>2, TotalType
  <2>. QED
    BY <1>1, <2>1, <2>3 DEF TypeOK
<1>3. pc[s] \in SaleLabels => CartLine(s).product \in Products /\ CartLine(s).qty \in Nat \ {0}
  BY <1>1, CartLineType
<1>4. CASE BeginSale(s)
  <2>1. /\ pc[s] = "idle" /\ pc'[s] = "check"
        /\ took' = took /\ delta' = delta
    BY <1>1, <1>4 DEF BeginSale, TypeOK
  <2>2. \A l \in Lots : took[s][l] = 0
    BY <1>1, <2>1 DEF SaleOf, SaleLabels
  <2>3. \A p \in Products : delta[s][p] = 0 /\ LotTotal(took[s], p) = 0
    BY <1>1, <2>1, <2>2, TotalZero DEF MovesOf, NothingMoved
  <2>. QED
    BY <2>1, <2>3 DEF MovesOf, SaleMoves, PurchaseMoves, NothingMoved, InHand
<1>5. CASE CheckStock(s)
  <2>1. /\ pc[s] = "check" /\ pc'[s] = "select"
        /\ took' = took /\ delta' = delta /\ op' = op /\ line' = line
    BY <1>1, <1>5 DEF CheckStock, TypeOK
  <2>. QED
    BY <1>1, <2>1 DEF MovesOf, SaleMoves, PurchaseMoves, NothingMoved, InHand, SaleLabels, CartLine
<1>6. CASE SelectLots(s)
  <2>1. /\ pc[s] = "select" /\ pc'[s] = "lots"
        /\ took' = took /\ delta' = delta /\ op' = op /\ line' = line
        /\ need'[s] = CartLine(s).qty
        /\ todo'[s] = Available(CartLine(s).product, op[s].cart.date)
    BY <1>1, <1>6 DEF SelectLots, TypeOK
  <2>2. \A l \in todo'[s] : LotProduct[l] = CartLine(s).product
    BY <2>1 DEF Available
  <2>3. CartLine(s)' = CartLine(s) /\ CartLine(s).qty \in Nat
    BY <1>3, <2>1 DEF CartLine, SaleLabels
  <2>. QED
    BY <1>1, <2>1, <2>2, <2>3 DEF MovesOf, SaleMoves, PurchaseMoves, NothingMoved, InHand,
       SaleLabels
<1>7. CASE LockLot(s)
  <2> PICK l \in Oldest(todo[s]) : LockLot(s)!2!(l)
    BY <1>7 DEF LockLot
  <2> DEFINE take == Lesser(LotRead(s, l), need[s])
  <2>1. /\ l \in Lots /\ l \in todo[s] /\ pc[s] = "lots" /\ pc'[s] = "lots"
        /\ delta' = delta /\ op' = op /\ line' = line
        /\ need'[s] = need[s] - take /\ todo'[s] = todo[s] \ {l}
    BY <1>1, <1>7 DEF LockLot, TypeOK, Oldest
  <2>2. take \in Nat
    BY <1>1, <2>1 DEF Lesser, LotRead, TypeOK
  <2>3. \A k \in Lots : took'[s][k] = IF k = l THEN took[s][k] + take ELSE took[s][k]
    BY <1>1, <2>1 DEF TypeOK
  <2> HIDE DEF take
  <2>4. CartLine(s)' = CartLine(s) /\ LotProduct[l] = CartLine(s).product
    BY <1>1, <2>1 DEF CartLine, MovesOf, SaleMoves, SaleLabels
  <2>5. ASSUME NEW p \in Products
        PROVE  LotTotal(took'[s], p) =
                  LotTotal(took[s], p) + (IF p = CartLine(s).product THEN take ELSE 0)
    <3> PICK v, w : v = took[s] /\ w = took'[s]
      OBVIOUS
    <3>1. \A k \in Lots : v[k] \in Int /\ w[k] \in Int
      BY <1>2, <2>2, <2>3
    <3>2. l \in Lots /\ \A k \in Lots \ {l} : w[k] = v[k]
      BY <2>1, <2>3
    <3>3. v[l] \in Int /\ w[l] = v[l] + take /\ LotTotal(v, p) \in Int
      BY <1>2, <2>1, <2>3
    <3>4. CASE p = LotProduct[l]
      <4>1. LotTotal(w, LotProduct[l]) = LotTotal(v, LotProduct[l]) + w[l] - v[l]
        BY ONLY <3>1, <3>2, TotalAt
      <4>. QED
        BY <2>2, <2>4, <3>3, <3>4, <4>1
    <3>5. CASE p # LotProduct[l]
      <4>1. \A k \in Lots : LotProduct[k] = p => w[k] = v[k]
        BY <3>2, <3>5
      <4>2. LotTotal(w, p) = LotTotal(v, p)
        BY ONLY <4>1, TotalSame
      <4>. QED
        BY <2>4, <3>3, <3>5, <4>2
    <3>. QED
      BY <3>4, <3>5
  <2>6. ASSUME NEW p \in Products
        PROVE  delta[s][p] + LotTotal(took'[s], p) =
                  IF p = CartLine(s).product THEN CartLine(s).qty - need'[s] ELSE 0
    <3>1. delta[s][p] + LotTotal(took[s], p) =
             IF p = CartLine(s).product THEN CartLine(s).qty - need[s] ELSE 0
      BY <1>1, <2>1 DEF MovesOf, SaleMoves, InHand, SaleLabels
    <3>2. CartLine(s).qty \in Nat
      BY <1>3, <2>1 DEF SaleLabels
    <3>3. /\ delta[s][p] \in Int /\ LotTotal(took[s], p) \in Int /\ need[s] \in Nat
          /\ take \in Nat /\ need'[s] = need[s] - take
      BY <1>2, <2>1, <2>2
    <3>4. CASE p = CartLine(s).product
      <4>1. LotTotal(took'[s], p) = LotTotal(took[s], p) + take
        BY <2>5, <3>4
      <4>. QED
        BY <3>1, <3>2, <3>3, <3>4, <4>1
    <3>5. CASE p # CartLine(s).product
      <4>1. LotTotal(took'[s], p) = LotTotal(took[s], p) + 0
        BY <2>5, <3>5
      <4>. QED
        BY <3>1, <3>3, <3>5, <4>1
    <3>. QED
      BY <3>4, <3>5
  <2>7. need'[s] # CartLine(s).qty => \E k \in Lots : took'[s][k] > 0
    <3>1. CASE take = 0
      <4>1. need'[s] = need[s] /\ \A k \in Lots : took'[s][k] = took[s][k]
        BY <1>2, <2>1, <2>3, <3>1
      <4>2. need[s] # CartLine(s).qty => \E k \in Lots : took[s][k] > 0
        BY <1>1, <2>1 DEF MovesOf, SaleMoves, SaleLabels
      <4>. QED
        BY <4>1, <4>2
    <3>2. CASE take # 0
      BY <1>2, <2>1, <2>2, <2>3, <3>2
    <3>. QED
      BY <3>1, <3>2
  <2>8. \A k \in todo'[s] : LotProduct[k] = CartLine(s).product
    BY <1>1, <2>1 DEF MovesOf, SaleMoves, SaleLabels
  <2>9. InHand(s)' = CartLine(s).qty - need'[s]
    BY <2>1, <2>4 DEF InHand
  <2>10. SaleMoves(s)'
    BY <2>1, <2>4, <2>6, <2>7, <2>8, <2>9 DEF SaleMoves
  <2>. QED
    BY <2>1, <2>10 DEF MovesOf, PurchaseMoves, NothingMoved
<1>8. CASE Allocated(s)
  <2>1. /\ pc[s] = "lots" /\ pc'[s] = "stock" /\ need[s] = 0
        /\ took' = took /\ delta' = delta /\ op' = op /\ line' = line
    BY <1>1, <1>8 DEF Allocated, TypeOK
  <2>2. CartLine(s)' = CartLine(s) /\ CartLine(s).qty \in Nat \ {0}
    BY <1>3, <2>1 DEF CartLine, SaleLabels
  <2>. QED
    BY <1>1, <2>1, <2>2 DEF MovesOf, SaleMoves, PurchaseMoves, NothingMoved, InHand, SaleLabels
<1>9. CASE TakeStock(s)
  <2>1. /\ pc[s] = "stock" /\ pc'[s] \in {"check", "commit"} /\ took' = took
        /\ \A p \in Products :
              delta'[s][p] = IF p = CartLine(s).product THEN delta[s][p] + (-CartLine(s).qty)
                                                        ELSE delta[s][p]
    BY <1>1, <1>3, <1>9 DEF TakeStock, AddToStock, TypeOK, SaleLabels
  <2>2. ASSUME NEW p \in Products
        PROVE  delta'[s][p] + LotTotal(took[s], p) = 0
    <3>1. delta[s][p] + LotTotal(took[s], p) =
             IF p = CartLine(s).product THEN CartLine(s).qty ELSE 0
      BY <1>1, <2>1 DEF MovesOf, SaleMoves, InHand, SaleLabels
    <3>2. CartLine(s).qty \in Nat
      BY <1>3, <2>1 DEF SaleLabels
    <3>. QED
      BY <1>2, <2>1, <3>1, <3>2
  <2>3. \E l \in Lots : took[s][l] > 0
    BY <1>1, <2>1 DEF MovesOf, SaleMoves, SaleLabels
  <2>. QED
    BY <2>1, <2>2, <2>3 DEF MovesOf, SaleMoves, PurchaseMoves, NothingMoved, InHand
<1>10. CASE RefuseStock(s) \/ RefuseLots(s) \/ CommitSale(s)
  BY <1>1, <1>10, EndedMoves DEF RefuseStock, RefuseLots, CommitSale, Rollback
<1>. QED
  BY <1>4, <1>5, <1>6, <1>7, <1>8, <1>9, <1>10 DEF Sale

\* The statements on a purchase keep what it has walked and its stock changes
\* in step.
LEMMA PurchaseMovesStep ==
    ASSUME MovesInv, NEW s \in Sessions,
           BeginOnPurchase(s) \/ PurchaseStep(s) \/ BeginPanel(s) \/ PanelWrite(s)
    PROVE  MovesOf(s)'
<1> USE DEF committed, locks
<1>1. TypeOK /\ OperationOK /\ PurchaseOf(s) /\ MovesOf(s)
  BY DEF MovesInv, IInv, PurchaseOK
<1>2. CASE BeginOnPurchase(s) \/ LockPurchase(s) \/ LockItem(s) \/ ItemsLocked(s) \/ BeginPanel(s)
  <2>1. /\ pc[s] \in {"idle", "purchase", "items"} /\ delta' = delta
        /\ pc'[s] \in {"purchase", "items", "decide", "panel"}
    BY <1>1, <1>2 DEF BeginOnPurchase, LockPurchase, LockItem, ItemsLocked, BeginPanel, TypeOK
  <2>. QED
    BY <1>1, <2>1 DEF MovesOf, SaleMoves, PurchaseMoves, NothingMoved, SaleLabels
<1>3. CASE StartItems(s)
  <2>1. /\ pc[s] = "decide" /\ pc'[s] = "apply" /\ delta' = delta
        /\ op' = op /\ qty' = qty /\ remaining' = remaining
        /\ todo'[s] = ItemsOf(op[s].purchase)
    BY <1>1, <1>3 DEF StartItems, Deciding, TypeOK
  <2>2. ItemsOf(op[s].purchase)' = ItemsOf(op[s].purchase)
    BY <2>1 DEF ItemsOf
  <2> PICK w : w = Walked(s)'
    OBVIOUS
  <2>3. \A l \in Lots : w[l] = 0
    BY <2>1, <2>2 DEF Walked
  <2>4. \A p \in Products : delta'[s][p] = 0 /\ LotTotal(w, p) = 0
    BY <1>1, <2>1, <2>3, TotalZero DEF MovesOf, NothingMoved
  <2>. QED
    BY <2>1, <2>2, <2>4 DEF MovesOf, SaleMoves, PurchaseMoves, NothingMoved, SaleLabels
<1>4. CASE ConfirmItem(s) \/ CancelItem(s)
  <2>1. PICK l \in todo[s] :
           /\ todo'[s] = todo[s] \ {l}
           /\ \/ op[s].kind = "confirm" /\ AddToStock(s, LotProduct[l], qty[l])
              \/ op[s].kind = "cancel" /\ AddToStock(s, LotProduct[l], -remaining[l])
    BY <1>1, <1>4 DEF ConfirmItem, CancelItem, Applying, TypeOK
  <2> DEFINE d == IF op[s].kind = "confirm" THEN qty[l] ELSE -remaining[l]
  <2>2. /\ l \in Lots /\ l \in ItemsOf(op[s].purchase) /\ pc[s] = "apply" /\ pc' = pc
        /\ op' = op /\ qty' = qty /\ remaining' = remaining
        /\ todo[s] \subseteq ItemsOf(op[s].purchase)
    BY <1>1, <1>4 DEF ConfirmItem, CancelItem, Applying, TypeOK, MovesOf, PurchaseMoves
  <2>3. /\ d \in Int
        /\ \A p \in Products :
              delta'[s][p] = IF p = LotProduct[l] THEN delta[s][p] + d ELSE delta[s][p]
    BY <1>1, <2>1, <2>2 DEF AddToStock, TypeOK
  <2>4. ItemsOf(op[s].purchase)' = ItemsOf(op[s].purchase)
    BY <2>2 DEF ItemsOf
  <2> PICK v, w : v = Walked(s) /\ w = Walked(s)'
    OBVIOUS
  <2>5. /\ \A k \in Lots : v[k] \in Int /\ w[k] \in Int
        /\ \A k \in Lots \ {l} : w[k] = v[k]
    BY <1>1, <2>1, <2>2, <2>4 DEF Walked, TypeOK
  <2>6. v[l] = 0 /\ w[l] = d
    BY <2>1, <2>2, <2>4 DEF Walked
  <2> HIDE DEF d
  <2>7. ASSUME NEW p \in Products
        PROVE  delta'[s][p] = LotTotal(w, p)
    <3>1. delta[s][p] = LotTotal(v, p) /\ delta[s][p] \in Int
      BY <1>1, <2>2 DEF MovesOf, PurchaseMoves, TypeOK
    <3>2. CASE p = LotProduct[l]
      <4>1. LotTotal(w, LotProduct[l]) = LotTotal(v, LotProduct[l]) + w[l] - v[l]
        BY <2>2, <2>5, TotalAt
      <4>. QED
        BY <2>3, <2>6, <3>1, <3>2, <4>1
    <3>3. CASE p # LotProduct[l]
      <4>1. \A k \in Lots : LotProduct[k] = p => w[k] = v[k]
        BY <2>5, <3>3
      <4>2. LotTotal(w, p) = LotTotal(v, p)
        BY ONLY <4>1, TotalSame
      <4>. QED
        BY <2>3, <3>1, <3>3, <4>2
    <3>. QED
      BY <3>2, <3>3
  <2>. QED
    BY <2>1, <2>2, <2>4, <2>7 DEF MovesOf, SaleMoves, PurchaseMoves, NothingMoved, SaleLabels
<1>5. CASE \/ PurchaseGone(s) \/ NothingToDo(s) \/ CommitUpdate(s) \/ CommitDelete(s)
           \/ CancelDraft(s) \/ CommitConfirm(s) \/ RefuseCancel(s) \/ CommitCancel(s)
           \/ PanelWrite(s)
  BY <1>1, <1>5, EndedMoves DEF PurchaseGone, NothingToDo, CommitUpdate, CommitDelete,
     CancelDraft, CommitConfirm, RefuseCancel, CommitCancel, PanelWrite, Rollback
<1>. QED
  BY <1>2, <1>3, <1>4, <1>5 DEF PurchaseStep

\* No item of a purchase ever holds more than MaxQty.
LEMMA BoundKept ==
    ASSUME MovesInv, Next
    PROVE  \A l \in Lots : qty'[l] <= MaxQty
<1>1. TypeOK /\ \A l \in Lots : qty[l] <= MaxQty /\ qty[l] \in Nat
  BY DEF MovesInv, IInv, TypeOK
<1>2. MaxQty \in Nat
  BY ValueAssumption
<1>3. ASSUME NEW p, qty' \in ItemLists(p)
      PROVE  \A l \in Lots : qty'[l] <= MaxQty
  BY <1>2, <1>3 DEF ItemLists
<1>4. CASE CreatePurchase
  BY <1>3, <1>4 DEF CreatePurchase
<1>5. ASSUME NEW s \in Sessions, CommitUpdate(s) \/ CommitDelete(s)
      PROVE  \A l \in Lots : qty'[l] <= MaxQty
  BY <1>1, <1>2, <1>3, <1>5 DEF CommitUpdate, CommitDelete
<1>6. ASSUME NEW s \in Sessions,
             \/ BeginSale(s) \/ BeginOnPurchase(s) \/ BeginPanel(s) \/ Step(s)
             \/ DeadlockVictim(s) \/ Fail(s),
             ~(CommitUpdate(s) \/ CommitDelete(s))
      PROVE  qty' = qty
  BY <1>6 DEF Step, Sale, PurchaseStep, BeginSale, BeginOnPurchase, BeginPanel, PanelWrite,
     DeadlockVictim, Fail, CheckStock, RefuseStock, SelectLots, LockLot, Allocated, RefuseLots,
     TakeStock, CommitSale, LockPurchase, PurchaseGone, LockItem, ItemsLocked, NothingToDo,
     CancelDraft, StartItems, ConfirmItem, CommitConfirm, CancelItem, RefuseCancel,
     CommitCancel, Rollback, committed
<1>. QED
  BY <1>1, <1>4, <1>5, <1>6 DEF Next

\* A step of one session keeps what the others have put together.
LEMMA OthersInStep ==
    ASSUME MovesInv, NEW s \in Sessions, OthersSame(s), UnderLocks(s),
           NEW t \in Sessions, t # s
    PROVE  MovesOf(t)'
<1> DEFINE p == op[t].purchase
<1>1. UNCHANGED <<pc[t], op[t], line[t], todo[t], need[t], took[t], delta[t]>>
  BY DEF OthersSame
<1>2. ASSUME pc[t] = "apply"
      PROVE  /\ ItemsOf(p)' = ItemsOf(p)
             /\ \A l \in ItemsOf(p) : qty'[l] = qty[l] /\ remaining'[l] = remaining[l]
  <2>1. /\ purLock[p] = t /\ p \in Purchases
        /\ \A l \in ItemsOf(p) : lotLock[l] = t
    BY <1>2 DEF MovesInv, IInv, OperationOK, PurchaseOK, PurchaseOf, PurchaseLabels
  <2>2. \A l \in Lots : LotPurchase[l] = p => qty'[l] = qty[l]
    BY <2>1 DEF UnderLocks
  <2>3. ItemsOf(p)' = ItemsOf(p)
    BY <1>1, <2>2 DEF ItemsOf
  <2>4. \A l \in ItemsOf(p) : l \in Lots /\ LotPurchase[l] = p
    BY DEF ItemsOf
  <2>. QED
    BY <2>1, <2>2, <2>3, <2>4 DEF UnderLocks
<1>. QED
  BY <1>1, <1>2, OthersMoves

\* So does the creation of a purchase: nobody works on one that is not there.
LEMMA OthersInCreate ==
    ASSUME MovesInv, CreatePurchase, NEW t \in Sessions
    PROVE  MovesOf(t)'
<1> DEFINE p == op[t].purchase
<1>1. UNCHANGED <<pc[t], op[t], line[t], todo[t], need[t], took[t], delta[t]>>
  BY DEF CreatePurchase, session
<1>2. ASSUME pc[t] = "apply"
      PROVE  /\ ItemsOf(p)' = ItemsOf(p)
             /\ \A l \in ItemsOf(p) : qty'[l] = qty[l] /\ remaining'[l] = remaining[l]
  <2>1. status[p] # "absent"
    BY <1>2 DEF MovesInv, IInv, PurchaseOK, PurchaseOf, PurchaseLabels
  <2>2. remaining' = remaining /\ \A l \in Lots : LotPurchase[l] = p => qty'[l] = qty[l]
    BY <2>1 DEF CreatePurchase, ItemLists
  <2>3. ItemsOf(p)' = ItemsOf(p)
    BY <1>1, <2>2 DEF ItemsOf
  <2>. QED
    BY <2>2, <2>3 DEF ItemsOf
<1>. QED
  BY <1>1, <1>2, OthersMoves

\* In the empty database nothing is under way.
LEMMA MovesStart == Init => MovesInv
<1> SUFFICES ASSUME Init PROVE MovesInv
  OBVIOUS
<1>1. IInv
  BY InvStart
<1>2. \A s \in Sessions : MovesOf(s)
  BY DEF Init, NoProducts, MovesOf, SaleMoves, PurchaseMoves, NothingMoved, SaleLabels
<1>3. \A l \in Lots : qty[l] <= MaxQty
  BY ValueAssumption DEF Init, NoLots
<1>. QED
  BY <1>1, <1>2, <1>3 DEF MovesInv

\* Every step keeps what the sessions have put together.
LEMMA MovesStep == MovesInv /\ [Next]_vars => MovesInv'
<1> SUFFICES ASSUME MovesInv, [Next]_vars PROVE MovesInv'
  OBVIOUS
<1>1. IInv /\ IInv' /\ TypeOK
  BY InvStep DEF MovesInv, IInv
<1>2. CASE UNCHANGED vars
  <2>1. \A s \in Sessions :
           /\ UNCHANGED <<pc[s], op[s], line[s], todo[s], need[s], took[s], delta[s]>>
           /\ ItemsOf(op[s].purchase)' = ItemsOf(op[s].purchase)
           /\ qty' = qty /\ remaining' = remaining
    BY <1>2 DEF vars, committed, locks, session, ItemsOf
  <2>2. \A s \in Sessions : MovesOf(s)'
    BY <2>1, OthersMoves
  <2>. QED
    BY <1>1, <1>2, <2>2 DEF MovesInv, vars, committed
<1>3. CASE Next
  <2>1. ASSUME CreatePurchase
        PROVE  \A t \in Sessions : MovesOf(t)'
    BY <2>1, OthersInCreate
  <2>2. ASSUME NEW s \in Sessions,
               \/ BeginSale(s) \/ BeginOnPurchase(s) \/ BeginPanel(s) \/ Step(s)
               \/ DeadlockVictim(s) \/ Fail(s)
        PROVE  \A t \in Sessions : MovesOf(t)'
    <3>1. MovesOf(s)'
      <4>1. CASE DeadlockVictim(s) \/ Fail(s)
        BY <1>1, <4>1, EndedMoves DEF DeadlockVictim, Fail, Rollback
      <4>. QED
        BY <2>2, <4>1, SaleMovesStep, PurchaseMovesStep DEF Step
    <3>2. OthersSame(s) /\ UnderLocks(s)
      BY <1>1, <2>2, OneSession, WritesUnderLocks
    <3>. QED
      BY <3>1, <3>2, OthersInStep
  <2>3. \A s \in Sessions : MovesOf(s)'
    BY <1>3, <2>1, <2>2 DEF Next
  <2>4. \A l \in Lots : qty'[l] <= MaxQty
    BY <1>3, BoundKept
  <2>. QED
    BY <1>1, <2>3, <2>4 DEF MovesInv
<1>. QED
  BY <1>2, <1>3

\* At every statement of every request, the stock changes that a sale, a
\* confirmation or a cancellation has made so far are those of the units it
\* has taken or gone through, and a sale about to commit has taken some.
THEOREM MovesInStep == Spec => []MovesInv
BY MovesStart, MovesStep, PTL DEF Spec

----------------------------------------------------------------------------
(* The commits, as steps of the ledger. *)

\* The commit of a sale lowers the stock by the units it takes from the lots.
LEMMA SaleMoved ==
    ASSUME MovesInv, NEW s \in Sessions, CommitSale(s), NEW p \in Products
    PROVE  /\ stock'[p] = stock[p] - LotTotal(took[s], p)
           /\ stock'[p] = stock[p] + LotTotal(remaining', p) - LotTotal(remaining, p)
           /\ LotTotal(remaining', p) \in Int /\ LotTotal(remaining, p) \in Int
<1>1. TypeOK /\ IInv /\ SaleMoves(s)
  BY DEF MovesInv, IInv, MovesOf
<1>2. /\ stock'[p] = stock[p] + delta[s][p] /\ pc[s] = "commit"
      /\ stock[p] \in Int /\ delta[s][p] \in Int
  BY <1>1 DEF CommitSale, TypeOK
<1>3. delta[s][p] + LotTotal(took[s], p) = 0
  BY <1>1, <1>2 DEF SaleMoves, InHand, SaleLabels
<1> PICK r, t : r = remaining' /\ t = took[s]
  OBVIOUS
<1>4. \A l \in Lots : r[l] \in Int /\ t[l] \in Int /\ remaining[l] = r[l] + t[l]
  BY <1>1, SaleWrites
<1>5. LotTotal(remaining, p) = LotTotal(r, p) + LotTotal(t, p)
  BY <1>4, TotalPlus
<1>6. LotTotal(r, p) \in Int /\ LotTotal(t, p) \in Int
  BY <1>4, TotalType
<1>. QED
  BY <1>2, <1>3, <1>5, <1>6

\* The commit of a confirmation, and that of the cancellation of a confirmed
\* purchase, move the stock by the units of its lots.
LEMMA PurchaseMoved ==
    ASSUME MovesInv, NEW s \in Sessions, CommitConfirm(s) \/ CommitCancel(s), NEW q \in Products
    PROVE  /\ stock'[q] = stock[q] + LotTotal(remaining', q) - LotTotal(remaining, q)
           /\ LotTotal(remaining', q) \in Int /\ LotTotal(remaining, q) \in Int
<1> DEFINE p == op[s].purchase
<1>1. TypeOK /\ LotConservation /\ PurchaseOf(s) /\ PurchaseMoves(s)
  BY DEF MovesInv, IInv, MovesOf, PurchaseOK
<1>2. /\ stock'[q] = stock[q] + delta[s][q] /\ stock[q] \in Int
      /\ pc[s] = "apply" /\ todo[s] = {}
  BY <1>1 DEF CommitConfirm, CommitCancel, Applying, TypeOK
<1>3. ASSUME NEW l \in Lots
      PROVE  /\ Walked(s)[l] \in Int /\ remaining[l] \in Int
             /\ remaining'[l] = remaining[l] + Walked(s)[l]
  <2>1. /\ remaining[l] \in Nat /\ qty[l] \in Nat
        /\ Walked(s)[l] = IF l \in ItemsOf(p)
                            THEN IF op[s].kind = "confirm" THEN qty[l] ELSE -remaining[l]
                            ELSE 0
    BY <1>1, <1>2 DEF Walked, TypeOK
  <2>2. CASE CommitConfirm(s)
    <3>1. op[s].kind = "confirm" /\ status[p] = "draft"
      BY <1>1, <1>2, <2>2 DEF CommitConfirm, Applying, PurchaseOf, PurchaseLabels
    <3>2. l \in ItemsOf(p) => remaining[l] = 0
      BY <1>1, <3>1 DEF ItemsOf, LotConservation
    <3>3. remaining'[l] = IF l \in ItemsOf(p) THEN qty[l] ELSE remaining[l]
      BY <2>2 DEF CommitConfirm
    <3>. QED
      BY <2>1, <3>1, <3>2, <3>3
  <2>3. CASE CommitCancel(s)
    <3>1. op[s].kind = "cancel"
      BY <2>3 DEF CommitCancel, Applying
    <3>2. remaining'[l] = IF l \in ItemsOf(p) THEN 0 ELSE remaining[l]
      BY <2>3 DEF CommitCancel
    <3>. QED
      BY <2>1, <3>1, <3>2
  <2>. QED
    BY <2>2, <2>3
<1>4. delta[s][q] = LotTotal(Walked(s), q)
  BY <1>1, <1>2 DEF PurchaseMoves
<1> PICK r, w : r = remaining' /\ w = Walked(s)
  OBVIOUS
<1>5. \A l \in Lots : remaining[l] \in Int /\ w[l] \in Int /\ r[l] = remaining[l] + w[l]
  BY <1>3
<1>6. LotTotal(r, q) = LotTotal(remaining, q) + LotTotal(w, q)
  BY <1>5, TotalPlus
<1>7. LotTotal(remaining, q) \in Int /\ LotTotal(w, q) \in Int
  BY <1>5, TotalType
<1>. QED
  BY <1>2, <1>4, <1>6, <1>7

\* Any other step writes neither a lot's remaining quantity nor, unless it
\* is the panel's, a stock.
LEMMA NothingElseMoves ==
    ASSUME Next
    PROVE  \/ UNCHANGED <<remaining, stock>>
           \/ \E s \in Sessions :
                 PanelWrite(s) \/ CommitSale(s) \/ CommitConfirm(s) \/ CommitCancel(s)
<1>1. CASE CreatePurchase
  BY <1>1 DEF CreatePurchase
<1>2. ASSUME NEW s \in Sessions,
             \/ BeginSale(s) \/ BeginOnPurchase(s) \/ BeginPanel(s) \/ Step(s)
             \/ DeadlockVictim(s) \/ Fail(s),
             ~(PanelWrite(s) \/ CommitSale(s) \/ CommitConfirm(s) \/ CommitCancel(s))
      PROVE  UNCHANGED <<remaining, stock>>
  BY <1>2 DEF Step, Sale, PurchaseStep, BeginSale, BeginOnPurchase, BeginPanel,
     DeadlockVictim, Fail, CheckStock, RefuseStock, SelectLots, LockLot, Allocated, RefuseLots,
     TakeStock, LockPurchase, PurchaseGone, LockItem, ItemsLocked, NothingToDo, CommitUpdate,
     CommitDelete, CancelDraft, StartItems, ConfirmItem, CancelItem, RefuseCancel, Rollback,
     committed
<1>. QED
  BY <1>1, <1>2 DEF Next

\* However the requests interleave, a step changes the stock of a product by
\* exactly what it changes the remaining quantity of its lots, unless it is
\* the panel's own edit of the stock.
THEOREM StockMoves == Spec => StockMovesWithLots
<1> DEFINE Together ==
             \/ \A p \in Products :
                   stock'[p] - stock[p] = LotTotal(remaining', p) - LotTotal(remaining, p)
             \/ PanelWrites
<1>1. MovesInv /\ [Next]_vars => [Together]_vars
  <2> SUFFICES ASSUME MovesInv, Next, ~PanelWrites, NEW p \in Products
               PROVE  stock'[p] - stock[p] = LotTotal(remaining', p) - LotTotal(remaining, p)
    OBVIOUS
  <2>1. stock[p] \in Int /\ LotTotal(remaining, p) \in Int
    <3>1. \A l \in Lots : remaining[l] \in Int
      BY DEF MovesInv, IInv, TypeOK
    <3>. QED
      BY <3>1, TotalType DEF MovesInv, IInv, TypeOK
  <2>2. CASE UNCHANGED <<remaining, stock>>
    BY <2>1, <2>2
  <2>3. ASSUME NEW s \in Sessions, CommitSale(s) \/ CommitConfirm(s) \/ CommitCancel(s)
        PROVE  /\ stock'[p] = stock[p] + LotTotal(remaining', p) - LotTotal(remaining, p)
               /\ LotTotal(remaining', p) \in Int
    BY <2>3, SaleMoved, PurchaseMoved
  <2>. QED
    BY <2>1, <2>2, <2>3, NothingElseMoves DEF PanelWrites
<1>. QED
  BY <1>1, MovesInStep, PTL DEF Spec, StockMovesWithLots

\* The totals of the ledger are those of the lots.
LEMMA SameTotal == \A f, p : Ledger!Total(f, p) = LotTotal(f, p)
BY DEF Ledger!Total, LotTotal, Ledger!MapThenSumSet, Ledger!MapThenFoldSet, MapThenSumSet,
   MapThenFoldSet

\* The creation of a purchase, and the edit of a draft, are drafts.
LEMMA DraftStep ==
    ASSUME MovesInv, NEW p \in Purchases, status[p] \in {"absent", "draft"},
           status' = [status EXCEPT ![p] = "draft"], qty' \in ItemLists(p),
           UNCHANGED <<remaining, sold, stock, salida>>
    PROVE  Ledger!Draft(p)
<1> DEFINE Mine == Ledger!OfPurchase(p)
           q == [l \in Mine |-> qty'[l]]
<1>1. \A l \in Lots : l \in Mine <=> LotPurchase[l] = p
  BY DEF Ledger!OfPurchase
<1>2. qty' \in [Lots -> 0..MaxQty] /\ \A l \in Lots : LotPurchase[l] # p => qty'[l] = qty[l]
  BY DEF ItemLists
<1>3. q \in [Mine -> 0..MaxQty]
  BY <1>2 DEF Ledger!OfPurchase
<1>4. qty' = [l \in Lots |-> IF l \in Mine THEN q[l] ELSE qty[l]]
  BY <1>1, <1>2
<1>. QED
  BY <1>3, <1>4 DEF Ledger!Draft

\* The commit of a sale is a sale of the ledger.
LEMMA SellStep ==
    ASSUME MovesInv, NEW s \in Sessions, CommitSale(s)
    PROVE  Ledger!Sell
<1>1. TypeOK /\ IInv /\ LotConservation /\ SaleMoves(s) /\ pc[s] = "commit"
  BY DEF MovesInv, IInv, MovesOf, CommitSale
<1> PICK t : t = took[s]
  OBVIOUS
<1>2. \A l \in Lots :
         /\ remaining[l] \in Nat /\ sold[l] \in Nat /\ t[l] \in Nat /\ qty[l] \in Nat
         /\ remaining'[l] = remaining[l] - t[l] /\ sold'[l] = sold[l] + t[l]
         /\ t[l] > 0 => /\ t[l] <= remaining[l]
                        /\ status[LotPurchase[l]] = "confirmed"
  BY <1>1, SaleWrites DEF TypeOK
<1>3. t \in [Lots -> 0..MaxQty]
  <2>1. \A l \in Lots : t[l] \in 0..MaxQty
    <3> SUFFICES ASSUME NEW l \in Lots PROVE t[l] \in 0..MaxQty
      OBVIOUS
    <3>1. qty[l] <= MaxQty /\ MaxQty \in Nat
      BY ValueAssumption DEF MovesInv
    <3>2. t[l] > 0 => remaining[l] + sold[l] = qty[l]
      BY <1>1, <1>2 DEF LotConservation
    <3>. QED
      BY <1>2, <3>1, <3>2
  <2>. QED
    BY <1>1, <2>1 DEF TypeOK
<1>4. \E l \in Lots : t[l] > 0
  BY <1>1 DEF SaleMoves, SaleLabels
<1>5. \A l \in Lots : t[l] <= remaining[l]
  BY <1>2
<1>6. remaining' = [l \in Lots |-> remaining[l] - t[l]] /\ sold' = [l \in Lots |-> sold[l] + t[l]]
  BY <1>2 DEF CommitSale
<1>7. stock' = [q \in Products |-> stock[q] - Ledger!Total(t, q)]
  <2>1. \A q \in Products : stock'[q] = stock[q] - Ledger!Total(t, q)
    BY SaleMoved, SameTotal
  <2>2. stock' = [q \in Products |-> stock'[q]]
    BY DEF CommitSale
  <2>. QED
    BY <2>1, <2>2
<1>. QED
  BY <1>2, <1>3, <1>4, <1>5, <1>6, <1>7 DEF Ledger!Sell, CommitSale

\* The stock a commit of a purchase writes is the one the ledger says.
LEMMA LedgerStock ==
    ASSUME MovesInv, NEW s \in Sessions, CommitConfirm(s) \/ CommitCancel(s)
    PROVE  stock' = [q \in Products |->
                        stock[q] + Ledger!Total(remaining', q) - Ledger!Total(remaining, q)]
<1>1. \A q \in Products :
         stock'[q] = stock[q] + Ledger!Total(remaining', q) - Ledger!Total(remaining, q)
  <2> PICK r : r = remaining'
    OBVIOUS
  <2>. QED
    BY PurchaseMoved, SameTotal
<1>2. stock' = [q \in Products |-> stock'[q]]
  BY DEF CommitConfirm, CommitCancel
<1>. QED
  BY <1>1, <1>2

\* The commits on a purchase are the operations of the ledger.
LEMMA PurchaseLedger ==
    ASSUME MovesInv, NEW s \in Sessions,
           \/ CommitUpdate(s) \/ CommitDelete(s) \/ CancelDraft(s)
           \/ CommitConfirm(s) \/ CommitCancel(s)
    PROVE  \E p \in Purchases :
              Ledger!Draft(p) \/ Ledger!Confirm(p) \/ Ledger!Cancel(p) \/ Ledger!Delete(p)
<1> DEFINE p == op[s].purchase
<1>1. TypeOK /\ OperationOK /\ LotConservation /\ SalidaMatchesStatus /\ PurchaseOf(s)
  BY DEF MovesInv, IInv, PurchaseOK
<1>2. /\ pc[s] \in PurchaseLabels /\ pc[s] \in {"decide", "apply"}
      /\ p \in Purchases /\ status[p] # "absent" /\ status[p] # "deleted"
  <2>1. pc[s] \in PurchaseLabels /\ pc[s] \in {"decide", "apply"}
    BY DEF CommitUpdate, CommitDelete, CancelDraft, CommitConfirm, CommitCancel, Deciding,
       Applying, PurchaseLabels
  <2>. QED
    BY <1>1, <2>1 DEF OperationOK, PurchaseOf
<1>3. status[p] \in Status
  BY <1>1, <1>2 DEF TypeOK
<1>4. \A l \in Lots : /\ qty[l] \in Nat /\ remaining[l] \in Nat /\ sold[l] \in Nat
                      /\ l \in Ledger!OfPurchase(p) <=> LotPurchase[l] = p
                      /\ l \in ItemsOf(p) <=> LotPurchase[l] = p /\ qty[l] > 0
                      /\ LotPurchase[l] = p /\ status[p] # "confirmed"
                            => remaining[l] = 0 /\ sold[l] = 0
                      /\ LotPurchase[l] = p /\ status[p] = "confirmed"
                            => remaining[l] + sold[l] = qty[l]
  BY <1>1 DEF TypeOK, LotConservation, Ledger!OfPurchase, ItemsOf
<1>5. salida[p] = (IF status[p] = "confirmed" /\ p \in Paid THEN 1 ELSE 0)
  BY <1>1, <1>2 DEF SalidaMatchesStatus
<1>6. CASE CommitUpdate(s)
  <2>1. status[p] = "draft" /\ status' = [status EXCEPT ![p] = "draft"]
    BY <1>1, <1>2, <1>6 DEF CommitUpdate, Editable, TypeOK
  <2>2. Ledger!Draft(p)
    BY <1>2, <1>6, <2>1, DraftStep DEF CommitUpdate
  <2>. QED
    BY <1>2, <2>2
<1>7. CASE CommitDelete(s)
  <2>1. status[p] \in {"draft", "cancelled"}
    BY <1>2, <1>3, <1>7 DEF CommitDelete, Deletable, Status
  <2>2. qty' = [l \in Lots |-> IF l \in Ledger!OfPurchase(p) THEN 0 ELSE qty[l]]
    BY <1>4, <1>7 DEF CommitDelete
  <2>3. Ledger!Delete(p)
    BY <1>7, <2>1, <2>2 DEF CommitDelete, Ledger!Delete
  <2>. QED
    BY <1>2, <2>3
<1>8. CASE CancelDraft(s)
  <2>1. status[p] = "draft" /\ status' = [status EXCEPT ![p] = "cancelled"]
          /\ UNCHANGED <<qty, remaining, sold, stock, salida>>
    BY <1>8 DEF CancelDraft, StatusOf
  <2>2. \A l \in Ledger!OfPurchase(p) : sold[l] = 0
    BY <1>4, <2>1 DEF Ledger!OfPurchase
  <2>3. remaining' = [l \in Lots |-> IF l \in Ledger!OfPurchase(p) THEN 0 ELSE remaining[l]]
    BY <1>1, <1>4, <2>1 DEF TypeOK
  <2>4. stock' = [q \in Products |->
                     stock[q] + Ledger!Total(remaining', q) - Ledger!Total(remaining, q)]
    <3>1. \A q \in Products : stock[q] \in Int /\ Ledger!Total(remaining, q) \in Int
      <4>1. \A l \in Lots : remaining[l] \in Int
        BY <1>4
      <4>. QED
        BY <1>1, <4>1, TotalType, SameTotal DEF TypeOK
    <3>2. \A q \in Products : Ledger!Total(remaining', q) = Ledger!Total(remaining, q)
      BY <2>1
    <3>. QED
      BY <1>1, <2>1, <3>1, <3>2 DEF TypeOK
  <2>5. salida' = [salida EXCEPT ![p] = 0]
    BY <1>1, <1>2, <1>5, <2>1 DEF TypeOK
  <2>6. Ledger!Cancel(p)
    BY <2>1, <2>2, <2>3, <2>4, <2>5 DEF Ledger!Cancel
  <2>. QED
    BY <1>2, <2>6
<1>9. CASE CommitConfirm(s)
  <2>1. status[p] = "draft" /\ status' = [status EXCEPT ![p] = "confirmed"]
          /\ UNCHANGED <<qty, sold>>
    BY <1>1, <1>2, <1>9 DEF CommitConfirm, Applying, PurchaseOf
  <2>2. remaining' = [l \in Lots |-> IF l \in Ledger!OfPurchase(p) THEN qty[l] ELSE remaining[l]]
    <3>1. remaining' = [l \in Lots |-> IF l \in ItemsOf(p) THEN qty[l] ELSE remaining[l]]
      BY <1>9 DEF CommitConfirm
    <3>2. \A l \in Lots : (IF l \in ItemsOf(p) THEN qty[l] ELSE remaining[l]) =
                             IF l \in Ledger!OfPurchase(p) THEN qty[l] ELSE remaining[l]
      BY <1>4, <2>1
    <3>. QED
      BY <3>1, <3>2
  <2>3. salida' = [salida EXCEPT ![p] = IF p \in Paid THEN 1 ELSE 0]
    <3>1. salida' = IF p \in Paid THEN [salida EXCEPT ![p] = @ + 1] ELSE salida
      BY <1>9 DEF CommitConfirm
    <3>2. salida[p] = 0 /\ salida \in [Purchases -> Nat]
      BY <1>1, <1>5, <2>1 DEF TypeOK
    <3>3. CASE p \in Paid
      <4>1. salida[p] + 1 = 1
        BY <3>2
      <4>. QED
        BY <3>1, <3>3, <4>1
    <3>4. CASE p \notin Paid
      BY <1>2, <3>1, <3>2, <3>4
    <3>. QED
      BY <3>3, <3>4
  <2>4. Ledger!Confirm(p)
    BY <1>9, <2>1, <2>2, <2>3, LedgerStock DEF Ledger!Confirm
  <2>. QED
    BY <1>2, <2>4
<1>10. CASE CommitCancel(s)
  <2>1. /\ status[p] = "confirmed" /\ status' = [status EXCEPT ![p] = "cancelled"]
        /\ UNCHANGED <<qty, sold>> /\ salida' = [salida EXCEPT ![p] = 0]
        /\ \A l \in ItemsOf(p) : remaining[l] = qty[l]
    BY <1>1, <1>2, <1>10 DEF CommitCancel, Applying, PurchaseOf
  <2>2. \A l \in Ledger!OfPurchase(p) : sold[l] = 0
    <3> SUFFICES ASSUME NEW l \in Lots, LotPurchase[l] = p PROVE sold[l] = 0
      BY DEF Ledger!OfPurchase
    <3>. QED
      BY <1>4, <2>1
  <2>3. remaining' = [l \in Lots |-> IF l \in Ledger!OfPurchase(p) THEN 0 ELSE remaining[l]]
    <3>1. remaining' = [l \in Lots |-> IF l \in ItemsOf(p) THEN 0 ELSE remaining[l]]
      BY <1>10 DEF CommitCancel
    <3>2. \A l \in Lots : (IF l \in ItemsOf(p) THEN 0 ELSE remaining[l]) =
                             IF l \in Ledger!OfPurchase(p) THEN 0 ELSE remaining[l]
      BY <1>4, <2>1
    <3>. QED
      BY <3>1, <3>2
  <2>4. Ledger!Cancel(p)
    BY <1>10, <2>1, <2>2, <2>3, LedgerStock DEF Ledger!Cancel
  <2>. QED
    BY <1>2, <2>4
<1>. QED
  BY <1>6, <1>7, <1>8, <1>9, <1>10

\* Every step of the sessions is an operation of the ledger, or none.
LEMMA LedgerStep == MovesInv /\ [Next]_vars => [Ledger!Next]_(Ledger!ledger)
<1> SUFFICES ASSUME MovesInv, [Next]_vars PROVE [Ledger!Next]_(Ledger!ledger)
  OBVIOUS
<1>1. CASE UNCHANGED vars
  BY <1>1 DEF vars, committed, Ledger!ledger
<1>2. CASE CreatePurchase
  <2>1. PICK p \in Purchases : Ledger!Draft(p)
    BY <1>2, DraftStep DEF CreatePurchase
  <2>. QED
    BY <2>1 DEF Ledger!Next
<1>3. ASSUME NEW s \in Sessions, CommitSale(s)
      PROVE  Ledger!Next
  BY <1>3, SellStep DEF Ledger!Next
<1>4. ASSUME NEW s \in Sessions,
             \/ CommitUpdate(s) \/ CommitDelete(s) \/ CancelDraft(s)
             \/ CommitConfirm(s) \/ CommitCancel(s)
      PROVE  Ledger!Next
  BY <1>4, PurchaseLedger DEF Ledger!Next
<1>5. ASSUME NEW s \in Sessions, PanelWrite(s)
      PROVE  Ledger!Next \/ UNCHANGED Ledger!ledger
  <2>1. op[s].product \in Products
    BY <1>5 DEF PanelWrite, MovesInv, IInv, OperationOK
  <2>2. \/ UNCHANGED <<status, qty, remaining, sold, salida, stock>>
        \/ Ledger!Recount
    BY <1>5, <2>1 DEF PanelWrite, Ledger!Recount
  <2>. QED
    BY <2>2 DEF Ledger!Next, Ledger!ledger
<1>6. ASSUME NEW s \in Sessions,
             \/ BeginSale(s) \/ BeginOnPurchase(s) \/ BeginPanel(s) \/ Step(s)
             \/ DeadlockVictim(s) \/ Fail(s),
             ~(\/ CommitSale(s) \/ CommitUpdate(s) \/ CommitDelete(s) \/ CancelDraft(s)
               \/ CommitConfirm(s) \/ CommitCancel(s) \/ PanelWrite(s))
      PROVE  UNCHANGED Ledger!ledger
  BY <1>6 DEF Step, Sale, PurchaseStep, BeginSale, BeginOnPurchase, BeginPanel,
     DeadlockVictim, Fail, CheckStock, RefuseStock, SelectLots, LockLot, Allocated, RefuseLots,
     TakeStock, LockPurchase, PurchaseGone, LockItem, ItemsLocked, NothingToDo, StartItems,
     ConfirmItem, CancelItem, RefuseCancel, Rollback, committed, Ledger!ledger
<1>. QED
  BY <1>1, <1>2, <1>3, <1>4, <1>5, <1>6 DEF Next

\* What readers of the database see of any number of concurrent sessions is
\* a sequence of whole operations: the statements of a request show their
\* effects all at once, at its commit, or never.
THEOREM ImplementsTheLedger == Spec => ImplementsLedger
<1>1. Init => Ledger!Init
  BY DEF Init, Ledger!Init, NoLots
<1>. QED
  BY <1>1, LedgerStep, MovesInStep, PTL DEF Spec, ImplementsLedger, Ledger!Spec
----------------------------------------------------------------------------
(* The preview.  The lots of a sale are locked in order and stay locked:   *)
(* what it took of them is the FIFO of the quantities they have.           *)

\* What the lots S leave to consume of n, if they hold r.
Left(r, S, n) == IF SumOver(r, S) < n THEN n - SumOver(r, S) ELSE 0

Older(S, l) == {k \in S : LotAge[k] < LotAge[l]}

\* What allocate_fifo takes of one of them.
Fifo(r, S, n, l) == Lesser(r[l], Left(r, Older(S, l), n))

\* The lots of a product that a session has locked.
Held(s, p) == {l \in Lots : LotProduct[l] = p /\ lotLock[l] = s}

\* Every lot a sale has locked is one of a line of its cart, and of its date.
OfItsCart(s) ==
    \A l \in Lots : lotLock[l] = s =>
        /\ PurchaseDate[LotPurchase[l]] <= op[s].cart.date
        /\ \E i \in DOMAIN op[s].cart.lines : LotProduct[l] = op[s].cart.lines[i].product

\* What it took of the lots of a line is the FIFO of those it has locked, and
\* it has locked none of the lines to come.
LinesTaken(s) ==
    \A i \in DOMAIN op[s].cart.lines :
        LET held == Held(s, op[s].cart.lines[i].product)
        IN  /\ \A l \in held : took[s][l] = Fifo(remaining, held, op[s].cart.lines[i].qty, l)
            /\ i > line[s] \/ (i = line[s] /\ pc[s] \in {"check", "select"}) => held = {}

\* The rows still to lock come after those it has.
LockedInOrder(s) ==
    pc[s] = "lots" =>
        LET held == Held(s, CartLine(s).product)
        IN  /\ need[s] = Left(remaining, held, CartLine(s).qty)
            /\ \A k \in todo[s] :
                  /\ LotProduct[k] = CartLine(s).product
                  /\ PurchaseDate[LotPurchase[k]] <= op[s].cart.date
                  /\ \A l \in held : LotAge[l] < LotAge[k]

FifoSoFar(s) ==
    pc[s] \in SaleLabels /\ OnceEach(op[s].cart) =>
        OfItsCart(s) /\ LinesTaken(s) /\ LockedInOrder(s)

FifoInv == IInv /\ \A s \in Sessions : FifoSoFar(s)

\* AllocateFifo is that, lot by lot.
LEMMA AllocationIs ==
    ASSUME NEW S, NEW n, NEW l \in Lots
    PROVE  AllocateFifo(S, n)[l] = IF l \in S THEN Fifo(remaining, S, n, l) ELSE 0
<1>1. \A T : UnitsOf(T) = SumOver(remaining, T)
  BY DEF UnitsOf, SumOver
<1>. QED
  BY <1>1 DEF AllocateFifo, Fifo, Left, Older

\* It depends on what those lots hold,
LEMMA FifoSame ==
    ASSUME NEW q, NEW r, NEW S \in SUBSET Lots, \A l \in S : q[l] = r[l], NEW n
    PROVE  /\ Left(q, S, n) = Left(r, S, n)
           /\ \A l \in S : Fifo(q, S, n, l) = Fifo(r, S, n, l)
<1>1. \A T \in SUBSET S : SumOver(q, T) = SumOver(r, T)
  <2> SUFFICES ASSUME NEW T \in SUBSET S PROVE SumOver(q, T) = SumOver(r, T)
    OBVIOUS
  <2>1. IsFiniteSet(T) /\ \A l \in T : q[l] = r[l]
    BY LotAssumption, FS_Subset
  <2>. QED
    BY <2>1, SumSame
<1>2. \A l \in S : Older(S, l) \in SUBSET S
  BY DEF Older
<1>. QED
  BY <1>1, <1>2 DEF Left, Fifo

\* gives the next lot what is left, and leaves so much less,
LEMMA FifoGrows ==
    ASSUME NEW r, \A l \in Lots : r[l] \in Nat, NEW S \in SUBSET Lots, NEW n \in Nat,
           NEW k \in Lots, \A l \in S : LotAge[l] < LotAge[k]
    PROVE  LET grown == S \cup {k}
           IN  /\ \A l \in S : Fifo(r, grown, n, l) = Fifo(r, S, n, l)
               /\ Fifo(r, grown, n, k) = Lesser(r[k], Left(r, S, n))
               /\ Left(r, grown, n) = Left(r, S, n) - Lesser(r[k], Left(r, S, n))
<1> DEFINE grown == S \cup {k}
<1>1. /\ k \notin S /\ Older(grown, k) = S
      /\ \A l \in S : Older(grown, l) = Older(S, l)
  BY LotAssumption DEF Older
<1>2. /\ IsFiniteSet(grown) /\ IsFiniteSet(S) /\ k \in grown /\ grown \ {k} = S
      /\ \A l \in grown : r[l] \in Int
      /\ \A l \in S : r[l] \in Int
  BY <1>1, LotAssumption, FS_Subset
<1> HIDE DEF grown
<1>3. SumOver(r, grown) = r[k] + SumOver(r, S)
  BY <1>2, SumTake
<1>4. SumOver(r, S) \in Int /\ r[k] \in Nat
  BY <1>2, SumType
<1>5. Left(r, grown, n) = Left(r, S, n) - Lesser(r[k], Left(r, S, n))
  BY <1>3, <1>4 DEF Left, Lesser
<1>. QED
  BY <1>1, <1>5 DEF Fifo, grown

\* and goes past the empty ones.
LEMMA FifoSkips ==
    ASSUME NEW r, \A l \in Lots : r[l] \in Nat, NEW S, NEW T \in SUBSET Lots, S \subseteq T,
           \A l \in T \ S : r[l] = 0, NEW n
    PROVE  /\ SumOver(r, T) = SumOver(r, S)
           /\ \A l \in T : Fifo(r, T, n, l) = Fifo(r, S, n, l)
<1>1. ASSUME NEW U, NEW V, U \subseteq V, V \subseteq T, V \ U \subseteq T \ S
      PROVE  SumOver(r, V) = SumOver(r, U)
  <2>1. /\ IsFiniteSet(V)
        /\ \A l \in V : r[l] \in Int
        /\ \A l \in V \ U : r[l] = 0
    BY <1>1, LotAssumption, FS_Subset
  <2>. QED
    BY <1>1, <2>1, SumPart
<1>2. ASSUME NEW l \in T
      PROVE  SumOver(r, Older(T, l)) = SumOver(r, Older(S, l))
  BY <1>1 DEF Older
<1>. QED
  BY <1>1, <1>2 DEF Fifo, Left

\* A step of a session leaves alone the locks of the others.
LEMMA OthersLots ==
    ASSUME TypeOK, NEW s \in Sessions,
           \/ BeginSale(s) \/ BeginOnPurchase(s) \/ BeginPanel(s) \/ Step(s)
           \/ DeadlockVictim(s) \/ Fail(s),
           NEW t \in Sessions, t # s, NEW l \in Lots
    PROVE  lotLock'[l] = t <=> lotLock[l] = t
<1> USE DEF TypeOK, committed, locks
<1>1. ASSUME Ended(s) PROVE lotLock'[l] = t <=> lotLock[l] = t
  BY <1>1, ValueAssumption DEF Ended, Unlocked
<1>2. CASE LockLot(s) \/ LockItem(s)
  BY <1>2, ValueAssumption DEF LockLot, LockItem, RowFree
<1>3. CASE \/ BeginSale(s) \/ BeginOnPurchase(s) \/ BeginPanel(s)
           \/ CheckStock(s) \/ SelectLots(s) \/ Allocated(s) \/ TakeStock(s)
           \/ LockPurchase(s) \/ ItemsLocked(s) \/ StartItems(s)
           \/ ConfirmItem(s) \/ CancelItem(s)
  BY <1>3 DEF BeginSale, BeginOnPurchase, BeginPanel, CheckStock, SelectLots, Allocated, TakeStock,
     LockPurchase, ItemsLocked, StartItems, ConfirmItem, CancelItem
<1>4. CASE \/ RefuseStock(s) \/ RefuseLots(s) \/ CommitSale(s) \/ PurchaseGone(s) \/ NothingToDo(s)
           \/ CommitUpdate(s) \/ CommitDelete(s) \/ CancelDraft(s) \/ CommitConfirm(s)
           \/ RefuseCancel(s) \/ CommitCancel(s) \/ PanelWrite(s) \/ DeadlockVictim(s) \/ Fail(s)
  BY <1>1, <1>4 DEF RefuseStock, RefuseLots, CommitSale, PurchaseGone, NothingToDo, CommitUpdate,
     CommitDelete, CancelDraft, CommitConfirm, RefuseCancel, CommitCancel, PanelWrite,
     DeadlockVictim, Fail, Rollback
<1>. QED
  BY <1>2, <1>3, <1>4 DEF Step, Sale, PurchaseStep

\* What a sale has taken stays the FIFO of its lots while others write.
LEMMA OthersFifo ==
    ASSUME NEW t \in Sessions, FifoSoFar(t),
           UNCHANGED <<pc[t], op[t], line[t], todo[t], need[t], took[t]>>,
           \A l \in Lots : lotLock'[l] = t <=> lotLock[l] = t,
           \A l \in Lots : lotLock[l] = t => remaining'[l] = remaining[l]
    PROVE  FifoSoFar(t)'
<1> SUFFICES ASSUME pc[t] \in SaleLabels, OnceEach(op[t].cart)
             PROVE  (OfItsCart(t) /\ LinesTaken(t) /\ LockedInOrder(t))'
  BY DEF FifoSoFar, OnceEach
<1>1. OfItsCart(t) /\ LinesTaken(t) /\ LockedInOrder(t)
  BY DEF FifoSoFar
<1>2. \A p : Held(t, p)' = Held(t, p)
  BY DEF Held
<1>3. \A p, n : /\ Left(remaining', Held(t, p), n) = Left(remaining, Held(t, p), n)
                /\ \A l \in Held(t, p) :
                      Fifo(remaining', Held(t, p), n, l) = Fifo(remaining, Held(t, p), n, l)
  <2> SUFFICES ASSUME NEW p, NEW n
               PROVE  /\ Left(remaining', Held(t, p), n) = Left(remaining, Held(t, p), n)
                      /\ \A l \in Held(t, p) :
                            Fifo(remaining', Held(t, p), n, l) = Fifo(remaining, Held(t, p), n, l)
    OBVIOUS
  <2>1. Held(t, p) \in SUBSET Lots /\ \A l \in Held(t, p) : remaining'[l] = remaining[l]
    BY DEF Held
  <2>. QED
    BY <2>1, FifoSame
<1>4. OfItsCart(t)'
  BY <1>1 DEF OfItsCart
<1>5. LinesTaken(t)'
  BY <1>1, <1>2, <1>3 DEF LinesTaken
<1>6. LockedInOrder(t)'
  <2>1. CartLine(t)' = CartLine(t)
    BY DEF CartLine
  <2>. QED
    BY <1>1, <1>2, <1>3, <2>1 DEF LockedInOrder
<1>. QED
  BY <1>4, <1>5, <1>6

\* The statements of a sale lock and take in that order.
LEMMA SaleFifo ==
    ASSUME IInv, NEW s \in Sessions, FifoSoFar(s), BeginSale(s) \/ Sale(s)
    PROVE  FifoSoFar(s)'
<1> USE DEF committed, locks
<1>1. TypeOK /\ OperationOK /\ SaleOf(s)
  BY DEF IInv, SaleOK
<1>2. CASE RefuseStock(s) \/ RefuseLots(s) \/ CommitSale(s)
  <2>1. pc'[s] = "idle"
    BY <1>1, <1>2 DEF RefuseStock, RefuseLots, CommitSale, Rollback, Ended, TypeOK
  <2>. QED
    BY <2>1 DEF FifoSoFar, SaleLabels
<1>3. CASE BeginSale(s)
  <2>1. lotLock' = lotLock /\ \A l \in Lots : lotLock'[l] # s
    BY <1>1, <1>3 DEF BeginSale, SaleOf
  <2>2. \A p : Held(s, p)' = {}
    BY <2>1 DEF Held
  <2>3. pc'[s] = "check"
    BY <1>1, <1>3 DEF BeginSale, TypeOK
  <2>. QED
    BY <2>1, <2>2, <2>3 DEF FifoSoFar, OfItsCart, LinesTaken, LockedInOrder
<1>4. CASE CheckStock(s) \/ SelectLots(s) \/ LockLot(s) \/ Allocated(s) \/ TakeStock(s)
  <2> DEFINE c == op[s].cart
             p == CartLine(s).product
  <2>1. op' = op /\ remaining' = remaining /\ pc[s] \in SaleLabels
    BY <1>1, <1>4 DEF CheckStock, SelectLots, LockLot, Allocated, TakeStock, SaleLabels
  <2> SUFFICES ASSUME OnceEach(c) PROVE (OfItsCart(s) /\ LinesTaken(s) /\ LockedInOrder(s))'
    BY <2>1 DEF FifoSoFar, OnceEach
  <2>2. OfItsCart(s) /\ LinesTaken(s) /\ LockedInOrder(s)
    BY <2>1 DEF FifoSoFar
  <2>3. /\ line[s] \in DOMAIN c.lines /\ CartLine(s) = c.lines[line[s]]
        /\ DOMAIN c.lines \subseteq Nat
        /\ CartLine(s).qty \in Nat
        /\ \A i \in DOMAIN c.lines : c.lines[i].product = p => i = line[s]
    BY <1>1, <2>1, CartAssumption, CartLineType DEF OperationOK, CartLine, OnceEach
  <2>4. CASE CheckStock(s)
    <3>1. pc[s] = "check" /\ pc'[s] = "select" /\ UNCHANGED <<lotLock, took, line>>
      BY <1>1, <2>4 DEF CheckStock, TypeOK
    <3>. QED
      BY <2>1, <2>2, <3>1 DEF OfItsCart, LinesTaken, LockedInOrder, Held
  <2>5. CASE SelectLots(s)
    <3>1. /\ pc[s] = "select" /\ pc'[s] = "lots" /\ UNCHANGED <<lotLock, took, line>>
          /\ need'[s] = CartLine(s).qty /\ todo'[s] = Available(p, c.date)
      BY <1>1, <2>5 DEF SelectLots, TypeOK
    <3>2. \A q : Held(s, q)' = Held(s, q)
      BY <3>1 DEF Held
    <3>3. CartLine(s)' = CartLine(s) /\ Held(s, p)' = {}
      BY <2>1, <2>2, <2>3, <3>1, <3>2 DEF LinesTaken, CartLine
    <3>5. OfItsCart(s)'
      BY <2>1, <2>2, <3>1 DEF OfItsCart
    <3>6. LinesTaken(s)'
      BY <2>1, <2>2, <3>1, <3>2 DEF LinesTaken
    <3>4. Left(remaining, {}, CartLine(s).qty) = CartLine(s).qty
      BY <2>3, SumEmpty DEF Left
    <3>. QED
      BY <2>1, <3>1, <3>3, <3>4, <3>5, <3>6 DEF LockedInOrder, Available
  <2>6. CASE LockLot(s)
    <3> PICK k \in Oldest(todo[s]) : LockLot(s)!2!(k)
      BY <2>6 DEF LockLot
    <3> DEFINE held == Held(s, p)
               take == Lesser(remaining[k], need[s])
    <3>1. /\ k \in todo[s] /\ k \in Lots /\ \A l \in todo[s] : LotAge[k] <= LotAge[l]
          /\ pc[s] = "lots" /\ pc'[s] = "lots" /\ UNCHANGED <<line>>
      BY <1>1, <2>6 DEF LockLot, Oldest, TypeOK
    <3>2. /\ need[s] = Left(remaining, held, CartLine(s).qty)
          /\ LotProduct[k] = p /\ PurchaseDate[LotPurchase[k]] <= c.date
          /\ \A l \in held : LotAge[l] < LotAge[k]
          /\ \A l \in todo[s] : /\ LotProduct[l] = p
                                /\ PurchaseDate[LotPurchase[l]] <= c.date
      BY <2>2, <3>1 DEF LockedInOrder
    <3>3. k \notin held /\ lotLock[k] # s /\ LotRead(s, k) = remaining[k] /\ took[s][k] = 0
      <4>1. k \notin held
        BY <3>1, <3>2, LotAssumption
      <4>2. lotLock[k] # s
        BY <3>1, <3>2, <4>1 DEF Held
      <4>3. took[s][k] \in Nat
        BY <1>1, <3>1 DEF TypeOK
      <4>. QED
        BY <1>1, <2>1, <3>1, <4>1, <4>2, <4>3 DEF SaleOf, LotRead
    <3>4. /\ lotLock' = [lotLock EXCEPT ![k] = s]
          /\ took'[s] = [took[s] EXCEPT ![k] = @ + take]
          /\ need'[s] = need[s] - take
          /\ todo'[s] = todo[s] \ {k}
      BY <1>1, <3>3 DEF TypeOK
    <3>5. /\ CartLine(s)' = CartLine(s)
          /\ Held(s, p)' = held \cup {k}
          /\ \A q : q # p => Held(s, q)' = Held(s, q)
      <4>1. CartLine(s)' = CartLine(s)
        BY <2>1, <3>1 DEF CartLine
      <4>2. \A l \in Lots : lotLock'[l] = s <=> l = k \/ lotLock[l] = s
        BY <1>1, <3>1, <3>4 DEF TypeOK
      <4>. QED
        BY <3>1, <3>2, <4>1, <4>2 DEF Held
    <3>6. /\ \A l \in held : Fifo(remaining, held \cup {k}, CartLine(s).qty, l)
                               = Fifo(remaining, held, CartLine(s).qty, l)
          /\ Fifo(remaining, held \cup {k}, CartLine(s).qty, k) = take
          /\ Left(remaining, held \cup {k}, CartLine(s).qty) = need[s] - take
      <4>1. held \in SUBSET Lots /\ \A l \in Lots : remaining[l] \in Nat
        BY <1>1 DEF Held, TypeOK
      <4>2. held \in SUBSET Lots /\ CartLine(s).qty \in Nat /\ k \in Lots
            /\ \A l \in held : LotAge[l] < LotAge[k]
        BY <2>3, <3>1, <3>2, <4>1
      <4> HIDE DEF held
      <4>3. /\ \A l \in held : Fifo(remaining, held \cup {k}, CartLine(s).qty, l)
                               = Fifo(remaining, held, CartLine(s).qty, l)
            /\ Fifo(remaining, held \cup {k}, CartLine(s).qty, k)
                  = Lesser(remaining[k], Left(remaining, held, CartLine(s).qty))
            /\ Left(remaining, held \cup {k}, CartLine(s).qty)
                  = Left(remaining, held, CartLine(s).qty)
                    - Lesser(remaining[k], Left(remaining, held, CartLine(s).qty))
        BY <4>1, <4>2, FifoGrows
      <4>. QED
        BY <3>2, <4>3
    <3>7. /\ \A l \in held \cup {k} :
                took'[s][l] = Fifo(remaining, held \cup {k}, CartLine(s).qty, l)
          /\ \A l \in Lots \ {k} : took'[s][l] = took[s][l]
      <4>1. \A l \in held : took[s][l] = Fifo(remaining, held, CartLine(s).qty, l)
        BY <2>2, <2>3 DEF LinesTaken
      <4>2. take \in Nat /\ took'[s][k] = take
        BY <1>1, <3>1, <3>3, <3>4 DEF TypeOK, Lesser
      <4>3. \A l \in Lots \ {k} : took'[s][l] = took[s][l]
        BY <1>1, <3>4 DEF TypeOK
      <4>4. held \subseteq Lots \ {k}
        BY <3>3 DEF Held
      <4>. QED
        BY <3>6, <4>1, <4>2, <4>3, <4>4
    <3>8. OfItsCart(s)'
      <4>1. \A l \in Lots : lotLock'[l] = s => l = k \/ lotLock[l] = s
        BY <1>1, <3>1, <3>4 DEF TypeOK
      <4>2. \E i \in DOMAIN c.lines : LotProduct[k] = c.lines[i].product
        BY <2>3, <3>2
      <4>. QED
        BY <2>1, <2>2, <3>2, <4>1, <4>2 DEF OfItsCart
    <3>9. LinesTaken(s)'
      <4> SUFFICES ASSUME NEW i \in DOMAIN c.lines
                   PROVE  /\ \A l \in Held(s, c.lines[i].product)' :
                                took'[s][l] = Fifo(remaining, Held(s, c.lines[i].product)',
                                                   c.lines[i].qty, l)
                          /\ i > line[s] => Held(s, c.lines[i].product)' = {}
        BY <2>1, <3>1 DEF LinesTaken
      <4>1. CASE i = line[s]
        <5>1. c'.lines[i] = c.lines[i] /\ c.lines[i] = CartLine(s)
          BY <2>1, <2>3, <4>1
        <5>2. Held(s, c.lines[i].product)' = held \cup {k}
          BY <3>5, <5>1
        <5>3. \A l \in held \cup {k} :
                 took'[s][l] = Fifo(remaining, held \cup {k}, c.lines[i].qty, l)
          BY <3>7, <5>1
        <5>4. ~(i > line[s])
          BY <2>3, <4>1
        <5>. QED
          BY <5>2, <5>3, <5>4
      <4>2. CASE i # line[s]
        <5>1. c.lines[i].product # p
          BY <2>3, <4>2
        <5>2. Held(s, c.lines[i].product)' = Held(s, c.lines[i].product)
          BY <2>1, <3>5, <5>1
        <5>3. \A l \in Held(s, c.lines[i].product) : took'[s][l] = took[s][l]
          BY <3>2, <3>7, <5>1 DEF Held
        <5>. QED
          BY <2>1, <2>2, <3>1, <4>2, <5>2, <5>3 DEF LinesTaken
      <4>. QED
        BY <4>1, <4>2
    <3>10. LockedInOrder(s)'
      <4>1. CartLine(s)' = CartLine(s)
        BY <2>1, <3>1 DEF CartLine
      <4>2. \A l \in todo[s] \ {k} : LotAge[k] < LotAge[l]
        <5>1. \A l \in todo[s] : l \in Lots
          BY <1>1 DEF TypeOK
        <5>. QED
          BY <3>1, <5>1, LotAssumption
      <4>3. \A l \in held : \A m \in todo[s] : LotAge[l] < LotAge[m]
        BY <2>2, <3>1 DEF LockedInOrder
      <4>. QED
        BY <2>1, <3>1, <3>2, <3>4, <3>5, <3>6, <4>1, <4>2, <4>3 DEF LockedInOrder
    <3>. QED
      BY <3>8, <3>9, <3>10
  <2>7. CASE Allocated(s)
    <3>1. pc[s] = "lots" /\ pc'[s] = "stock" /\ UNCHANGED <<lotLock, took, line>>
      BY <1>1, <2>7 DEF Allocated, TypeOK
    <3>. QED
      BY <2>1, <2>2, <3>1 DEF OfItsCart, LinesTaken, LockedInOrder, Held
  <2>8. CASE TakeStock(s)
    <3>1. /\ pc[s] = "stock" /\ pc'[s] \in {"check", "commit"} /\ UNCHANGED <<lotLock, took>>
          /\ IF pc'[s] = "check" THEN line'[s] = line[s] + 1 ELSE line'[s] = line[s]
      BY <1>1, <2>8 DEF TakeStock, TypeOK
    <3>2. \A i \in DOMAIN c.lines : i \in Nat /\ line[s] \in Nat
      BY <2>3
    <3>3. OfItsCart(s)' /\ LockedInOrder(s)'
      BY <2>1, <2>2, <3>1 DEF OfItsCart, LockedInOrder
    <3>4. LinesTaken(s)'
      <4>1. \A q : Held(s, q)' = Held(s, q)
        BY <3>1 DEF Held
      <4>2. \A i \in DOMAIN c.lines : i > line'[s] \/ (i = line'[s] /\ pc'[s] = "check")
               => i > line[s]
        BY <3>1, <3>2
      <4>. QED
        BY <2>1, <2>2, <3>1, <4>1, <4>2 DEF LinesTaken
    <3>. QED
      BY <3>3, <3>4
  <2>. QED
    BY <1>4, <2>4, <2>5, <2>6, <2>7, <2>8
<1>. QED
  BY <1>2, <1>3, <1>4 DEF Sale

\* Every step keeps the invariant.
LEMMA FifoStep == FifoInv /\ [Next]_vars => FifoInv'
<1> SUFFICES ASSUME FifoInv, [Next]_vars PROVE FifoInv'
  OBVIOUS
<1>1. IInv /\ IInv' /\ TypeOK /\ \A t \in Sessions : FifoSoFar(t)
  BY InvStep DEF FifoInv, IInv
<1>2. ASSUME UNCHANGED session, UNCHANGED locks, remaining' = remaining, NEW t \in Sessions
      PROVE  FifoSoFar(t)'
  <2>1. /\ UNCHANGED <<pc[t], op[t], line[t], todo[t], need[t], took[t]>>
        /\ \A l \in Lots : lotLock'[l] = t <=> lotLock[l] = t
    BY <1>2 DEF session, locks
  <2>. QED
    BY <1>1, <1>2, <2>1, OthersFifo
<1>3. CASE UNCHANGED vars \/ CreatePurchase
  <2>1. UNCHANGED session /\ UNCHANGED locks /\ remaining' = remaining
    BY <1>3 DEF vars, committed, CreatePurchase
  <2>. QED
    BY <1>1, <1>2, <2>1 DEF FifoInv
<1>4. ASSUME NEW s \in Sessions,
             \/ BeginSale(s) \/ BeginOnPurchase(s) \/ BeginPanel(s) \/ Step(s)
             \/ DeadlockVictim(s) \/ Fail(s)
      PROVE  \A t \in Sessions : FifoSoFar(t)'
  <2>1. ASSUME NEW t \in Sessions, t # s
        PROVE  FifoSoFar(t)'
    <3>1. OthersSame(s) /\ UnderLocks(s)
      BY <1>1, <1>4, OneSession, WritesUnderLocks
    <3>2. \A l \in Lots : lotLock'[l] = t <=> lotLock[l] = t
      BY <1>1, <1>4, <2>1, OthersLots
    <3>3. \A l \in Lots : lotLock[l] = t => remaining'[l] = remaining[l]
      BY <2>1, <3>1 DEF UnderLocks
    <3>. QED
      BY <1>1, <2>1, <3>1, <3>2, <3>3, OthersFifo DEF OthersSame
  <2>2. CASE BeginSale(s) \/ Sale(s)
    BY <1>1, <1>4, <2>1, <2>2, SaleFifo
  <2>3. CASE ~(BeginSale(s) \/ Sale(s))
    <3>1. pc'[s] \notin SaleLabels
      <4>1. ASSUME Ended(s) PROVE pc'[s] = "idle"
        BY <1>1, <4>1 DEF Ended, TypeOK
      <4>2. CASE BeginOnPurchase(s) \/ BeginPanel(s)
        BY <1>1, <4>2 DEF BeginOnPurchase, BeginPanel, TypeOK, SaleLabels
      <4>3. CASE DeadlockVictim(s) \/ Fail(s) \/ PanelWrite(s)
        BY <4>1, <4>3 DEF DeadlockVictim, Fail, PanelWrite, Rollback, SaleLabels
      <4>4. CASE PurchaseStep(s)
        <5>1. CASE LockPurchase(s) \/ LockItem(s) \/ ItemsLocked(s) \/ StartItems(s)
          BY <1>1, <5>1 DEF LockPurchase, LockItem, ItemsLocked, StartItems, TypeOK, SaleLabels
        <5>2. CASE ConfirmItem(s) \/ CancelItem(s)
          BY <1>1, <5>2 DEF ConfirmItem, CancelItem, Applying, SaleLabels
        <5>3. CASE \/ PurchaseGone(s) \/ NothingToDo(s) \/ CommitUpdate(s) \/ CommitDelete(s)
                   \/ CancelDraft(s) \/ CommitConfirm(s) \/ RefuseCancel(s) \/ CommitCancel(s)
          BY <4>1, <5>3 DEF PurchaseGone, NothingToDo, CommitUpdate, CommitDelete, CancelDraft,
             CommitConfirm, RefuseCancel, CommitCancel, Rollback, SaleLabels
        <5>. QED
          BY <4>4, <5>1, <5>2, <5>3 DEF PurchaseStep
      <4>. QED
        BY <1>4, <2>3, <4>2, <4>3, <4>4 DEF Step
    <3>2. FifoSoFar(s)'
      BY <3>1 DEF FifoSoFar
    <3>. QED
      BY <2>1, <3>2
  <2>. QED
    BY <2>2, <2>3
<1>. QED
  BY <1>1, <1>3, <1>4 DEF Next, FifoInv

LEMMA FifoHolds == Spec => []FifoInv
<1>1. Init => FifoInv
  <2> SUFFICES ASSUME Init PROVE FifoInv
    OBVIOUS
  <2>1. \A s \in Sessions : FifoSoFar(s)
    BY DEF Init, FifoSoFar, SaleLabels
  <2>. QED
    BY <2>1, InvStart DEF FifoInv
<1>. QED
  BY <1>1, FifoStep, PTL DEF Spec

\* The lots that a preview finds are, of those that the sale has locked, the
\* ones with something left, if it has locked all it finds.
LEMMA CandidatesAre ==
    ASSUME FifoInv, NEW s \in Sessions, pc[s] \in SaleLabels, OnceEach(op[s].cart),
           NEW i \in DOMAIN op[s].cart.lines, Seen(s, i)
    PROVE  LET held == Held(s, op[s].cart.lines[i].product)
               candidates == Candidates(op[s].cart, i)
           IN  /\ candidates \subseteq held
               /\ \A l \in held \ candidates : remaining[l] = 0
<1> DEFINE held == Held(s, op[s].cart.lines[i].product)
           candidates == Candidates(op[s].cart, i)
<1>1. candidates \subseteq held
  BY DEF Seen, Candidates, Available, Held
<1>2. ASSUME NEW l \in held \ candidates
      PROVE  remaining[l] = 0
  <2>1. /\ l \in Lots /\ lotLock[l] = s /\ LotProduct[l] = op[s].cart.lines[i].product
        /\ remaining[l] \in Nat
    BY DEF Held, FifoInv, IInv, TypeOK
  <2>2. PurchaseDate[LotPurchase[l]] <= op[s].cart.date
    BY <2>1 DEF FifoInv, FifoSoFar, OfItsCart
  <2>3. status[LotPurchase[l]] # "confirmed" => remaining[l] = 0
    BY <2>1 DEF FifoInv, IInv, LotConservation
  <2>. QED
    BY <1>2, <2>1, <2>2, <2>3 DEF Candidates, Available
<1>. QED
  BY <1>1, <1>2

\* A preview of a line shows what the sale has taken of the lots it holds.
LEMMA ShownIsTaken ==
    ASSUME FifoInv, NEW s \in Sessions, pc[s] \in SaleLabels, OnceEach(op[s].cart),
           NEW i \in DOMAIN op[s].cart.lines, Seen(s, i), NEW l \in Lots
    PROVE  ShownLine(op[s].cart, i)[l]
             = IF l \in Held(s, op[s].cart.lines[i].product) THEN took[s][l] ELSE 0
<1> DEFINE n == op[s].cart.lines[i].qty
           held == Held(s, op[s].cart.lines[i].product)
           candidates == Candidates(op[s].cart, i)
<1>1. ShownLine(op[s].cart, i)[l]
        = IF l \in candidates THEN Fifo(remaining, candidates, n, l) ELSE 0
  BY AllocationIs DEF ShownLine
<1>2. candidates \subseteq held /\ \A k \in held \ candidates : remaining[k] = 0
  BY CandidatesAre
<1>3. ASSUME l \in held
      PROVE  took[s][l] = Fifo(remaining, held, n, l)
  BY <1>3 DEF FifoInv, FifoSoFar, LinesTaken
<1>4. /\ \A k \in Lots : remaining[k] \in Nat
      /\ op[s].cart \in Carts /\ n \in Nat
  BY CartAssumption DEF FifoInv, IInv, TypeOK, OperationOK
<1>5. ASSUME l \in held
      PROVE  Fifo(remaining, held, n, l) = Fifo(remaining, candidates, n, l)
  <2>1. held \in SUBSET Lots
    BY DEF Held
  <2> HIDE DEF held, candidates, n
  <2>. QED
    BY <1>2, <1>4, <1>5, <2>1, FifoSkips
<1>6. ASSUME l \in held \ candidates
      PROVE  Fifo(remaining, candidates, n, l) = 0
  <2>1. remaining[l] = 0
    BY <1>2, <1>6
  <2>2. Older(candidates, l) \in SUBSET Lots
    BY DEF Older, Candidates, Available
  <2>3. IsFiniteSet(Older(candidates, l)) /\ \A k \in Older(candidates, l) : remaining[k] \in Int
    BY <1>4, <2>2, LotAssumption, FS_Subset
  <2>4. SumOver(remaining, Older(candidates, l)) \in Int
    BY <2>3, SumType
  <2> HIDE DEF n
  <2>. QED
    BY <1>4, <2>1, <2>4 DEF Fifo, Left, Lesser
<1>. QED
  BY <1>1, <1>2, <1>3, <1>5, <1>6

\* The units of a lot that a preview shows are a sum over the lines.
LEMMA ShownSum ==
    ASSUME NEW c, IsFiniteSet(DOMAIN c.lines), NEW l \in Lots, NEW f,
           \A i \in DOMAIN c.lines : f[i] = ShownLine(c, i)[l]
    PROVE  Shown(c)[l] = SumOver(f, DOMAIN c.lines)
<1> DEFINE S == DOMAIN c.lines
           Table(g) == g = [u \in SUBSET S |-> IF u = {} THEN 0
                              ELSE ShownLine(c, Pick(u))[l] + g[u \ {Pick(u)}]]
<1>1. \A g : Table(g) <=> SumTable(g, f, S)
  <2>1. \A u \in SUBSET S : u # {} => f[Pick(u)] = ShownLine(c, Pick(u))[l]
    BY PickIn
  <2> TAKE g
  <2>2. [u \in SUBSET S |-> IF u = {} THEN 0 ELSE ShownLine(c, Pick(u))[l] + g[u \ {Pick(u)}]]
          = [u \in SUBSET S |-> IF u = {} THEN 0 ELSE f[Pick(u)] + g[u \ {Pick(u)}]]
    BY <2>1
  <2>. QED
    BY <2>2 DEF SumTable
<1>2. \E g : Table(g)
  BY <1>1, Exist
<1>3. PICK g : g = CHOOSE h : Table(h)
  OBVIOUS
<1>4. SumTable(g, f, S)
  BY <1>1, <1>2, <1>3
<1>5. Shown(c)[l] = g[S]
  BY <1>3 DEF Shown, MapThenSumSet, MapThenFoldSet, Pick
<1>6. SumOver(f, S) = g[S]
  BY ONLY <1>4, IsFiniteSet(S), SumOf
<1>. QED
  BY <1>5, <1>6

\* The allocation of a sale, read lot by lot while others write, is the
\* preview of the instant it commits, and a refusal is its warning.
THEOREM PreviewTells == Spec => PreviewTellsTheSale
<1> DEFINE Told ==
             \A s \in Sessions :
                /\ CommitSale(s) /\ OnceEach(op[s].cart)
                   /\ (\A i \in DOMAIN op[s].cart.lines : Seen(s, i)) =>
                         took[s] = Shown(op[s].cart)
                /\ RefuseLots(s) /\ OnceEach(op[s].cart) /\ Seen(s, line[s]) =>
                      Blocked(op[s].cart, line[s])
<1>1. ASSUME FifoInv, NEW s \in Sessions, CommitSale(s), OnceEach(op[s].cart),
             \A i \in DOMAIN op[s].cart.lines : Seen(s, i)
      PROVE  took[s] = Shown(op[s].cart)
  <2> DEFINE lines == DOMAIN op[s].cart.lines
             held(i) == Held(s, op[s].cart.lines[i].product)
  <2>1. /\ pc[s] \in SaleLabels /\ IsFiniteSet(lines)
        /\ took[s] \in [Lots -> Nat]
    BY <1>1, CartAssumption DEF CommitSale, SaleLabels, FifoInv, IInv, OperationOK, TypeOK
  <2>2. ASSUME NEW l \in Lots
        PROVE  took[s][l] = Shown(op[s].cart)[l]
    <3> DEFINE shown == [i \in lines |-> ShownLine(op[s].cart, i)[l]]
    <3>1. \A i \in lines : shown[i] = IF l \in held(i) THEN took[s][l] ELSE 0
      BY <1>1, <2>1, ShownIsTaken
    <3>2. Shown(op[s].cart)[l] = SumOver(shown, lines)
      BY <2>1, ShownSum
    <3>3. took[s][l] \in Nat
      BY <2>1
    <3>4. CASE \A i \in lines : l \notin held(i)
      <4>1. took[s][l] = 0
        BY <1>1, <2>1, <3>3, <3>4 DEF Held, FifoInv, FifoSoFar, OfItsCart, IInv, SaleOK, SaleOf
      <4>2. \A i \in lines : shown[i] = 0
        BY <3>1, <3>4
      <4> HIDE DEF shown, lines
      <4>. QED
        BY <2>1, <3>2, <4>1, <4>2, SumZero
    <3>5. ASSUME NEW i \in lines, l \in held(i)
          PROVE  took[s][l] = Shown(op[s].cart)[l]
      <4>1. \A j \in lines \ {i} : l \notin held(j)
        BY <1>1, <3>5 DEF Held, OnceEach
      <4>2. \A j \in lines \ {i} : shown[j] = 0
        BY <3>1, <4>1
      <4>3. shown[i] = took[s][l] /\ \A j \in lines : shown[j] \in Int
        BY <3>1, <3>3, <3>5
      <4>4. IsFiniteSet(lines \ {i})
        BY <2>1, FS_Subset
      <4> HIDE DEF shown, lines
      <4>5. SumOver(shown, lines) = shown[i] + SumOver(shown, lines \ {i})
        BY <2>1, <3>5, <4>3, SumTake
      <4>6. SumOver(shown, lines \ {i}) = 0
        BY <4>2, <4>4, SumZero
      <4>. QED
        BY <3>2, <3>3, <4>3, <4>5, <4>6
    <3>. QED
      BY <3>4, <3>5
  <2>. QED
    BY <2>1, <2>2 DEF Shown
<1>2. ASSUME FifoInv, NEW s \in Sessions, RefuseLots(s), OnceEach(op[s].cart), Seen(s, line[s])
      PROVE  Blocked(op[s].cart, line[s])
  <2> DEFINE held == Held(s, CartLine(s).product)
             candidates == Candidates(op[s].cart, line[s])
  <2>1. /\ pc[s] = "lots" /\ pc[s] \in SaleLabels /\ need[s] > 0
        /\ line[s] \in DOMAIN op[s].cart.lines
        /\ CartLine(s) = op[s].cart.lines[line[s]]
        /\ CartLine(s).qty \in Nat
        /\ need[s] = Left(remaining, held, CartLine(s).qty)
    BY <1>2, CartLineType DEF RefuseLots, SaleLabels, FifoInv, FifoSoFar, LockedInOrder, IInv,
       OperationOK, CartLine
  <2>2. candidates \subseteq held /\ \A l \in held \ candidates : remaining[l] = 0
    BY <1>2, <2>1, CandidatesAre
  <2>3. held \in SUBSET Lots /\ \A l \in Lots : remaining[l] \in Nat
    BY <1>2 DEF Held, FifoInv, IInv, TypeOK
  <2>4. UnitsOf(candidates) = SumOver(remaining, candidates)
    BY DEF UnitsOf, SumOver
  <2>5. SumOver(remaining, held) = SumOver(remaining, candidates)
    <3> HIDE DEF held, candidates
    <3>. QED
      BY <2>2, <2>3, FifoSkips
  <2>6. SumOver(remaining, held) < CartLine(s).qty
    BY <2>1 DEF Left
  <2>. QED
    BY <2>1, <2>4, <2>5, <2>6 DEF Blocked
<1>3. FifoInv /\ [Next]_vars => [Told]_vars
  BY <1>1, <1>2
<1>. QED
  BY <1>3, FifoHolds, PTL DEF Spec, PreviewTellsTheSale
=============================================================================
