# Verification of the sales assistant

TLA+ models of the back end of a small-business sales assistant (FastAPI,
SQLAlchemy, PostgreSQL, LangGraph, Google Calendar), checked with TLC and, where
it pays, proved with TLAPS. Paths are relative to the root of the repository.

## The system

One process (`entrypoint.sh` starts one hypercorn worker) serves the panel and a
conversational agent. A request opens one SQLAlchemy session (`get_db`), which
is one PostgreSQL transaction under READ COMMITTED until its service commits.
The agent's write tools open their own session (`agent_session`) in threads of
the executor. One more thread mirrors the follow-ups to Google Calendar. All
business state is in PostgreSQL; row level security separates the businesses.

| Component | State | Operations | Hard because |
|---|---|---|---|
| Sales over FIFO lots (`services/sales/orchestrator.py`, `fifo.py`, repositories) | `products.stock`, `purchase_items.remaining_quantity`, `sale_item_lot_allocations` | create a sale: unlocked stock check, lots locked oldest first, allocation, relative stock update, commit | a check before the locks, two representations of the stock, row locks taken in different orders |
| Purchases (`services/purchase_service.py`) | `purchases.status`, items, SALIDA in the cash book | create, update, confirm, cancel, delete | double confirmation, cancellation against a sale, stock and cash in one commit |
| Product panel (`services/product_service.py`) | `products.stock` | absolute write of the stock, create, delete | stale read, cascade to lots |
| Payment of a sale (`orchestrator.py`, `cash_service.py`) | `is_payment_pending`, `payment_date`, ENTRADAs | create, PATCH, PUT, `registrar_cobro`, manual ENTRADA | the sale is read without a lock and written at the commit |
| Readers of the cash book (`cash_service.py`, `cash_movement_repository.py`, `consultar_caja`) | none | running balance, ledger, pages with a window | three ways to compute one balance |
| Lists and reports of sales (`sale_repository.py`, `reporting.py`, dashboard) | none | page, count, sum, profit, what is owed | several queries that must agree |
| Lists of follow-ups (`get_follow_ups`, metrics, calendar page) | none | list, tiles, events | two statements with commits in between; limits drawn twice |
| Cycles and follow-ups (`follow_up_service.py`, `_update_cycle`) | `customer_product_cycles`, `follow_ups` | a sale updates the cycle and closes or opens; a person postpones or dismisses | late sales, edited sales, a partial unique index as the last guard |
| Calendar mirror (`calendar_sync.py`) | an event, a thread, `sync_status`, the events at Google | pass, retry, restart | wake-ups, rows that change during a call, partial failure |
| Write tools of the agent (`agent/tools/write.py`, `idempotency.py`) | `agent.tool_writes`, checkpoint | four tools: mark, card, recheck, claim, write | the body runs again from its first line; two transactions of a purchase; threads that outlive their request |
| Runs of a conversation (`api/v1/endpoints/agent.py`, `agent/streaming.py`) | `_hilos_en_curso`, checkpoint, `agent_threads` | message, decision, end, error, disconnection, rename, delete | awaits between check and run, reservation and release, messages after a cut |
| Huella (`agent/signing.py`) | none | sign, verify | what was approved against what is written |
| Users (`user_service.py`, Firebase) | rows and accounts | sign-up, seller, role, activity | two stores without a transaction, compensation |
| Tenancy (`core/database.py`, row level security) | a setting of each pooled connection | bind at the begin of a transaction | connections shared by requests |
| Prices, projection (`pricing.py`, `projection.py`) | none | margins, weighted average of intervals | rounding, boundaries |
| Prompt, history, customers, schemas, scripts | rows or none | reads, CRUD, validation | little |

What makes each correct: no unit sold twice or lost, stock and lots together,
cash that matches purchases and payments; a customer with a projection is
followed once and forgotten by no list; the calendar ends up showing the open
follow-ups; a tool call writes once, what was approved, and reports the truth;
a conversation stays usable; a user is the same in both stores; every list,
report and balance tells the same story about the same rows.
`PROJECT.json` lists every component with its status, and the hazards at their
lines.

## Modules

| Module | Models | Uses |
|---|---|---|
| `Inventory` | sales, purchases and the stock panel, statement by statement, with row locks | |
| `LotLedger` | abstract: each operation at once or not at all | |
| `SalePreview` | `preview_sale`, and what it has to do with the sale | `Inventory` |
| `InventoryChecks` | properties that add up lots; `Inventory` implements `LotLedger` | `SalePreview`, `LotLedger` |
| `InventoryProofs` | theorems of `Inventory`, `SalePreview` and `InventoryChecks` | `InventoryChecks`, `Sums` |
| `SalePayment` | paid and pending sales and their ENTRADAs | |
| `PaymentHistory` | `SalePayment` with the history of the sales at which requests crossed and of the ENTRADAs that came with a sale | `SalePayment` |
| `CashBook` | the readers of the cash book over the ENTRADAs of a sale and the other movements | `PaymentHistory`, `Ordering` |
| `SaleLists` | list, count, sum and reports of the sales | `CashBook` |
| `CashBookProofs` | theorems of `SalePayment`, `PaymentHistory`, `CashBook` and `SaleLists` | `SaleLists`, `Sums` |
| `FollowUps` | cycles and follow-ups, from sales and by hand | |
| `FollowUpLists` | sessions that answer the list of follow-ups in two statements; tiles, filters, calendar page | `FollowUps` |
| `Projection` | the next purchase of a pair, from the dates of its sales | `Rounding`, `Ordering` |
| `Pricing` | standard and habitual margins, typed prices, discounts, refusals | `Rounding` |
| `PricingProofs` | theorems of `Pricing` and `Projection` | `Pricing`, `Projection`, `Sums` |
| `Rounding` | ROUND_HALF_UP | |
| `Ordering` | the elements of a finite set in order | |
| `Sums` | lemmas about sums over finite sets and orders of them | `Ordering` |
| `CalendarMirror` | the mirror thread composed with the sessions of `FollowUps` | `FollowUps` |
| `FollowUpsProofs` | theorems of `FollowUps`, `FollowUpLists` and `CalendarMirror` | `CalendarMirror`, `FollowUpLists`, `Sums` |
| `AgentWrites` | write tools, idempotency, runs of one conversation | |
| `AgentWritesProofs` | its theorems | `AgentWrites` |
| `Conversation` | the requests of one conversation, its checkpoint and the registry of runs | |
| `ConversationProofs` | its theorems | `Conversation` |
| `Accounts` | users in PostgreSQL and Firebase, and the business each connection is bound to | |
| `AccountsProofs` | its theorems | `Accounts` |
| `MC*` | constants for TLC | |

### Inventory

A session is a request. `op`, `pc`, `line`, `todo`, `need` are where its
operation is; `mem`, `took` and `delta` are what it has written and not
committed; `purLock`, `lotLock`, `prodLock` are the row locks, held until
`Ended`. A sale is `BeginSale`, then per line `CheckStock` (the unlocked read of
`orchestrator.py:584-597`), `SelectLots` (the ordered candidates), one `LockLot`
per row of the `SELECT ... FOR UPDATE` (each row is read again once locked, as
READ COMMITTED does), `TakeStock` (`add_to_stock`, a relative UPDATE that locks
the product), and `CommitSale`. A purchase operation locks the purchase and then
its items (`get_by_id_for_update`), decides, applies item by item and commits.
`Fail` and `DeadlockVictim` roll back at any point. `PanelWrite` is the absolute
stock of the panel. Several requests that only read are absent: a reader sees
the committed tables, which are the variables of `LotLedger`.

`SalePreview` is the read that matters: `preview_sale` allocates with
`allocate_fifo` over unlocked lots. `AllocateFifo` is that loop in closed form
(a lot gives what the older ones leave to take), so `PreviewTellsTheSale`
compares two independent descriptions: lots locked and read one at a time among
other requests, and one pass over the tables of the instant of the commit. It
is why a sale is the FIFO of some instant, and not of none.

### SalePayment and PaymentHistory

`LoadToPay`, `LoadToCollect` and `LoadToUnpay` are the reads of the sale,
`CommitPay` and `CommitUnpay` the flush and commit, `SelectEntradas` the
separate query of the rows to delete. Between the flush of the sale and the
commit nothing is read, so they are one step: two UPDATEs of the same sale
serialise there. A sale may be created paid: its `payment_date` is `fechaPago` and
its ENTRADA is of `occurredAt`, which a request may give apart from each other
(`SaleCreate` of `schemas/sale.py` fills in the date of the sale for what is absent
and compares nothing), so `CreateSale` chooses each. A later payment has one date
for both.

`PaymentHistory` adds two variables that never constrain a step: `crossed`, the
sales at which two requests met or that got an ENTRADA by hand, and `ofCreation`,
the ENTRADAs of the book that came with their sale. The second is what the
correctness of the dates needs: a paid sale has an ENTRADA of its payment date
or one of `ofCreation` (`PaidSaleHasItsEntrada`), and the cash of a day counts it
on the day of that ENTRADA (`CollectedOn`, in `CashBook`).

### CashBook and SaleLists

Functions of the tables that `PaymentHistory` writes, read between its steps.
`RunningBalance` is one sum, `Ledger` adds row by row from zero, `Window` is the
window function of `get_recent_with_balance` (an instant is its day, and what
happens on one day is ordered by id), and `Consulta` is `consultar_caja`
(`limite` 0 gives every row). `Filtered` is `_apply_filters`, which the page, the
count and the sum share. `consultar_caja` and the list of sales run two or three
statements; each is evaluated here on the same tables, so what a commit between
them does to one answer is left out. The lines, dates and customers of a sale
are constants: a PUT may change its date and customer, but a reader is a function
of them, and the theorems hold for any.

### FollowUps and CalendarMirror

A sale takes the product rows it updated (`heldProducts`), which is what makes
two sales of one pair take turns; then it computes the cycle from the sales it
sees, reads the open follow-up without a lock, and closes or opens at the
commit. `asPending` holds the rows a session read as pending: SQLAlchemy leaves
an unchanged column out of the UPDATE. Postponing and dismissing lock the row
(`LockRow`). `Notify` is `request_calendar_sync`, after the commit;
`RefreshFails` is the read in between raising. The projection is abstracted to
its existence (two distinct dates) and its last date, which is what `Projection`
says of it for every set of dates tried.

In `FollowUpLists` a session takes the cycles in `BeginList` and the open rows in
`AnswerList`. The rows of `FollowUps` have no due date: a property of a list is
asked for every number of days the open rows may have, on both sides of each
limit. `ByUrgency` is the sort of the list, which leaves ties in whatever order the
statement gave them. Who answers first matters: reading the follow-ups before the cycles would
hide a customer whose first projection commits in between.

`CalendarMirror` adds the thread: `Clear`, `List`, `Take`, the call (`CallOk`,
`CallFails`), the guarded UPDATE (`Write`), the end of the pass, and `Wake`,
which needs the event or, after a failure, the timer. `Crash` restarts the
process: sessions and thread begin again, the first pass needs no signal.

### AgentWrites

The tasks are the tool calls of one message. A run gives an idle worker (a
thread of the executor) to every task without a result, from the first line of
its body: `Find` (`_ya_escrito`), `Pause` (`interrupt()`, and the card in the
checkpoint if the run still listens), `Recheck` (the approved figures against a
fresh preview), `Draft` (only a purchase), `Claim` (the INSERT that waits for
the other inserter and then does nothing), `Write` (the service and the commit,
with the mark), `Report`. `Refused` is any exception of the services, with the
rollback and, for a purchase, the clean-up (`Clean`, `CleanFails`). `Disconnect`
cancels the request and frees the conversation; its workers go on unheard.
Figures are values; other requests change them with `OthersWrite`. The refusals
of a huella (absent, forged, of another operation) write nothing and report, as
`recalculated` does. `overlapped` is a history variable: the tasks that ever had
two workers at once, which `StartRun` alone can bring about. `record_entity` is
left out: it is best effort and nothing depends on it.

### Conversation

The requests of `/agent/stream` go through their awaits: `Receive` (the row, and
the title it had), `Reserve` (check and add without an await between them),
`Check` (the checkpoint), `Name` (the title of a first message), `Start`. The
graph asks for tools, whose tasks each leave a result or a card, and ends a step
when none is left; `ToolPauses` and `ToolReturns` are what the write tools of
`AgentWrites` do seen from here. `Released` is the callback of the task that
serves the request, which runs whatever it ends in, also when the response never
starts. `Cut`, `Leave` and `Restart` are the ways a run stops half way: calls whose
message is saved and whose step left no card are `orphans`, and the next message
finds them (`ValidHistory`). `cutShort` is a history variable.

### Accounts

A creation is a sequence of calls, each of which may fail, or fail after taking
effect: `CheckEmail`, `CreateAccount`, `SetFirstClaims`, `MakeLink`, `InsertUser`,
`CommitUser`, and `Undo` if one raises. An update reads the row (`BeginUpdate`),
sets the claims and then writes the columns that SQLAlchemy holds dirty. A
transaction takes a connection of the pool and sets its business when it begins
(`AfterBegin`, `Reset`); `Sees` is the policy of the migration. `answered`,
`doubtful` and `crossed` are history variables.

### Pricing and Projection

Amounts are integers in hundredths; an estimated interval is an amount of parts
of a day. Every rounding of the code is a `HalfUp`. They are operators without state:
the ASSUMEs of `MCInventory` and `MCFollowUps` compare them with what they must
say over small inputs each time TLC starts, and `PricingProofs` holds for any.

## Runs

| Run | Shows | Bounds |
|---|---|---|
| `inventory` | `LotConservation`, `SalidaMatchesStatus`, `ConfirmedIsFrozen`, `StockMovesWithLots`, `PreviewTellsTheSale`, `ImplementsLedger` | two sessions, two purchases, three lots, two products, four carts |
| `preview` | violation: `PreviewIsExact` | one session, the rest as `inventory` |
| `inventory_live` | `EveryRequestEnds` | two sessions, one purchase with two lots, one cart in the opposite order |
| `payment` | `PaidSaleHasItsEntrada`, `DateMatchesStatus`, `OneEntradaUnlessCrossed`, `ReadersAgree`, `SoldIsCollectedOrOwed` | two sessions, a sale of two products and a gift, two days, three ENTRADAs, four other movements, a ledger that stops at six rows |
| `payment_race` | violation: `OneEntradaPerPayment` | as above, no manual ENTRADA |
| `followups` | `OneOpenPerPair`, `ProjectedIsFollowed`, `LastPurchaseGoesForward`, `SalesNeverCollide`, `NobodyIsForgotten`, `TilesMatchFilters` | two sessions, one pair, three dates, three sales, three rows; two more customers who only appear in lists; nine due dates around the limits |
| `mirror` | `NoLostWakeup`, `HandledRowsAreMirrored`, `MirrorCatchesUp` | one session and the thread, three dates, two rows, two restarts |
| `mirror_sale_race` | violation: `SyncedMeansMirrored` | one session, three sales |
| `agent` | `MarkedIffWritten`, `OneWriteUnlessOverlapped`, `AnswersAreTrue`, `NoOrphanDraft` | a purchase and a collection, three threads, one fault: a client that leaves, a restart or a clean-up that fails |
| `agent_race` | violation: `OneWritePerTask` | one sale or cash movement, two threads |
| `conversation` | `RegistryIsExact`, `CheckStillHolds`, `OnlyACutKills`, `ClosingEventIsTrue` | three requests, four tool calls |
| `accounts` | `StoresAgree`, `ClaimsFollowTheRow`, `OnlyNamedColumnsChange`, `BoundToItsBusiness` | two requests, two connections, three uids, two addresses, one restart |

Each passing run also checks a type invariant, which says more than types where
a variable is a natural number that steps subtract from.

Why the bounds are enough. The code coordinates pairwise: every hazard in
`PROJECT.json` is between two requests, or a request and a thread, so two
sessions reach it; sessions run any number of operations one after another. The
lots let a sale span two lots, repeat a product, take the products in the
opposite order of the purchase, and be older than a purchase. `MaxQty = 1` keeps
the products small; quantities above the lot come from carts of two units. Two
sale dates would not have a late sale between others; three do. Three ENTRADAs are a
payment recorded by two requests, or by hand and by one, taken back and made again,
and with the other movements one more than the ledger lists. Three threads
are the one a client left behind and the two of the next run. The kinds of tool
in `agent` are the two with most steps; sales and cash movements have a prefix of
them, appear in the violation runs, and the theorems hold for any assignment of
tools to tasks. Two connections are as many as two requests can hold, so each may
get the other's last one. Three requests of a conversation are a run, one that
finds it reserved and one that was checked before. The mirror has one session
because the thread shares nothing else with it: what several sessions do to the
rows is `followups`, with `RefreshMayFail` on; where two sales of a pair meet the
thread the finding needs only one of them.

Bounds on counters are named constants in guards: `MaxEntries`, `MaxSales`,
`MaxRows`, `MaxCrashes`, `MaxFaults`, `MaxQty`, `MaxCalls`. They stop inputs,
never a step of a request that has begun, except that a payment waits when
`MaxEntries` rows exist (checked for safety only).

Fairness. `inventory_live`: a request that can run keeps running (the executor
schedules it) and PostgreSQL serves the waiters of a row in turn, so a step that
is enabled again and again is taken: strong fairness of `Step`. The deadlock
detector runs on every long wait: weak fairness of `DeadlockVictim`. Nothing
assumes that a request fails or that anybody sends one. `mirror`: the
thread is always scheduled and its timer fires (weak fairness of `Thread`), its
UPDATE and the statements of a session get their row in turn (strong fairness),
and outages end (`OutagesEnd`): without that the calendar cannot catch up.

## Proofs

All theorems hold for any values of the constants that satisfy the named
assumptions of the modules (`LotAssumption`, `CartAssumption`,
`ValueAssumption`, `PaymentAssumption`, `CashAssumption`, `SaleAssumption`,
`AgentAssumption`, `ConversationAssumption`, `AccountsAssumption`,
`FollowUpAssumption`, `ListAssumption`, `CrashAssumption`): any number of sessions, requests,
customers, products, purchases, lots, carts, sales, movements, dates, tasks, calls,
tools, users, connections and figures. What is added up is finite: the lots, the
products, the dates, the movements without a sale, the lines of a sale and of a cart,
the follow-ups of other customers.
Ids and instants of creation are distinct, as primary keys and a
sequence make them; the movements without a sale have negative ids, to be apart
from the ENTRADAs that a run numbers. TLC evaluates every assumption.

**Inventory** (`TypeCorrect`, `Invariance`, `LotsConserved`, `SalidaCorrect`,
`ConfirmedFrozen`). The properties are not inductive: that a commit writes the
right quantity depends on what the session read under its locks. `IInv` adds
`OperationOK` (a session runs statements of its own operation), `SaleOK` (the
quantity a sale holds in memory plus what it took of a locked lot is the one in
the table) and `PurchaseOK` (past `LockPurchase` the purchase and then its items
are the session's alone, and what `confirm` or `cancel` decided on still
holds). The proof is the one of two-phase locking: a step of one session changes
only rows it has locked, so what the others know about their rows stays.

**Stock and lots** (`MovesInStep`, `StockMoves`). The stock is changed line by line
and the lots by values computed earlier, so the theorem needs to know of every
request, at every statement, that the two are in step: `SaleMoves`, the stock a
sale has taken of a product is what it took of its lots, but for the line it is
at; `PurchaseMoves`, what a confirmation or a cancellation adds is the total of
the items it has gone through. `MovesInv` is their conjunction with `IInv`.

**The ledger** (`ImplementsTheLedger`). Each commit is one operation of
`LotLedger`, the panel's write is itself, and every other step is a stutter. That
the commit of a sale is a sale of the ledger takes `SaleMoves` (it takes something,
no more than there is, and of the stock as much as of the lots) and two-phase
locking (it takes from what is there now); that of a confirmation or a
cancellation takes `PurchaseMoves` for the whole purchase.

**The preview** (`PreviewTells`). A sale locks the lots of a line one at a time,
while others empty, cancel and confirm lots around it; that what it took is the FIFO
of the instant of its commit has to be followed lot by lot. `FifoSoFar` says it at
every statement, for carts with one line for each product: each lot it holds is of a
product of the cart and not newer than its date; of a line, what it took of each lot
is what the older locked ones leave to take; the rows it has still to lock are later
in the order of the query than those it has. Nobody changes a locked lot, so the
part done stays true, and a row read again under its lock extends it (`FifoStep`).
`CandidatesAre` then says that, if no lot was confirmed in the meantime, the lots a
preview would offer are those the sale has locked, and `ShownIsTaken`, `ShownSum`
that quantities and costs are the same.

**Payments** (`DatesMatch`, `PaidSalesAreInTheBook`, `OneEntrada`, `PaymentTypes`).
`StaleOK`: an un-payment only deletes ENTRADAs of the sale it makes pending in the
same commit, so those of a paid sale stay (`StillBooked`), the one of its creation
among them, and a new payment brings one of its own date (`BookedStep`).
`Informed`: what a session read of a sale is still so while no two requests have
been at the sale.

**Readers of the cash book and of the sales** (`ReadersOfTheBook`, `SoldIsRead`, in
`CashBookProofs` with those of the payments). Of the state they need `BookOK`, kept
by every step: the book is finite and its ids are distinct. From there they are
facts about queries. `Rank`: an order that ties nothing puts each element
where its number of predecessors says; `RowsInOrder`, so the book has one order.
`FoldIs`: the ledger's row by row addition has at each row the sum of the rows up
to it, which is the window (`Balances`). `Glued`: pages of two rows, whose last may
be short, make up the whole; `PagesAre` and `ConsultaIs` tell the two lists of the
cash. For the sales, `CashOfDay`: with no request crossed each paid sale has its one
ENTRADA, of the day it was collected (`DayCollected`), so the cash is a sum over
sales; `AnyGrouping`: revenue, cost and profit do
not depend on what a report groups by, for every line is in one row;
`OwedByProduct` exchanges the sum over sales with the one over products.
`CashBook` orders rows by rank (`Ordered`, of `Ordering`): `SortSeq` of the TLC
module is opaque to the prover.

**Sums**. `MapThenSumSet` is a fold, which the community module defines by
recursion over subsets. The induction theorems of the library take an operator as
a parameter, but its theorem on minimal elements (`WFMin`) takes a set: `Smallest`
turns it into arguments by the smallest counterexample among the subsets of a
finite set. That way `Exist` and `Agree` show that the recursive function is
there and is one, and the others follow (`SumTake`, `SumPlus`, `SumUnion`,
`SumPart`, `SumImage`, `SumByKey`), and likewise that a finite set has a last element
and can be gone through in order (`LastOf`, `Enumerated`). The folds over sequences
and `FlattenSeq` are treated on the shortest sequence.

**FollowUps** (`TypeCorrect`, `OneOpen`, `NobodyIsLost`, `PurchasesGoForward`,
`SalesDoNotCollide`). Two things are true of the tables, `OpenIsLatest` (the open
follow-up of a pair is the last of the pair) and `Followed` (a projection has a last follow-up, open or dismissed). The rest is
what a sale knows: `HoldsOK`, it holds its products and closes rows of lines it has
dealt with; `GoesForward`, nobody wrote a cycle it read; `ClosesWhatIsOpen`, a pair
it opens has nothing open but what it closes; `LeavesSettled`, a projection it
writes without a new follow-up has one; and `FoundOK`, the follow-up it found open
is open still or was postponed. Only a postponement or a dismissal by hand can
move the pair of a line in between (`HandHere`): another sale cannot
(`SaleAfter`, `FoundAfter`), for it would need the product.

**Their lists** (`TilesMatch`, `NobodyForgotten`). Both assume `Few`: at most a hundred
customers, for the summary and the agent's list take one page of a hundred and say
nothing of the rest. `TilesMatch` is about queries, and needs only the types of the
tables: a list has one entry for each customer (`EntriesAre`), sorting keeps each
once (`ByUrgencyIs`), and who is due within some days is overdue or due from today
on. `NobodyForgotten` adds to the invariant two facts about time: a postponed row has
a later one of its pair (`PostponedGoOn`), and a pair that was projected when the
session read the cycles has follow-ups since (`ReadingOK`), which nobody deletes. So
a customer that neither half of the list has ends in a dismissal, or in a sale that
found no projection.

**The mirror** (`MirrorTypes`, `RowsAreMirrored`, `WakeUpsArrive`, `FollowUpsSurvive`,
for any number of sessions, where the run has one). `MInv` adds to the invariant of
`FollowUps`, which restarts and the writes of the thread keep: `HandOK`, what the
thread has in hand is left to mirror; `AnswerOK`, an answer in hand is what the
calendar shows; and `NothingForgotten`, a row that the pass will not reach, or that
changed after it was read, has another pass to come. A commit comes before its
request and the signal is cleared before the list is read, so no order of the two
loses a row. `WakeUpsArrive` assumes that no refresh fails after the commit
(`~RefreshMayFail`, as in the run): one that does is a hazard of its own, for then
nobody requests the pass.

**AgentWrites** (`AgentTypes`, `MarksAreWrites`, `WritesOnce`, `AnswersHold`,
`DraftsHaveWorkers`). `Fresh`: a worker past its look at the mark has a task
without a write, unless the task overlapped; `Told`: what a worker is about to
report is true; `Quiet`: nobody works on an answered task, unless it overlapped;
`DraftsCounted`: one draft per worker that holds one. The argument needs
`MarkedIffWritten`: looking for the mark is looking for the write.

**Conversation** (`TypeCorrect`, `ThreadIsReleased`, `NothingHappensInBetween`,
`MessagesDoNotKill`, `FinIsTrue`: the five invariants of the run). What makes them
inductive is what is true of a run from within: `OnlyARunWorks`, only a run has
tasks at work, so nobody works while the holder of the thread reads the
checkpoint; `InHand`, a task without a result is at work or has its card, and the
flag is up exactly when there is such a card, which is what the closing event
tells; and of the time between runs: `LeftBehind`, a step that did not end can be
answered or was cut, so a message that found no card discards only the second
kind.

**Accounts** (`TypeCorrect`, `StoresAgreeAlways`, `ClaimsFollow`, `TenantsAreApart`,
`NamedColumnsOnly`: all the properties of the run). `ConnectionsOK`: a connection
has one owner and is bound to the owner's business, or is free and bound to none.
`CreationsOK` says of each statement of a creation what is in the two stores by
then, from `DistinctUids`: nobody else creates that user. `UpdatesOK`: an update
that nobody crosses works from the row as it is, and the claims it has left are
what it is about to write.

**Pricing** (`HabitualIsCustomary`, `PatternSustainsItself`,
`LargeDiscountIsNoPattern`, `SmallDiscountBecomesThePattern`, `DiscountLasts`,
`ShownPriceNeedsAReason`). No invariant: facts about operators, for any margins,
from one lemma about a rounded third (`ThirdIsClose`).

**Projection** (`NextIsPlausible`, `OldGapWeighs`, in `PricingProofs`). The average is
a recursive function; `EstimatesExist` shows that there is one, and what holds of all
its values is shown on the first that would not have it (`FirstOf`). `EstimateBetween`:
each stays between the smallest interval and the largest, which are whole days, so
the two roundings do too; that is why `project` needs no floor of a day, as its
comment says. `Decays`: the first interval loses three tenths of its weight with each
purchase and the last one has three tenths, so they cross between four and five.

Only model-checked: liveness under fairness (`EveryRequestEnds`, `MirrorCatchesUp`) and
`ENABLED`, which the prover cannot do; and the four runs that expect a violation, one behaviour each.

## Where the code and its documents disagree

Shown by a run, with the line it contradicts quoted in `PROJECT.json`:

* `payment_race`: two requests that read a sale as pending both record it.
* `mirror_sale_race`: a closed follow-up stays in the calendar for good.
* `agent_race`: a task writes twice after its client left and approved again.
* `preview`: a sale with two lines of one product is shown with lots, and a cost,
  that are not the ones it is written with; nobody else is needed.

Shown otherwise:

* `idempotency.py:59-62` says that the mark of `registrar_compra` travels with the
  first of its two transactions, so that a process that dies between them leaves a
  draft the resumption never touches again: a mark without a write. The code puts
  the mark in the second (`write.py:737-757`), as `docs/agente.md:888-897` says: the
  resumption finds no mark, writes a draft of its own and confirms it, and only the
  first draft is left over. `agent` passes `MarkedIffWritten`, with that death among
  its steps; its mutant `DraftWithMark` is the program of the docstring, of which
  the property is false.
* `pricing.py:48-50` says that a single discount does not rewrite the pattern of a
  customer, for it breaks the consistency of the three margins. Consistency is
  "within two quetzales": any discount of up to that becomes the habitual price
  (`SmallDiscountBecomesThePattern`) and is charged from then on
  (`DiscountLasts`).
* `projection.py:3-5` says that one gap of months ago must not weigh as the last
  purchase does. The average starts at the first interval and never discounts
  it: with two to four intervals it weighs more than the last one
  (`OldGapWeighs`; TLC tries it as `OneGapOfLongAgo`, in `MCFollowUps`).
* `orchestrator.py:733-734` says that a late sale which gives a pair its first
  projection never undoes a dismissal. A PUT may move the date of a sale without
  computing the cycle again (`orchestrator.py:762-765`, `EditSale`); the next sale
  then finds one date and takes the projection away, and a late one after it
  opens a follow-up for a pair whose last one was dismissed.
* `_record_sale_cash_entry` says that the ENTRADA of a payment is dated at
  `payment_date` (`orchestrator.py:844`), and so it is when a pending sale is paid.
  `create` records the one of a sale created paid itself, at `occurredAt`
  (`orchestrator.py:664-703`), while `payment_date` is `fechaPago`: a request that
  gives them different days has its cash on one day and its payment date on
  another. No document promises that they agree, so no run expects a violation;
  `PaidSaleHasItsEntrada` and `CashIsWhatWasCollected` say what is so.

## Not modelled

Text and searches by text; the verification of a token, which is Firebase's, and
the HMAC; customers (plain create, read, update and delete); validation of
schemas, taken as the ranges of the inputs; migrations and scripts, which run
outside the program. The deletion of a product, which cascades to its lots, is
left out of `Inventory`: the code promises nothing of the cash and of the sales
it takes with it. A call to Google that times out and lands later is a hazard
without a property: what the calendar does with it is not in this repository.
The profit report reads 10000 sales and says nothing of more; `SaleLists` has no
such limit. Several processes would break the reservation of conversations and
the single mirror thread; the deployment has one.

## Order of the work, and what is left

Inventory, SalePayment, FollowUps, CalendarMirror and AgentWrites came first,
because they are where the money and the goods are; then the readers (CashBook,
SaleLists, FollowUpLists), Conversation, Accounts, Pricing and Projection. Every
module with state has its proofs.

Left, in order:

1. `AgentWrites`: the refusals of a huella as decisions of their own (absent,
   forged, of another operation), and the figures of a preview taken from
   `Inventory`.
2. `Inventory`: product deletion and its cascade.
