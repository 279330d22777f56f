-------------------------- MODULE FollowUpsProofs --------------------------
(***************************************************************************)
(* The theorems of FollowUps, of its mirror in the calendar and of the     *)
(* lists that read it, for any sessions, customers, products and dates.    *)
(* A sale holds its products from before it reads a cycle to its commit,   *)
(* so nobody else sells them meanwhile: what may still happen to the       *)
(* follow-ups of its pairs is a postponement or a dismissal by hand.       *)
(***************************************************************************)
EXTENDS CalendarMirror, FollowUpLists, Sums, SequenceTheorems, TLAPS

OfPair(c, p) == {i \in DOMAIN rows : rows[i].customer = c /\ rows[i].product = p}

\* The open follow-up of a pair is the last of the pair.
OpenIsLatest ==
    \A c \in Customers, p \in Products :
        \A i \in OpenOf(c, p), j \in OfPair(c, p) : j <= i

\* The pair has a last follow-up, and it is open or was dismissed.
Settled(c, p) ==
    \E m \in OfPair(c, p) :
        /\ \A j \in OfPair(c, p) : j <= m
        /\ rows[m].closeReason \in {"none", "dismissed"}

Followed ==
    \A c \in Customers, p \in Products : cycle[<<c, p>>].projected => Settled(c, p)

----------------------------------------------------------------------------
(* What a session knows.                                                   *)

InSale(s) == pc[s] \in {"stock", "cycle", "renew", "fill", "close", "open"}
WithLine(s) == pc[s] \in {"renew", "fill", "close", "open"}

SessionOK(s) ==
    /\ InSale(s) => op[s].kind = "sale"
    /\ pc[s] \in {"lock", "decide"} =>
          op[s].kind \in {"postpone", "dismiss"} /\ op[s].row \in DOMAIN rows
    /\ ~InSale(s) => heldProducts[s] = {} /\ opening[s] = {}
    /\ pc[s] \in {"idle", "stock", "lock", "notify"} => heldRows[s] = {} /\ opening[s] = {}
    /\ pc[s] = "decide" => heldRows[s] = {op[s].row}
SessionsOK == \A s \in Sessions : SessionOK(s)

LocksOK ==
    \A s, t \in Sessions : s # t =>
        heldProducts[s] \cap heldProducts[t] = {} /\ heldRows[s] \cap heldRows[t] = {}

\* The lines a sale has taken into account.
Done(s) == op[s].products \ left[s]

\* A sale holds its products, and its rows are of lines it has dealt with.
HoldsOK(s) ==
    /\ left[s] \subseteq op[s].products
    /\ IF pc[s] = "stock" THEN Done(s) \subseteq heldProducts[s]
                          ELSE op[s].products \subseteq heldProducts[s]
    /\ WithLine(s) => product[s] \in Done(s) \ opening[s]
    /\ opening[s] \subseteq Done(s) /\ IsFiniteSet(opening[s])
    /\ \A i \in heldRows[s] :
          i \in DOMAIN rows /\ rows[i].customer = op[s].customer /\ rows[i].product \in Done(s)
    /\ pc[s] \in {"renew", "fill"} => \A i \in heldRows[s] : rows[i].product # product[s]

\* It read no cycle later than the ones it writes.
GoesForward(s) ==
    pc[s] # "stock" =>
        \A p \in Done(s) : mine[s][p].last >= cycle[<<op[s].customer, p>>].last

\* A pair it opens has no open follow-up but the ones it closes.
ClosesWhatIsOpen(s) ==
    \A p \in opening[s] : OpenOf(op[s].customer, p) \subseteq heldRows[s]

\* The follow-up it found open is open still, or its pair has none, or it was
\* postponed: then another one is open.
FoundOK(s) ==
    LET open == OpenOf(op[s].customer, product[s])
        isFound == found[s] \in OfPair(op[s].customer, product[s])
        postponed == rows[found[s]].closeReason = "postponed"
    IN  /\ pc[s] = "close" =>
              isFound /\ (open # {} => IsOpen(found[s]) \/ postponed)
        /\ pc[s] = "open" /\ open # {} =>
              isFound /\ found[s] \in heldRows[s] /\ (IsOpen(found[s]) \/ postponed)

\* A projection it writes without opening a follow-up has one already.
LeavesSettled(s) ==
    /\ pc[s] \in {"fill", "open"} => mine[s][product[s]].projected
    /\ pc[s] # "stock" =>
          \A p \in Done(s) \ opening[s] :
              (WithLine(s) => p # product[s]) /\ mine[s][p].projected =>
                  /\ Settled(op[s].customer, p)
                  /\ \A i \in heldRows[s] : rows[i].product # p

SaleOK(s) ==
    HoldsOK(s) /\ GoesForward(s) /\ ClosesWhatIsOpen(s) /\ FoundOK(s) /\ LeavesSettled(s)

SalesOK == \A s \in Sessions : InSale(s) => SaleOK(s)

IInv ==
    /\ TypeOK
    /\ OpenIsLatest
    /\ Followed
    /\ SessionsOK
    /\ LocksOK
    /\ SalesOK

----------------------------------------------------------------------------
(* The rows a sale inserts.                                                *)

\* SetToSeq lists a finite set, each element once.
LEMMA ListedOnce ==
    ASSUME NEW T, IsFiniteSet(T)
    PROVE  /\ SetToSeq(T) \in Seq(T)
           /\ Len(SetToSeq(T)) \in Nat /\ DOMAIN SetToSeq(T) = 1..Len(SetToSeq(T))
           /\ \A t \in T : \E i \in 1..Len(SetToSeq(T)) : SetToSeq(T)[i] = t
           /\ \A i, j \in 1..Len(SetToSeq(T)) : SetToSeq(T)[i] = SetToSeq(T)[j] => i = j
<1> DEFINE n == Cardinality(T)
<1>1. n \in Nat
  BY FS_CardinalityType
<1>2. ExistsBijection(1..n, T)
  BY FS_NatBijection, FS_CountingElements
<1>3. PICK g \in Bijection(1..n, T) : TRUE
  BY <1>2 DEF ExistsBijection
<1>4. g \in [1..n -> T] /\ IsInjective(g)
  BY <1>3 DEF Bijection, Injection
<1> DEFINE f == SetToSeq(T)
<1>5. f \in [1..n -> T] /\ IsInjective(f)
  BY <1>4 DEF SetToSeq
<1> HIDE DEF f
<1>6. f \in Injection(1..n, T)
  BY <1>5 DEF Injection
<1>7. f \in Surjection(1..n, T)
  <2>1. IsFiniteSet(1..n) /\ Cardinality(1..n) = n
    BY <1>1, FS_Interval
  <2>. QED
    BY <1>6, <2>1, FS_Injection
<1>8. f \in Seq(T) /\ Len(f) = n
  BY <1>1, <1>5
<1>. QED
  BY <1>1, <1>5, <1>7, <1>8 DEF IsInjective, Surjection, f

----------------------------------------------------------------------------
(* Types.                                                                  *)

\* The fields of the operation in hand.
LEMMA Fields ==
    ASSUME TypeOK, NEW s \in Sessions
    PROVE  /\ op[s].kind = "sale" => /\ op[s].customer \in Customers
                                     /\ op[s].products \subseteq Products
                                     /\ op[s].date \in Dates /\ op[s].date \in Nat
           /\ op[s].kind \in {"postpone", "dismiss"} => op[s].row \in Nat
<1>1. op[s] \in Operation
  BY DEF TypeOK
<1>2. CASE op[s] = NoOp
  BY <1>2 DEF NoOp
<1>3. CASE op[s] \in [kind : {"sale"}, customer : Customers, products : SUBSET Products,
                      date : Dates]
  BY <1>3, FollowUpAssumption
<1>4. CASE op[s] \in [kind : {"postpone", "dismiss"}, row : Nat]
  BY <1>4
<1>. QED
  BY <1>1, <1>2, <1>3, <1>4 DEF Operation

LEMMA RowTypes ==
    ASSUME TypeOK
    PROVE  /\ Len(rows) \in Nat /\ DOMAIN rows = 1..Len(rows)
           /\ \A i \in DOMAIN rows : /\ rows[i] \in FollowUp
                                     /\ rows[i].customer \in Customers
                                     /\ rows[i].product \in Products
<1>1. rows \in Seq(FollowUp)
  BY DEF TypeOK
<1>2. Len(rows) \in Nat /\ DOMAIN rows = 1..Len(rows) /\ \A i \in DOMAIN rows : rows[i] \in FollowUp
  BY <1>1
<1>. QED
  BY <1>2 DEF FollowUp

LEMMA EndedTypes ==
    ASSUME TypeOK, NEW s \in Sessions, NEW label \in {"idle", "notify"}, EndedAt(s, label),
           sales' \in Seq(Sale), cycle' \in [Customers \X Products -> Cycle],
           rows' \in Seq(FollowUp), wake' \in BOOLEAN
    PROVE  TypeOK'
<1>1. NoOp \in Operation /\ NoCycle \in Cycle
  BY DEF Operation, NoCycle, Cycle
<1>2. op' \in [Sessions -> Operation]
  BY <1>1 DEF EndedAt, TypeOK
<1>3. mine' \in [Sessions -> [Products -> Cycle]]
  BY <1>1 DEF EndedAt, TypeOK
<1>4. pc' \in [Sessions -> Labels]
  BY DEF EndedAt, TypeOK, Labels
<1>. QED
  BY <1>2, <1>3, <1>4 DEF EndedAt, TypeOK

\* A row that is closed keeps its pair.
LEMMA ClosedRow ==
    ASSUME TypeOK, NEW i \in DOMAIN rows, NEW reason \in Reasons, NEW untouched
    PROVE  /\ Closed(i, reason, untouched) \in FollowUp
           /\ Closed(i, reason, untouched).customer = rows[i].customer
           /\ Closed(i, reason, untouched).product = rows[i].product
           /\ Closed(i, reason, untouched).closeReason = reason
           /\ Closed(i, reason, untouched).sync =
                 IF i \in untouched THEN rows[i].sync ELSE "pending"
<1>1. rows[i] \in FollowUp
  BY RowTypes
<1>2. SyncOnClose(i, untouched) \in {"pending", "synced", "failed"}
  BY <1>1 DEF SyncOnClose, FollowUp
<1>. QED
  BY <1>1, <1>2 DEF Closed, FollowUp, SyncOnClose

LEMMA NewRowType ==
    ASSUME NEW c \in Customers, NEW p \in Products
    PROVE  /\ NewRow(c, p) \in FollowUp /\ NewRow(c, p).closeReason = "none"
           /\ NewRow(c, p).customer = c /\ NewRow(c, p).product = p
           /\ NewRow(c, p).sync = "pending"
BY DEF NewRow, FollowUp, Reasons

\* The rows after a postponement: one closed, and one more.
LEMMA PostponedRows ==
    ASSUME TypeOK, NEW s \in Sessions, op[s].row \in DOMAIN rows
    PROVE  LET i == op[s].row
               after == Postponed(s)
           IN  /\ after \in Seq(FollowUp)
               /\ DOMAIN after = 1..(Len(rows) + 1)
               /\ after[i].closeReason = "postponed" /\ after[i].sync = "pending"
               /\ \A j \in DOMAIN rows : /\ after[j].customer = rows[j].customer
                                         /\ after[j].product = rows[j].product
                                         /\ j # i => after[j] = rows[j]
               /\ after[Len(rows) + 1].customer = rows[i].customer
               /\ after[Len(rows) + 1].product = rows[i].product
               /\ after[Len(rows) + 1].closeReason = "none"
               /\ after[Len(rows) + 1].sync = "pending"
<1> DEFINE i == op[s].row
           closed == Closed(i, "postponed", {})
           new == NewRow(rows[i].customer, rows[i].product)
           changed == [rows EXCEPT ![i] = closed]
<1>1. /\ closed \in FollowUp /\ closed.closeReason = "postponed" /\ closed.sync = "pending"
      /\ closed.customer = rows[i].customer /\ closed.product = rows[i].product
  <2>1. i \in DOMAIN rows /\ "postponed" \in Reasons
    BY DEF Reasons
  <2>2. /\ closed \in FollowUp /\ closed.closeReason = "postponed"
        /\ closed.sync = IF i \in {} THEN rows[i].sync ELSE "pending"
        /\ closed.customer = rows[i].customer /\ closed.product = rows[i].product
    BY <2>1, ClosedRow
  <2>. QED
    BY <2>2
<1>2. /\ new \in FollowUp /\ new.closeReason = "none" /\ new.sync = "pending"
      /\ new.customer = rows[i].customer /\ new.product = rows[i].product
  BY RowTypes, NewRowType
<1> HIDE DEF closed, new
<1>3. /\ changed \in Seq(FollowUp) /\ Len(changed) = Len(rows)
      /\ DOMAIN changed = DOMAIN rows /\ changed[i] = closed
      /\ \A j \in DOMAIN rows : j # i => changed[j] = rows[j]
  BY <1>1, RowTypes DEF TypeOK
<1>4. Postponed(s) = Append(changed, new)
  BY DEF Postponed, closed, new
<1> HIDE DEF changed
<1>5. /\ Append(changed, new) \in Seq(FollowUp)
      /\ DOMAIN Append(changed, new) = 1..(Len(rows) + 1)
      /\ \A j \in DOMAIN rows : Append(changed, new)[j] = changed[j]
      /\ Append(changed, new)[Len(rows) + 1] = new
  BY <1>2, <1>3, RowTypes
<1>. QED
  BY <1>1, <1>2, <1>3, <1>4, <1>5

\* The rows after a dismissal.
LEMMA DismissedRows ==
    ASSUME TypeOK, NEW s \in Sessions, op[s].row \in DOMAIN rows
    PROVE  LET i == op[s].row
               after == [rows EXCEPT ![i] = Closed(i, "dismissed", {})]
           IN  /\ after \in Seq(FollowUp)
               /\ DOMAIN after = DOMAIN rows
               /\ after[i].closeReason = "dismissed" /\ after[i].sync = "pending"
               /\ \A j \in DOMAIN rows : /\ after[j].customer = rows[j].customer
                                         /\ after[j].product = rows[j].product
                                         /\ j # i => after[j] = rows[j]
<1> DEFINE i == op[s].row
           closed == Closed(i, "dismissed", {})
<1>1. /\ closed \in FollowUp /\ closed.closeReason = "dismissed" /\ closed.sync = "pending"
      /\ closed.customer = rows[i].customer /\ closed.product = rows[i].product
  <2>1. i \in DOMAIN rows /\ "dismissed" \in Reasons
    BY DEF Reasons
  <2>2. /\ closed \in FollowUp /\ closed.closeReason = "dismissed"
        /\ closed.sync = IF i \in {} THEN rows[i].sync ELSE "pending"
        /\ closed.customer = rows[i].customer /\ closed.product = rows[i].product
    BY <2>1, ClosedRow
  <2>. QED
    BY <2>2
<1> HIDE DEF closed
<1>2. [rows EXCEPT ![i] = closed] \in Seq(FollowUp)
  BY <1>1, RowTypes DEF TypeOK
<1>. QED
  BY <1>1, <1>2, RowTypes DEF closed

\* The rows after a sale: the ones it holds closed, and one more for each
\* product it opens.
LEMMA SoldRows ==
    ASSUME TypeOK, NEW s \in Sessions, op[s].kind = "sale", HoldsOK(s), CommitSale(s)
    PROVE  /\ rows' \in Seq(FollowUp)
           /\ DOMAIN rows \subseteq DOMAIN rows' /\ \A i \in DOMAIN rows' : i \in Nat
           /\ \A i \in DOMAIN rows :
                 /\ rows'[i].customer = rows[i].customer /\ rows'[i].product = rows[i].product
                 /\ rows'[i].closeReason = IF i \in heldRows[s] THEN "sale"
                                                               ELSE rows[i].closeReason
                 /\ rows'[i].sync = rows[i].sync \/ (i \in heldRows[s] /\ rows'[i].sync = "pending")
           /\ \A i \in DOMAIN rows' \ DOMAIN rows :
                 /\ i > Len(rows) /\ rows'[i].customer = op[s].customer
                 /\ rows'[i].product \in opening[s] /\ rows'[i].closeReason = "none"
                 /\ rows'[i].sync = "pending"
           /\ \A p \in opening[s] : \E i \in DOMAIN rows' \ DOMAIN rows : rows'[i].product = p
           /\ \A i, j \in DOMAIN rows' \ DOMAIN rows :
                 rows'[i].product = rows'[j].product => i = j
<1> DEFINE c == op[s].customer
           n == Len(rows)
           T == {NewRow(c, p) : p \in opening[s]}
           tail == SetToSeq(T)
           head == [i \in DOMAIN rows |-> IF i \in heldRows[s] THEN Closed(i, "sale", asPending[s])
                                          ELSE rows[i]]
           after == head \o tail
<1>1. c \in Customers /\ opening[s] \subseteq Products /\ IsFiniteSet(opening[s])
  BY Fields DEF HoldsOK, TypeOK
<1>2. IsFiniteSet(T)
  <2> DEFINE f == [p \in opening[s] |-> NewRow(c, p)]
  <2>1. f \in Surjection(opening[s], T)
    BY DEF Surjection
  <2>. QED
    BY <1>1, <2>1, FS_Surjection
<1>3. \A t \in T : /\ t \in FollowUp /\ t.customer = c /\ t.product \in opening[s]
                   /\ t.closeReason = "none" /\ t.sync = "pending" /\ t = NewRow(c, t.product)
  BY <1>1, NewRowType
<1>4. \A p \in opening[s] : \E t \in T : t.product = p
  BY <1>1, NewRowType
<1> HIDE DEF T
<1>5. /\ tail \in Seq(T) /\ Len(tail) \in Nat /\ DOMAIN tail = 1..Len(tail)
      /\ \A t \in T : \E i \in 1..Len(tail) : tail[i] = t
      /\ \A i, j \in 1..Len(tail) : tail[i] = tail[j] => i = j
  BY <1>2, ListedOnce
<1> HIDE DEF tail
<1>6. n \in Nat /\ DOMAIN rows = 1..n
  BY RowTypes
<1>7. \A i \in DOMAIN rows :
         /\ head[i] \in FollowUp
         /\ head[i].customer = rows[i].customer /\ head[i].product = rows[i].product
         /\ head[i].closeReason = IF i \in heldRows[s] THEN "sale" ELSE rows[i].closeReason
         /\ head[i].sync = rows[i].sync \/ (i \in heldRows[s] /\ head[i].sync = "pending")
  BY RowTypes, ClosedRow DEF Reasons
<1>8. head \in Seq(FollowUp) /\ Len(head) = n
  BY <1>6, <1>7
<1> HIDE DEF head
<1>9. \A i \in 1..Len(tail) : tail[i] \in T
  BY <1>5
<1>10. tail \in Seq(FollowUp)
  BY <1>3, <1>5, <1>9
<1>11. /\ after \in Seq(FollowUp) /\ DOMAIN after = 1..(n + Len(tail))
       /\ \A i \in 1..n : after[i] = head[i]
       /\ \A i \in (n + 1)..(n + Len(tail)) : after[i] = tail[i - n] /\ i - n \in 1..Len(tail)
  BY <1>5, <1>6, <1>8, <1>10
<1> HIDE DEF after
<1>12. \A i \in DOMAIN after \ DOMAIN rows : i \in (n + 1)..(n + Len(tail)) /\ i > n
  BY <1>5, <1>6, <1>11
<1>13. \A i \in DOMAIN after \ DOMAIN rows :
          /\ after[i].customer = c /\ after[i].product \in opening[s]
          /\ after[i].closeReason = "none" /\ after[i].sync = "pending"
          /\ after[i] = NewRow(c, after[i].product)
  BY <1>3, <1>9, <1>11, <1>12
<1>14. \A p \in opening[s] : \E i \in DOMAIN after \ DOMAIN rows : after[i].product = p
  <2> SUFFICES ASSUME NEW p \in opening[s]
               PROVE  \E i \in DOMAIN after \ DOMAIN rows : after[i].product = p
    OBVIOUS
  <2>1. PICK t \in T : t.product = p
    BY <1>4
  <2>2. PICK k \in 1..Len(tail) : tail[k] = t
    BY <1>5
  <2>3. n + k \in DOMAIN after \ DOMAIN rows /\ n + k \in (n + 1)..(n + Len(tail)) /\ (n + k) - n = k
    BY <1>5, <1>6, <1>11
  <2>4. after[n + k] = tail[k]
    BY <1>11, <2>3
  <2>. QED
    BY <2>1, <2>2, <2>3, <2>4
<1>15. ASSUME NEW i \in DOMAIN after \ DOMAIN rows, NEW j \in DOMAIN after \ DOMAIN rows,
              after[i].product = after[j].product
       PROVE  i = j
  <2>1. after[i] = after[j]
    BY <1>13, <1>15
  <2>2. tail[i - n] = tail[j - n] /\ i - n \in 1..Len(tail) /\ j - n \in 1..Len(tail)
    BY <1>11, <1>12, <2>1
  <2>3. i - n = j - n
    BY <1>5, <2>2
  <2>. QED
    BY <1>5, <1>6, <1>12, <2>3
<1>16. /\ DOMAIN rows \subseteq DOMAIN after /\ \A i \in DOMAIN after : i \in Nat
  BY <1>5, <1>6, <1>11
<1>17. \A i \in DOMAIN rows :
          /\ after[i].customer = rows[i].customer /\ after[i].product = rows[i].product
          /\ after[i].closeReason = IF i \in heldRows[s] THEN "sale" ELSE rows[i].closeReason
          /\ after[i].sync = rows[i].sync \/ (i \in heldRows[s] /\ after[i].sync = "pending")
  BY <1>6, <1>7, <1>11
<1>18. rows' = after
  BY DEF CommitSale, after, head, tail, T
<1>. QED
  BY <1>11, <1>12, <1>13, <1>14, <1>15, <1>16, <1>17, <1>18

----------------------------------------------------------------------------
(* What a step of one session leaves alone.                                *)

Untouched(t) ==
    UNCHANGED <<op[t], pc[t], heldProducts[t], heldRows[t], left[t], product[t], mine[t],
                found[t], opening[t]>>

\* There is one open follow-up per pair.
LEMMA Unique ==
    ASSUME TypeOK, OpenIsLatest, NEW c \in Customers, NEW p \in Products,
           NEW i \in OpenOf(c, p), NEW j \in OpenOf(c, p)
    PROVE  i = j
<1>1. i \in OfPair(c, p) /\ j \in OfPair(c, p)
  BY DEF OpenOf, OfPair
<1>2. i <= j /\ j <= i
  BY <1>1 DEF OpenIsLatest
<1>3. i \in Nat /\ j \in Nat
  BY RowTypes DEF OpenOf
<1>. QED
  BY <1>2, <1>3

\* A pair whose rows stay is as settled as before.
LEMMA SamePair ==
    ASSUME NEW c, NEW p, OfPair(c, p)' = OfPair(c, p),
           \A i \in OfPair(c, p) : rows'[i].closeReason = rows[i].closeReason
    PROVE  /\ OpenOf(c, p)' = OpenOf(c, p)
           /\ Settled(c, p) <=> Settled(c, p)'
<1>1. OpenOf(c, p) = {i \in OfPair(c, p) : rows[i].closeReason = "none"}
  BY DEF OpenOf, OfPair, IsOpen
<1>2. OpenOf(c, p)' = {i \in OfPair(c, p)' : rows'[i].closeReason = "none"}
  BY DEF OpenOf, OfPair, IsOpen
<1>. QED
  BY <1>1, <1>2 DEF Settled

\* The rows keep everything but their sync status.
SameRows ==
    /\ DOMAIN rows' = DOMAIN rows
    /\ \A i \in DOMAIN rows :
          /\ rows'[i].customer = rows[i].customer /\ rows'[i].product = rows[i].product
          /\ rows'[i].closeReason = rows[i].closeReason

LEMMA SameFollowUps ==
    ASSUME SameRows
    PROVE  /\ \A c, p : /\ OfPair(c, p)' = OfPair(c, p) /\ OpenOf(c, p)' = OpenOf(c, p)
                        /\ Settled(c, p)' <=> Settled(c, p)
           /\ \A i \in DOMAIN rows : IsOpen(i)' <=> IsOpen(i)
<1>1. ASSUME NEW c, NEW p
      PROVE  OfPair(c, p)' = OfPair(c, p)
  BY DEF SameRows, OfPair
<1>2. ASSUME NEW c, NEW p
      PROVE  \A i \in OfPair(c, p) : rows'[i].closeReason = rows[i].closeReason
  BY DEF SameRows, OfPair
<1>. QED
  BY <1>1, <1>2, SamePair DEF SameRows, IsOpen

LEMMA OtherSale ==
    ASSUME NEW t \in Sessions, SaleOK(t), Untouched(t), cycle' = cycle, SameRows
    PROVE  SaleOK(t)'
<1>1. HoldsOK(t)'
  BY DEF SaleOK, HoldsOK, Untouched, Done, WithLine, SameRows
<1>2. GoesForward(t)'
  BY DEF SaleOK, GoesForward, Untouched, Done
<1>3. ClosesWhatIsOpen(t)'
  BY DEF SaleOK, ClosesWhatIsOpen, Untouched, OpenOf, IsOpen, SameRows
<1>4. FoundOK(t)'
  BY DEF SaleOK, FoundOK, Untouched, OpenOf, IsOpen, OfPair, SameRows
<1>5. LeavesSettled(t)'
  BY DEF SaleOK, LeavesSettled, HoldsOK, Untouched, Done, WithLine, Settled, OfPair, SameRows
<1>. QED
  BY <1>1, <1>2, <1>3, <1>4, <1>5 DEF SaleOK

\* A step of s before its commit.
LEMMA Frame ==
    ASSUME IInv, NEW s \in Sessions, UNCHANGED <<cycle, rows>>, TypeOK',
           \A t \in Sessions \ {s} :
              /\ Untouched(t)
              /\ heldProducts'[s] \cap heldProducts[t] = {} /\ heldRows'[s] \cap heldRows[t] = {},
           SessionOK(s)', InSale(s)' => SaleOK(s)'
    PROVE  IInv'
<1>1. OpenIsLatest'
  BY DEF IInv, OpenIsLatest, OpenOf, OfPair, IsOpen
<1>2. Followed'
  BY DEF IInv, Followed, Settled, OfPair
<1>3. ASSUME NEW t \in Sessions PROVE SessionOK(t)'
  <2>1. CASE t = s
    BY <2>1
  <2>2. CASE t # s
    BY <2>2 DEF IInv, SessionsOK, SessionOK, Untouched, InSale
  <2>. QED
    BY <2>1, <2>2
<1>4. LocksOK'
  BY DEF IInv, LocksOK, Untouched
<1>5. ASSUME NEW t \in Sessions, InSale(t)' PROVE SaleOK(t)'
  <2>1. CASE t = s
    BY <2>1, <1>5
  <2>2. CASE t # s
    <3>1. Untouched(t) /\ InSale(t)
      BY <1>5, <2>2 DEF Untouched, InSale
    <3>. QED
      BY <3>1, OtherSale DEF IInv, SalesOK, SameRows
  <2>. QED
    BY <2>1, <2>2
<1>. QED
  BY <1>1, <1>2, <1>3, <1>4, <1>5 DEF IInv, SessionsOK, SalesOK

\* The end of a transaction gives up what the session held.
LEMMA Ending ==
    ASSUME IInv, NEW s \in Sessions, NEW label \in {"idle", "notify"}, EndedAt(s, label)
    PROVE  /\ SessionOK(s)' /\ ~InSale(s)'
           /\ heldProducts'[s] = {} /\ heldRows'[s] = {}
           /\ \A t \in Sessions \ {s} : Untouched(t)
<1>1. /\ pc'[s] = label /\ heldProducts'[s] = {} /\ heldRows'[s] = {} /\ opening'[s] = {}
  BY DEF EndedAt, IInv, TypeOK
<1>2. \A t \in Sessions \ {s} : Untouched(t)
  BY DEF EndedAt, IInv, TypeOK, Untouched
<1>. QED
  BY <1>1, <1>2 DEF SessionOK, InSale

----------------------------------------------------------------------------
(* The initial state, and the steps before a commit.                       *)

LEMMA InvStart == Init => IInv
<1> SUFFICES ASSUME Init PROVE IInv
  OBVIOUS
<1>1. NoOp \in Operation /\ NoCycle \in Cycle /\ ~NoCycle.projected
  BY DEF Operation, NoCycle, Cycle
<1>2. TypeOK
  <2>1. <<>> \in Seq(Sale) /\ <<>> \in Seq(FollowUp)
    OBVIOUS
  <2>2. /\ cycle \in [Customers \X Products -> Cycle]
        /\ mine \in [Sessions -> [Products -> Cycle]]
    BY <1>1 DEF Init
  <2>. QED
    BY <1>1, <2>1, <2>2 DEF Init, TypeOK, Labels
<1>3. OpenIsLatest /\ Followed
  BY <1>1 DEF Init, OpenIsLatest, Followed, OpenOf, OfPair
<1>4. \A s \in Sessions : SessionOK(s) /\ ~InSale(s)
  BY DEF Init, SessionOK, InSale
<1>5. LocksOK
  BY DEF Init, LocksOK
<1>. QED
  BY <1>2, <1>3, <1>4, <1>5 DEF IInv, SessionsOK, SalesOK

\* A session that ends without a write to the tables.
LEMMA EndStep ==
    ASSUME IInv, NEW s \in Sessions, EndedAt(s, "idle"), UNCHANGED tables, wake' \in BOOLEAN
    PROVE  IInv'
<1>1. TypeOK'
  BY EndedTypes DEF IInv, TypeOK, tables
<1>. QED
  BY <1>1, Ending, Frame DEF tables

LEMMA BeginStep ==
    ASSUME IInv, NEW s \in Sessions, BeginSale(s) \/ BeginByHand(s)
    PROVE  IInv'
<1>1. pc[s] = "idle" /\ SessionOK(s)
  BY DEF BeginSale, BeginByHand, IInv, SessionsOK
<1>2. heldProducts[s] = {} /\ heldRows[s] = {} /\ opening[s] = {}
  BY <1>1 DEF SessionOK, InSale
<1>3. CASE BeginSale(s)
  <2>1. PICK c \in Customers, ps \in SUBSET Products \ {{}}, d \in Dates :
           /\ op' = [op EXCEPT ![s] = [kind |-> "sale", customer |-> c,
                                       products |-> ps, date |-> d]]
           /\ left' = [left EXCEPT ![s] = ps]
    BY <1>3 DEF BeginSale
  <2>2. [kind |-> "sale", customer |-> c, products |-> ps, date |-> d] \in Operation
    BY DEF Operation
  <2>3. /\ op'[s].kind = "sale" /\ op'[s].products = ps /\ left'[s] = ps /\ pc'[s] = "stock"
        /\ UNCHANGED <<cycle, rows, heldProducts, heldRows, opening>>
    BY <1>3, <2>1 DEF BeginSale, IInv, TypeOK, tables
  <2>4. TypeOK'
    BY <1>3, <2>1, <2>2 DEF BeginSale, IInv, TypeOK, tables, Labels
  <2>5. SessionOK(s)'
    BY <1>2, <2>3 DEF SessionOK, InSale
  <2>6. HoldsOK(s)'
    BY <1>2, <2>3, FS_EmptySet DEF HoldsOK, Done, WithLine
  <2>7. SaleOK(s)'
    BY <1>2, <2>3, <2>6
       DEF SaleOK, GoesForward, ClosesWhatIsOpen, FoundOK, LeavesSettled, WithLine
  <2>8. \A t \in Sessions \ {s} : Untouched(t)
    BY <1>3, <2>1 DEF BeginSale, IInv, TypeOK, Untouched
  <2>. QED
    BY <1>2, <2>3, <2>4, <2>5, <2>7, <2>8, Frame
<1>4. CASE BeginByHand(s)
  <2>1. PICK k \in {"postpone", "dismiss"}, i \in DOMAIN rows :
           op' = [op EXCEPT ![s] = [kind |-> k, row |-> i]]
    BY <1>4 DEF BeginByHand
  <2>2. [kind |-> k, row |-> i] \in Operation
    BY RowTypes DEF Operation, IInv
  <2>3. /\ op'[s].kind = k /\ op'[s].row = i /\ pc'[s] = "lock"
        /\ UNCHANGED <<cycle, rows, heldProducts, heldRows, opening>>
    BY <1>4, <2>1 DEF BeginByHand, IInv, TypeOK, tables, memory
  <2>4. TypeOK'
    BY <1>4, <2>1, <2>2 DEF BeginByHand, IInv, TypeOK, tables, memory, Labels
  <2>5. SessionOK(s)' /\ ~InSale(s)'
    BY <1>2, <2>3 DEF SessionOK, InSale
  <2>6. \A t \in Sessions \ {s} : Untouched(t)
    BY <1>4, <2>1 DEF BeginByHand, IInv, TypeOK, Untouched, memory
  <2>. QED
    BY <1>2, <2>3, <2>4, <2>5, <2>6, Frame
<1>. QED
  BY <1>3, <1>4

LEMMA LockRowStep ==
    ASSUME IInv, NEW s \in Sessions, LockRow(s)
    PROVE  IInv'
<1>1. /\ pc[s] = "lock" /\ SessionOK(s)
  BY DEF LockRow, IInv, SessionsOK
<1>2. heldProducts[s] = {} /\ opening[s] = {} /\ op[s].row \in DOMAIN rows
  BY <1>1 DEF SessionOK, InSale
<1>3. /\ pc'[s] = "decide" /\ heldRows'[s] = {op[s].row}
      /\ UNCHANGED <<cycle, rows, op, heldProducts, opening>>
  BY DEF LockRow, IInv, TypeOK, tables, memory
<1>4. TypeOK'
  BY <1>2, RowTypes DEF LockRow, IInv, TypeOK, tables, memory, Labels
<1>5. SessionOK(s)' /\ ~InSale(s)'
  BY <1>1, <1>2, <1>3 DEF SessionOK, InSale
<1>6. \A t \in Sessions \ {s} : Untouched(t)
  BY DEF LockRow, IInv, TypeOK, Untouched, memory
<1>7. \A t \in Sessions \ {s} : heldRows'[s] \cap heldRows[t] = {}
  BY <1>3 DEF LockRow, RowFree
<1>. QED
  BY <1>2, <1>3, <1>4, <1>5, <1>6, <1>7, Frame

LEMMA TakeStockStep ==
    ASSUME IInv, NEW s \in Sessions, TakeStock(s)
    PROVE  IInv'
<1>1. pc[s] = "stock" /\ SessionOK(s) /\ InSale(s) /\ SaleOK(s)
  BY DEF TakeStock, IInv, SessionsOK, SalesOK, InSale
<1>2. PICK p \in left[s] :
         /\ ProductFree(p, s)
         /\ heldProducts' = [heldProducts EXCEPT ![s] = @ \cup {p}]
         /\ left' = [left EXCEPT ![s] = IF @ = {p} THEN op[s].products ELSE @ \ {p}]
         /\ pc' = [pc EXCEPT ![s] = IF left[s] = {p} THEN "cycle" ELSE @]
  BY DEF TakeStock
<1>3. UNCHANGED <<cycle, rows, op, heldRows, product, mine, found, opening>>
  BY DEF TakeStock, tables
<1>4. /\ heldProducts'[s] = heldProducts[s] \cup {p}
      /\ left'[s] = IF left[s] = {p} THEN op[s].products ELSE left[s] \ {p}
      /\ pc'[s] = IF left[s] = {p} THEN "cycle" ELSE "stock"
  BY <1>1, <1>2 DEF IInv, TypeOK
<1>5. op[s].kind = "sale" /\ heldRows[s] = {} /\ opening[s] = {} /\ op[s].products \subseteq Products
  BY <1>1, Fields DEF SessionOK, IInv
<1>6. TypeOK'
  BY <1>1, <1>2, <1>5 DEF TakeStock, IInv, TypeOK, tables, Labels
<1>7. SessionOK(s)'
  BY <1>3, <1>4, <1>5 DEF SessionOK, InSale
<1>8. HoldsOK(s)'
  BY <1>1, <1>3, <1>4, <1>5, FS_EmptySet DEF SaleOK, HoldsOK, Done, WithLine
<1>9. GoesForward(s)' /\ ClosesWhatIsOpen(s)' /\ FoundOK(s)' /\ LeavesSettled(s)'
  BY <1>3, <1>4, <1>5
     DEF GoesForward, ClosesWhatIsOpen, FoundOK, LeavesSettled, Done, WithLine
<1>10. \A t \in Sessions \ {s} : Untouched(t)
  BY <1>2, <1>3 DEF IInv, TypeOK, Untouched
<1>11. \A t \in Sessions \ {s} : heldProducts'[s] \cap heldProducts[t] = {}
  BY <1>2, <1>4 DEF ProductFree, IInv, LocksOK
<1>. QED
  BY <1>3, <1>5, <1>6, <1>7, <1>8, <1>9, <1>10, <1>11, Frame DEF SaleOK

LEMMA UpdateCycleStep ==
    ASSUME IInv, NEW s \in Sessions, UpdateCycle(s)
    PROVE  IInv'
<1>1. pc[s] = "cycle" /\ SessionOK(s) /\ SaleOK(s) /\ op[s].kind = "sale"
  BY DEF UpdateCycle, IInv, SessionsOK, SessionOK, SalesOK, InSale
<1> DEFINE c == op[s].customer
           d == op[s].date
<1>2. PICK p \in left[s] :
         LET prev == cycle[<<c, p>>]
             next == Projected(prev, History(c, p) \cup {d}, d)
         IN /\ left' = [left EXCEPT ![s] = @ \ {p}]
            /\ mine' = [mine EXCEPT ![s][p] = next]
            /\ product' = [product EXCEPT ![s] = p]
            /\ pc' = [pc EXCEPT ![s] =
                        CASE NewInformation(prev, d) -> "renew"
                          [] ~NewInformation(prev, d) /\ FirstProjection(prev, next) -> "fill"
                          [] OTHER -> "cycle"]
  BY <1>1 DEF UpdateCycle
<1> DEFINE prev == cycle[<<c, p>>]
           next == Projected(prev, History(c, p) \cup {d}, d)
<1>3. UNCHANGED <<cycle, rows, op, heldProducts, heldRows, found, opening>>
  BY DEF UpdateCycle, tables
<1>4. /\ c \in Customers /\ d \in Nat /\ op[s].products \subseteq Products
      /\ p \in Products /\ left[s] \subseteq op[s].products
  BY <1>1, Fields DEF SaleOK, HoldsOK, IInv
<1>5. prev \in Cycle
  BY <1>4 DEF IInv, TypeOK
<1>6. /\ next \in Cycle /\ next.last >= prev.last
  BY <1>4, <1>5 DEF Cycle, Projected
<1>7. /\ left'[s] = left[s] \ {p} /\ product'[s] = p
      /\ mine'[s][p] = next /\ \A q \in Products : q # p => mine'[s][q] = mine[s][q]
  BY <1>2, <1>4 DEF IInv, TypeOK
<1>8. /\ pc'[s] \in {"renew", "fill", "cycle"}
      /\ pc'[s] = "fill" => next.projected
      /\ pc'[s] = "cycle" /\ next.projected => prev.projected
  <2>1. pc'[s] = CASE NewInformation(prev, d) -> "renew"
                   [] ~NewInformation(prev, d) /\ FirstProjection(prev, next) -> "fill"
                   [] OTHER -> "cycle"
    BY <1>2 DEF IInv, TypeOK
  <2>2. CASE NewInformation(prev, d)
    BY <2>1, <2>2
  <2>3. CASE ~NewInformation(prev, d) /\ FirstProjection(prev, next)
    BY <2>1, <2>3 DEF FirstProjection
  <2>4. CASE ~NewInformation(prev, d) /\ ~FirstProjection(prev, next)
    BY <2>1, <2>4 DEF FirstProjection
  <2>. QED
    BY <2>2, <2>3, <2>4
<1> HIDE DEF next, prev
<1>9. TypeOK'
  <2>1. mine' \in [Sessions -> [Products -> Cycle]]
    BY <1>2, <1>4, <1>6 DEF IInv, TypeOK, next, prev
  <2>2. pc' \in [Sessions -> Labels]
    BY <1>2, <1>8 DEF IInv, TypeOK, Labels
  <2>3. left' \in [Sessions -> SUBSET Products] /\ product' \in [Sessions -> Products \cup {NoProduct}]
    BY <1>2, <1>4 DEF IInv, TypeOK
  <2>. QED
    BY <2>1, <2>2, <2>3 DEF UpdateCycle, IInv, TypeOK, tables
<1>10. SessionOK(s)'
  BY <1>1, <1>3, <1>8 DEF SessionOK, InSale
<1>11. /\ Done(s)' = Done(s) \cup {p} /\ p \notin Done(s)
       /\ Done(s) \subseteq Products /\ opening[s] \subseteq Done(s)
       /\ \A i \in heldRows[s] : rows[i].product \in Done(s)
  BY <1>1, <1>3, <1>4, <1>7 DEF Done, SaleOK, HoldsOK
<1>12. HoldsOK(s)'
  BY <1>1, <1>3, <1>7, <1>8, <1>11 DEF SaleOK, HoldsOK, WithLine
<1>13. GoesForward(s)'
  <2> SUFFICES ASSUME NEW q \in Done(s)'
               PROVE  mine'[s][q].last >= cycle[<<c, q>>].last
    BY <1>3 DEF GoesForward
  <2>1. CASE q = p
    BY <1>6, <1>7, <2>1 DEF prev
  <2>2. CASE q # p
    BY <1>1, <1>7, <1>11, <2>2 DEF SaleOK, GoesForward
  <2>. QED
    BY <2>1, <2>2
<1>14. ClosesWhatIsOpen(s)'
  BY <1>1, <1>3 DEF SaleOK, ClosesWhatIsOpen, OpenOf, IsOpen
<1>15. FoundOK(s)'
  BY <1>8 DEF FoundOK
<1>16. LeavesSettled(s)'
  <2>1. pc'[s] \in {"fill", "open"} => mine'[s][product'[s]].projected
    BY <1>7, <1>8
  <2>2. ASSUME NEW q \in Done(s)' \ opening[s], WithLine(s)' => q # product'[s],
               mine'[s][q].projected
        PROVE  Settled(c, q)' /\ \A i \in heldRows[s] : rows[i].product # q
    <3>1. CASE q = p
      <4>1. prev.projected
        BY <1>7, <1>8, <2>2, <3>1 DEF WithLine
      <4>2. Settled(c, p)
        BY <1>4, <4>1 DEF IInv, Followed, prev
      <4>. QED
        BY <1>3, <1>11, <3>1, <4>2 DEF Settled, OfPair
    <3>2. CASE q # p
      <4>1. q \in Done(s) \ opening[s] /\ mine[s][q].projected
        BY <1>7, <1>11, <2>2, <3>2
      <4>2. Settled(c, q) /\ \A i \in heldRows[s] : rows[i].product # q
        BY <1>1, <4>1 DEF SaleOK, LeavesSettled, WithLine
      <4>. QED
        BY <1>3, <4>2 DEF Settled, OfPair
    <3>. QED
      BY <3>1, <3>2
  <2>. QED
    BY <1>3, <2>1, <2>2 DEF LeavesSettled
<1>17. \A t \in Sessions \ {s} : Untouched(t)
  BY <1>2, <1>3 DEF IInv, TypeOK, Untouched
<1>18. \A t \in Sessions \ {s} : /\ heldProducts'[s] \cap heldProducts[t] = {}
                                 /\ heldRows'[s] \cap heldRows[t] = {}
  BY <1>3 DEF IInv, LocksOK
<1>. QED
  BY <1>3, <1>9, <1>10, <1>12, <1>13, <1>14, <1>15, <1>16, <1>17, <1>18, Frame DEF SaleOK

\* A sale between two statements about the line in hand.
LEMMA InLine ==
    ASSUME IInv, NEW s \in Sessions, WithLine(s)
    PROVE  /\ SessionOK(s) /\ SaleOK(s) /\ op[s].kind = "sale"
           /\ op[s].customer \in Customers /\ product[s] \in Products
           /\ product[s] \in Done(s) \ opening[s]
           /\ op[s].products \subseteq Products
<1>1. SessionOK(s) /\ SaleOK(s) /\ op[s].kind = "sale"
  BY DEF IInv, SessionsOK, SessionOK, SalesOK, WithLine, InSale
<1>. QED
  BY <1>1, Fields DEF SaleOK, HoldsOK, Done, IInv

\* What those statements leave as it was.
LEMMA SameLine ==
    ASSUME IInv, NEW s \in Sessions, WithLine(s), pc'[s] \in {"close", "open", "cycle"},
           UNCHANGED <<cycle, rows, op[s], heldProducts[s], left[s], product[s], mine[s]>>,
           \/ opening'[s] = opening[s]
           \/ opening'[s] = opening[s] \cup {product[s]} /\ pc'[s] = "cycle",
           heldRows'[s] = heldRows[s] \/
              \E i \in OfPair(op[s].customer, product[s]) : heldRows'[s] = heldRows[s] \cup {i}
    PROVE  SessionOK(s)' /\ HoldsOK(s)' /\ GoesForward(s)'
<1>1. /\ SaleOK(s) /\ op[s].kind = "sale"
      /\ product[s] \in Done(s) \ opening[s]
  BY InLine
<1>2. SessionOK(s)'
  BY <1>1 DEF SessionOK, InSale
<1>3. Done(s)' = Done(s)
  BY DEF Done
<1>4. GoesForward(s)'
  BY <1>1, <1>3 DEF SaleOK, GoesForward, WithLine
<1>5. IsFiniteSet(opening[s])'
  BY <1>1, FS_AddElement DEF SaleOK, HoldsOK
<1>6. HoldsOK(s)'
  BY <1>1, <1>3, <1>5 DEF SaleOK, HoldsOK, WithLine, OfPair
<1>. QED
  BY <1>2, <1>4, <1>6

LEMMA FindStep ==
    ASSUME IInv, NEW s \in Sessions, FindToClose(s) \/ FindMissing(s)
    PROVE  IInv'
<1>1. pc[s] \in {"renew", "fill"} /\ WithLine(s)
  BY DEF FindToClose, FindMissing, WithLine
<1>2. /\ SaleOK(s) /\ op[s].customer \in Customers /\ product[s] \in Products
      /\ product[s] \in Done(s) \ opening[s]
  BY <1>1, InLine
<1>3. UNCHANGED <<cycle, rows, op, heldProducts, heldRows, left, product, mine, opening>>
  BY DEF FindToClose, FindMissing, tables, memory
<1> DEFINE open == OpenOf(op[s].customer, product[s])
<1>4. \/ pc'[s] = "open" /\ open = {} /\ mine[s][product[s]].projected
      \/ pc'[s] = "cycle" /\ (mine[s][product[s]].projected => pc[s] = "fill" /\ open # {})
      \/ pc'[s] = "close" /\ found'[s] \in open
  <2>1. CASE FindToClose(s)
    BY <2>1 DEF FindToClose, AfterClosing, IInv, TypeOK
  <2>2. CASE FindMissing(s)
    <3>1. mine[s][product[s]].projected
      BY <1>2, <2>2 DEF FindMissing, SaleOK, LeavesSettled
    <3>. QED
      BY <2>2, <3>1 DEF FindMissing, IInv, TypeOK
  <2>. QED
    BY <2>1, <2>2
<1>5. TypeOK'
  <2>1. CASE FindToClose(s)
    <3>1. \A i \in open : i \in Nat
      BY RowTypes DEF OpenOf, IInv
    <3>2. CASE open = {}
      BY <2>1, <3>2 DEF FindToClose, AfterClosing, IInv, TypeOK, tables, Labels
    <3>3. CASE open # {}
      <4>1. PICK i \in open :
               /\ pc' = [pc EXCEPT ![s] = "close"]
               /\ found' = [found EXCEPT ![s] = i]
               /\ asPending' = [asPending EXCEPT ![s] =
                                  IF rows[i].sync = "pending" THEN @ \cup {i} ELSE @]
        BY <2>1, <3>3 DEF FindToClose
      <4>. QED
        BY <2>1, <3>1, <4>1 DEF FindToClose, IInv, TypeOK, tables, Labels
    <3>. QED
      BY <3>2, <3>3
  <2>2. CASE FindMissing(s)
    BY <2>2 DEF FindMissing, IInv, TypeOK, tables, memory, Labels
  <2>. QED
    BY <2>1, <2>2
<1>6. SessionOK(s)' /\ HoldsOK(s)' /\ GoesForward(s)'
  <2>1. /\ pc'[s] \in {"close", "open", "cycle"}
        /\ UNCHANGED <<cycle, rows, op[s], heldProducts[s], left[s], product[s], mine[s]>>
        /\ opening'[s] = opening[s] /\ heldRows'[s] = heldRows[s]
    BY <1>3, <1>4
  <2>. QED
    BY <1>1, <2>1, SameLine
<1>7. ClosesWhatIsOpen(s)'
  BY <1>2, <1>3 DEF SaleOK, ClosesWhatIsOpen, OpenOf, IsOpen
<1>8. FoundOK(s)'
  BY <1>3, <1>4 DEF FoundOK, OpenOf, IsOpen, OfPair
<1>9. LeavesSettled(s)'
  <2>1. pc'[s] \in {"fill", "open"} => mine'[s][product'[s]].projected
    BY <1>3, <1>4
  <2>2. ASSUME NEW q \in Done(s) \ opening[s], WithLine(s)' => q # product[s],
               mine[s][q].projected
        PROVE  Settled(op[s].customer, q) /\ \A i \in heldRows[s] : rows[i].product # q
    <3>1. CASE q # product[s]
      BY <1>1, <1>2, <2>2, <3>1 DEF SaleOK, LeavesSettled, WithLine
    <3>2. CASE q = product[s]
      <4>1. pc[s] = "fill" /\ open # {}
        BY <1>4, <2>2, <3>2 DEF WithLine
      <4>2. Settled(op[s].customer, q)
        BY <1>2, <3>2, <4>1 DEF IInv, OpenIsLatest, Settled, OpenOf, OfPair, IsOpen
      <4>. QED
        BY <1>2, <3>2, <4>1, <4>2 DEF SaleOK, HoldsOK
    <3>. QED
      BY <3>1, <3>2
  <2>3. \A q : Settled(op[s].customer, q)' <=> Settled(op[s].customer, q)
    BY <1>3 DEF Settled, OfPair
  <2>. QED
    BY <1>3, <2>1, <2>2, <2>3 DEF LeavesSettled, Done
<1>10. \A t \in Sessions \ {s} : Untouched(t)
  BY <1>3 DEF FindToClose, FindMissing, memory, IInv, TypeOK, Untouched
<1>11. \A t \in Sessions \ {s} : /\ heldProducts'[s] \cap heldProducts[t] = {}
                                 /\ heldRows'[s] \cap heldRows[t] = {}
  BY <1>3 DEF IInv, LocksOK
<1>. QED
  BY <1>3, <1>5, <1>6, <1>7, <1>8, <1>9, <1>10, <1>11, Frame DEF SaleOK

LEMMA CloseStep ==
    ASSUME IInv, NEW s \in Sessions, Close(s)
    PROVE  IInv'
<1>1. pc[s] = "close" /\ WithLine(s)
  BY DEF Close, WithLine
<1>2. /\ SaleOK(s) /\ product[s] \in Products /\ product[s] \in Done(s) \ opening[s]
  BY <1>1, InLine
<1>3. UNCHANGED <<cycle, rows, op, heldProducts, left, product, mine, found, opening>>
  BY DEF Close, tables, memory
<1>4. /\ heldRows'[s] = heldRows[s] \cup {found[s]}
      /\ pc'[s] = IF mine[s][product[s]].projected THEN "open" ELSE "cycle"
  BY DEF Close, AfterClosing, IInv, TypeOK
<1>5. found[s] \in OfPair(op[s].customer, product[s])
  BY <1>1, <1>2 DEF SaleOK, FoundOK
<1>6. TypeOK'
  BY DEF Close, AfterClosing, IInv, TypeOK, tables, memory, Labels
<1>7. SessionOK(s)' /\ HoldsOK(s)' /\ GoesForward(s)'
  <2>1. /\ pc'[s] \in {"close", "open", "cycle"}
        /\ UNCHANGED <<cycle, rows, op[s], heldProducts[s], left[s], product[s], mine[s]>>
        /\ opening'[s] = opening[s]
    BY <1>3, <1>4
  <2>. QED
    BY <1>1, <1>4, <1>5, <2>1, SameLine
<1>8. ClosesWhatIsOpen(s)'
  BY <1>2, <1>3, <1>4 DEF SaleOK, ClosesWhatIsOpen, OpenOf, IsOpen
<1>9. FoundOK(s)'
  BY <1>1, <1>2, <1>3, <1>4 DEF SaleOK, FoundOK, OpenOf, IsOpen, OfPair
<1>10. LeavesSettled(s)'
  <2>1. ASSUME NEW q \in Done(s) \ opening[s], WithLine(s)' => q # product[s],
               mine[s][q].projected
        PROVE  /\ Settled(op[s].customer, q)'
               /\ \A i \in heldRows[s] \cup {found[s]} : rows[i].product # q
    <3>1. q # product[s]
      BY <1>4, <2>1 DEF WithLine
    <3>2. Settled(op[s].customer, q) /\ \A i \in heldRows[s] : rows[i].product # q
      BY <1>1, <1>2, <2>1, <3>1 DEF SaleOK, LeavesSettled, WithLine
    <3>. QED
      BY <1>3, <1>5, <3>1, <3>2 DEF Settled, OfPair
  <2>. QED
    BY <1>3, <1>4, <2>1 DEF LeavesSettled, Done
<1>11. \A t \in Sessions \ {s} : Untouched(t)
  BY <1>3 DEF Close, IInv, TypeOK, Untouched
<1>12. \A t \in Sessions \ {s} : /\ heldProducts'[s] \cap heldProducts[t] = {}
                                 /\ heldRows'[s] \cap heldRows[t] = {}
  BY <1>3, <1>4 DEF Close, RowFree, IInv, LocksOK
<1>. QED
  BY <1>3, <1>6, <1>7, <1>8, <1>9, <1>10, <1>11, <1>12, Frame DEF SaleOK

LEMMA OpenStep ==
    ASSUME IInv, NEW s \in Sessions, Open(s)
    PROVE  IInv'
<1>1. pc[s] = "open" /\ WithLine(s)
  BY DEF Open, WithLine
<1>2. /\ SaleOK(s) /\ product[s] \in Products /\ product[s] \in Done(s) \ opening[s]
  BY <1>1, InLine
<1>3. UNCHANGED <<cycle, rows, op, heldProducts, heldRows, left, product, mine, found>>
  BY DEF Open, tables
<1>4. opening'[s] = opening[s] \cup {product[s]} /\ pc'[s] = "cycle"
  BY DEF Open, IInv, TypeOK
<1>5. OpenOf(op[s].customer, product[s]) \subseteq heldRows[s]
  BY DEF Open, Taken
<1>6. TypeOK'
  BY <1>2 DEF Open, IInv, TypeOK, tables, Labels
<1>7. SessionOK(s)' /\ HoldsOK(s)' /\ GoesForward(s)'
  BY <1>1, <1>3, <1>4, SameLine
<1>8. ClosesWhatIsOpen(s)'
  BY <1>2, <1>3, <1>4, <1>5 DEF SaleOK, ClosesWhatIsOpen, OpenOf, IsOpen
<1>9. FoundOK(s)'
  BY <1>4 DEF FoundOK
<1>10. LeavesSettled(s)'
  <2>1. ASSUME NEW q \in Done(s) \ opening[s], q # product[s], mine[s][q].projected
        PROVE  Settled(op[s].customer, q)' /\ \A i \in heldRows[s] : rows[i].product # q
    <3>1. Settled(op[s].customer, q) /\ \A i \in heldRows[s] : rows[i].product # q
      BY <1>1, <1>2, <2>1 DEF SaleOK, LeavesSettled, WithLine
    <3>. QED
      BY <1>3, <3>1 DEF Settled, OfPair
  <2>. QED
    BY <1>3, <1>4, <2>1 DEF LeavesSettled, Done
<1>11. \A t \in Sessions \ {s} : Untouched(t)
  BY <1>3 DEF Open, IInv, TypeOK, Untouched
<1>12. \A t \in Sessions \ {s} : /\ heldProducts'[s] \cap heldProducts[t] = {}
                                 /\ heldRows'[s] \cap heldRows[t] = {}
  BY <1>3 DEF IInv, LocksOK
<1>. QED
  BY <1>3, <1>6, <1>7, <1>8, <1>9, <1>10, <1>11, <1>12, Frame DEF SaleOK

----------------------------------------------------------------------------
(* The commits.                                                            *)

\* What is left to prove of a commit of s.
LEMMA Committed ==
    ASSUME IInv, NEW s \in Sessions, EndedAt(s, "notify"), TypeOK', DOMAIN rows \subseteq DOMAIN rows',
           OpenIsLatest', Followed',
           \A t \in Sessions \ {s} : InSale(t) => SaleOK(t)'
    PROVE  IInv'
<1>1. /\ SessionOK(s)' /\ ~InSale(s)'
      /\ heldProducts'[s] = {} /\ heldRows'[s] = {}
      /\ \A t \in Sessions \ {s} : Untouched(t)
  BY Ending
<1>2. SessionsOK'
  <2> SUFFICES ASSUME NEW t \in Sessions, t # s PROVE SessionOK(t)'
    BY <1>1 DEF SessionsOK
  <2>. QED
    BY <1>1 DEF IInv, SessionsOK, SessionOK, Untouched, InSale
<1>3. LocksOK'
  BY <1>1 DEF IInv, LocksOK, Untouched
<1>4. SalesOK'
  <2> SUFFICES ASSUME NEW t \in Sessions, t # s, InSale(t)' PROVE SaleOK(t)'
    BY <1>1 DEF SalesOK
  <2>. QED
    BY <1>1 DEF Untouched, InSale
<1>. QED
  BY <1>2, <1>3, <1>4 DEF IInv

\* What has to be shown of another sale t after a commit: it holds no more and
\* no less than before.
LEMMA SaleAfter ==
    ASSUME IInv, NEW t \in Sessions, InSale(t), Untouched(t),
           DOMAIN rows \subseteq DOMAIN rows',
           \A j \in DOMAIN rows : /\ rows'[j].customer = rows[j].customer
                                  /\ rows'[j].product = rows[j].product,
           NEW c \in Customers, c = op[t].customer,
           \A p \in Done(t) : /\ cycle'[<<c, p>>] = cycle[<<c, p>>]
                              /\ Settled(c, p) => Settled(c, p)'
                              /\ p \in opening[t] => OpenOf(c, p)' = OpenOf(c, p),
           FoundOK(t)'
    PROVE  SaleOK(t)'
<1>1. SaleOK(t) /\ Done(t)' = Done(t) /\ op[t]' = op[t]
  BY DEF IInv, SalesOK, Done, Untouched
<1>2. HoldsOK(t)'
  BY <1>1 DEF SaleOK, HoldsOK, Untouched, WithLine
<1>3. opening[t] \subseteq Done(t)
  BY <1>1 DEF SaleOK, HoldsOK
<1>4. GoesForward(t)'
  BY <1>1 DEF SaleOK, GoesForward, Untouched
<1>5. ClosesWhatIsOpen(t)'
  <2>1. \A p \in opening[t] : OpenOf(c, p)' \subseteq heldRows[t]
    BY <1>1, <1>3 DEF SaleOK, ClosesWhatIsOpen
  <2>. QED
    BY <1>1, <2>1 DEF ClosesWhatIsOpen, Untouched, OpenOf, IsOpen
<1>6. LeavesSettled(t)'
  <2>1. \A p \in Done(t) : Settled(op[t].customer, p) => Settled(op[t].customer, p)'
    <3>1. \A p : Settled(op[t].customer, p)' <=> Settled(c, p)'
      BY <1>1 DEF Settled, OfPair
    <3>. QED
      BY <3>1
  <2>2. heldRows[t] \subseteq DOMAIN rows
    BY <1>1 DEF SaleOK, HoldsOK
  <2>3. \A i \in heldRows[t] : rows'[i].product = rows[i].product
    BY <2>2
  <2>. QED
    BY <1>1, <2>1, <2>3 DEF SaleOK, LeavesSettled, Untouched, WithLine
<1>. QED
  BY <1>2, <1>4, <1>5, <1>6 DEF SaleOK

\* What it found is as it was, if the pair of its line is.
LEMMA FoundAfter ==
    ASSUME NEW t \in Sessions, FoundOK(t), Untouched(t),
           NEW c, c = op[t].customer, NEW p, p = product[t],
           OfPair(c, p)' = OfPair(c, p),
           \A j \in OfPair(c, p) : rows'[j].closeReason = rows[j].closeReason
    PROVE  FoundOK(t)'
<1>1. OpenOf(c, p)' = OpenOf(c, p)
  BY SamePair
<1>2. OpenOf(op[t].customer, product[t])' = OpenOf(c, p)'
  BY DEF OpenOf, IsOpen, Untouched
<1>3. OfPair(op[t].customer, product[t])' = OfPair(c, p)'
  BY DEF OfPair, Untouched
<1>. QED
  BY <1>1, <1>2, <1>3 DEF FoundOK, IsOpen, Untouched

\* A sale closes and opens follow-ups of its own lines only.
LEMMA SoldElsewhere ==
    ASSUME IInv, NEW s \in Sessions, CommitSale(s), NEW c \in Customers, NEW p \in Products,
           c # op[s].customer \/ p \notin opening[s],
           \A i \in heldRows[s] : rows[i].customer # c \/ rows[i].product # p
    PROVE  /\ OfPair(c, p)' = OfPair(c, p)
           /\ \A j \in OfPair(c, p) : rows'[j].closeReason = rows[j].closeReason
<1>1. op[s].kind = "sale" /\ HoldsOK(s)
  BY DEF CommitSale, IInv, SessionsOK, SessionOK, SalesOK, SaleOK, InSale
<1>2. /\ DOMAIN rows \subseteq DOMAIN rows'
      /\ \A i \in DOMAIN rows :
            /\ rows'[i].customer = rows[i].customer /\ rows'[i].product = rows[i].product
            /\ rows'[i].closeReason = IF i \in heldRows[s] THEN "sale" ELSE rows[i].closeReason
      /\ \A i \in DOMAIN rows' \ DOMAIN rows :
            rows'[i].customer = op[s].customer /\ rows'[i].product \in opening[s]
  <2>1. TypeOK
    BY DEF IInv
  <2>. QED
    BY <1>1, <2>1, SoldRows
<1>. QED
  BY <1>2 DEF OfPair

LEMMA CommitSaleStep ==
    ASSUME IInv, NEW s \in Sessions, CommitSale(s)
    PROVE  IInv'
<1>1. pc[s] = "cycle" /\ left[s] = {} /\ EndedAt(s, "notify")
  BY DEF CommitSale
<1>2. op[s].kind = "sale" /\ SaleOK(s)
  BY <1>1 DEF IInv, SessionsOK, SessionOK, SalesOK, InSale
<1> PICK c \in Customers : c = op[s].customer
  BY <1>2, Fields DEF IInv
<1>3. /\ op[s].products \subseteq Products /\ op[s].date \in Dates
      /\ Done(s) = op[s].products /\ opening[s] \subseteq op[s].products
      /\ op[s].products \subseteq heldProducts[s]
  BY <1>1, <1>2, Fields DEF IInv, Done, SaleOK, HoldsOK
<1>4. cycle' = [cp \in Customers \X Products |->
                   IF cp[1] = c /\ cp[2] \in op[s].products THEN mine[s][cp[2]] ELSE cycle[cp]]
  BY DEF CommitSale
<1>5. /\ rows' \in Seq(FollowUp)
      /\ DOMAIN rows \subseteq DOMAIN rows' /\ \A i \in DOMAIN rows' : i \in Nat
      /\ \A i \in DOMAIN rows :
            /\ rows'[i].customer = rows[i].customer /\ rows'[i].product = rows[i].product
            /\ rows'[i].closeReason = IF i \in heldRows[s] THEN "sale" ELSE rows[i].closeReason
      /\ \A i \in DOMAIN rows' \ DOMAIN rows :
            /\ i > Len(rows) /\ rows'[i].customer = c /\ rows'[i].product \in opening[s]
            /\ rows'[i].closeReason = "none"
      /\ \A p \in opening[s] : \E i \in DOMAIN rows' \ DOMAIN rows : rows'[i].product = p
      /\ \A i, j \in DOMAIN rows' \ DOMAIN rows : rows'[i].product = rows'[j].product => i = j
  BY <1>2, SoldRows DEF IInv, SaleOK
<1>6. \A i \in heldRows[s] : rows[i].customer = c /\ rows[i].product \in op[s].products
  BY <1>2, <1>3 DEF SaleOK, HoldsOK
<1>7. TypeOK'
  <2>1. sales' \in Seq(Sale)
    <3>1. [customer |-> c, products |-> op[s].products, date |-> op[s].date] \in Sale
      BY <1>3 DEF Sale
    <3>. QED
      BY <3>1 DEF CommitSale, IInv, TypeOK
  <2>2. cycle' \in [Customers \X Products -> Cycle]
    BY <1>3, <1>4 DEF IInv, TypeOK
  <2>3. wake' \in BOOLEAN
    BY DEF CommitSale, IInv, TypeOK
  <2>. QED
    BY <1>1, <1>5, <2>1, <2>2, <2>3, EndedTypes DEF IInv
<1>8. ASSUME NEW p \in opening[s]
      PROVE  \E m \in OfPair(c, p)' : /\ OpenOf(c, p)' = {m} /\ rows'[m].closeReason = "none"
                                      /\ \A j \in OfPair(c, p)' : j <= m
  <2>1. PICK m \in DOMAIN rows' \ DOMAIN rows : rows'[m].product = p
    BY <1>5
  <2>2. m \in OfPair(c, p)' /\ rows'[m].closeReason = "none"
    BY <1>5, <2>1 DEF OfPair
  <2>3. ASSUME NEW j \in OfPair(c, p)', j # m
        PROVE  j <= m /\ rows'[j].closeReason # "none"
    <3>1. j \in DOMAIN rows' /\ rows'[j].customer = c /\ rows'[j].product = p
      BY <2>3 DEF OfPair
    <3>2. j \in DOMAIN rows
      BY <1>5, <2>1, <2>3, <3>1
    <3>3. j <= m
      BY <1>5, <2>1, <3>2, RowTypes DEF IInv
    <3>4. CASE rows[j].closeReason = "none"
      <4>1. j \in OpenOf(c, p)
        BY <1>5, <3>1, <3>2, <3>4 DEF OpenOf, IsOpen
      <4>2. j \in heldRows[s]
        BY <1>2, <4>1 DEF SaleOK, ClosesWhatIsOpen
      <4>. QED
        BY <1>5, <3>2, <3>3, <4>2
    <3>5. CASE rows[j].closeReason # "none"
      BY <1>5, <3>2, <3>3, <3>5
    <3>. QED
      BY <3>4, <3>5
  <2>4. m <= m
    BY <1>5, <2>1
  <2>5. OpenOf(c, p)' = {m}
    BY <2>2, <2>3 DEF OpenOf, OfPair, IsOpen
  <2>. QED
    BY <2>2, <2>3, <2>4, <2>5
<1>9. OpenIsLatest'
  <2> SUFFICES ASSUME NEW c0 \in Customers, NEW p \in Products,
                      NEW i \in OpenOf(c0, p)', NEW j \in OfPair(c0, p)'
               PROVE  j <= i
    BY DEF OpenIsLatest
  <2>1. CASE c0 = c /\ p \in opening[s]
    BY <1>8, <2>1
  <2>2. CASE c0 # c \/ p \notin opening[s]
    <3>1. i \in DOMAIN rows /\ j \in DOMAIN rows
      BY <1>5, <2>2 DEF OpenOf, OfPair
    <3>2. i \in OpenOf(c0, p) /\ j \in OfPair(c0, p)
      BY <1>5, <3>1 DEF OpenOf, OfPair, IsOpen
    <3>. QED
      BY <3>2 DEF IInv, OpenIsLatest
  <2>. QED
    BY <2>1, <2>2
<1>10. Followed'
  <2> SUFFICES ASSUME NEW c0 \in Customers, NEW p \in Products, cycle'[<<c0, p>>].projected
               PROVE  Settled(c0, p)'
    BY DEF Followed
  <2>1. CASE c0 = c /\ p \in opening[s]
    BY <1>8, <2>1 DEF Settled
  <2>2. CASE ~(c0 = c /\ p \in opening[s])
    <3>1. /\ Settled(c0, p)
          /\ \A i \in heldRows[s] : rows[i].customer # c0 \/ rows[i].product # p
      <4>1. CASE c0 = c /\ p \in op[s].products
        <5>1. p \in Done(s) \ opening[s] /\ mine[s][p].projected
          BY <1>3, <1>4, <2>2, <4>1
        <5>. QED
          BY <1>1, <1>2, <4>1, <5>1 DEF SaleOK, LeavesSettled, WithLine
      <4>2. CASE ~(c0 = c /\ p \in op[s].products)
        <5>1. cycle[<<c0, p>>].projected
          BY <1>4, <4>2
        <5>. QED
          BY <1>6, <4>2, <5>1 DEF IInv, Followed
      <4>. QED
        BY <4>1, <4>2
    <3>2. /\ OfPair(c0, p)' = OfPair(c0, p)
          /\ \A j \in OfPair(c0, p) : rows'[j].closeReason = rows[j].closeReason
      BY <2>2, <3>1, SoldElsewhere
    <3>. QED
      BY <3>1, <3>2, SamePair
  <2>. QED
    BY <2>1, <2>2
<1>11. ASSUME NEW t \in Sessions \ {s}, InSale(t) PROVE SaleOK(t)'
  <2>1. Untouched(t)
    BY <1>1, Ending
  <2>2. Done(t) \subseteq heldProducts[t] /\ Done(t) \subseteq Products
    <3>1. HoldsOK(t) /\ op[t].kind = "sale"
      BY <1>11 DEF IInv, SalesOK, SaleOK, SessionsOK, SessionOK
    <3>. QED
      BY <3>1, Fields DEF HoldsOK, Done, IInv
  <2>3. Done(t) \cap op[s].products = {}
    BY <1>3, <2>2 DEF IInv, LocksOK
  <2>4. PICK c0 \in Customers : c0 = op[t].customer
    <3>1. op[t].kind = "sale"
      BY <1>11 DEF IInv, SessionsOK, SessionOK
    <3>. QED
      BY <3>1, Fields DEF IInv
  <2>5. ASSUME NEW p \in Done(t)
        PROVE  /\ cycle'[<<c0, p>>] = cycle[<<c0, p>>]
               /\ OfPair(c0, p)' = OfPair(c0, p)
               /\ \A j \in OfPair(c0, p) : rows'[j].closeReason = rows[j].closeReason
    <3>1. p \in Products /\ p \notin op[s].products
      BY <2>2, <2>3
    <3>2. cycle'[<<c0, p>>] = cycle[<<c0, p>>]
      BY <1>4, <3>1
    <3>3. p \notin opening[s] /\ \A i \in heldRows[s] : rows[i].product # p
      BY <1>3, <1>6, <3>1
    <3>. QED
      BY <3>1, <3>2, <3>3, SoldElsewhere
  <2>6. FoundOK(t)'
    <3> SUFFICES ASSUME WithLine(t) PROVE FoundOK(t)'
      BY <2>1 DEF FoundOK, WithLine, Untouched
    <3>1. PICK p \in Done(t) : p = product[t]
      BY <1>11 DEF IInv, SalesOK, SaleOK, HoldsOK
    <3>. QED
      BY <1>11, <2>1, <2>4, <2>5, <3>1, FoundAfter DEF IInv, SalesOK, SaleOK
  <2>7. \A p \in Done(t) : /\ Settled(c0, p) => Settled(c0, p)'
                           /\ OpenOf(c0, p)' = OpenOf(c0, p)
    BY <2>5, SamePair
  <2>. QED
    BY <1>5, <1>11, <2>1, <2>4, <2>5, <2>6, <2>7, SaleAfter
<1>. QED
  BY <1>1, <1>5, <1>7, <1>9, <1>10, <1>11, Committed

\* A postponement or a dismissal closes one open follow-up; a postponement
\* adds one of the same pair.
LEMMA HandRows ==
    ASSUME IInv, NEW s \in Sessions, Postpone(s) \/ Dismiss(s)
    PROVE  /\ EndedAt(s, "notify") /\ cycle' = cycle /\ TypeOK'
           /\ heldRows[s] = {op[s].row} /\ op[s].row \in DOMAIN rows
           /\ rows[op[s].row].closeReason = "none"
           /\ DOMAIN rows \subseteq DOMAIN rows' /\ \A j \in DOMAIN rows' : j \in Nat
           /\ \A j \in DOMAIN rows :
                 /\ rows'[j].customer = rows[j].customer /\ rows'[j].product = rows[j].product
                 /\ j # op[s].row => rows'[j].closeReason = rows[j].closeReason
           /\ \A j \in DOMAIN rows' \ DOMAIN rows :
                 /\ j = Len(rows) + 1 /\ rows'[j].closeReason = "none"
                 /\ rows'[j].customer = rows[op[s].row].customer
                 /\ rows'[j].product = rows[op[s].row].product
           /\ rows'[op[s].row].closeReason =
                 IF DOMAIN rows' = DOMAIN rows THEN "dismissed" ELSE "postponed"
<1>1. pc[s] = "decide" /\ SessionOK(s)
  BY DEF Postpone, Dismiss, IInv, SessionsOK
<1>2. heldRows[s] = {op[s].row} /\ op[s].row \in DOMAIN rows
  BY <1>1 DEF SessionOK
<1>3. EndedAt(s, "notify") /\ cycle' = cycle /\ UNCHANGED <<sales, wake>> /\ IsOpen(op[s].row)
  BY DEF Postpone, Dismiss
<1>4. Len(rows) \in Nat /\ DOMAIN rows = 1..Len(rows)
  BY RowTypes DEF IInv
<1>5. CASE Postpone(s)
  <2>1. rows' = Postponed(s)
    BY <1>5 DEF Postpone
  <2>2. /\ rows' \in Seq(FollowUp)
        /\ DOMAIN rows' = 1..(Len(rows) + 1)
        /\ rows'[op[s].row].closeReason = "postponed"
        /\ \A j \in DOMAIN rows : /\ rows'[j].customer = rows[j].customer
                                  /\ rows'[j].product = rows[j].product
                                  /\ j # op[s].row => rows'[j] = rows[j]
        /\ rows'[Len(rows) + 1].customer = rows[op[s].row].customer
        /\ rows'[Len(rows) + 1].product = rows[op[s].row].product
        /\ rows'[Len(rows) + 1].closeReason = "none"
    BY <1>2, <2>1, PostponedRows DEF IInv
  <2>3. /\ Len(rows) + 1 \notin DOMAIN rows /\ Len(rows) + 1 \in DOMAIN rows'
        /\ \A j \in DOMAIN rows' \ DOMAIN rows : j = Len(rows) + 1
        /\ \A j \in DOMAIN rows' : j \in Nat
    BY <1>4, <2>2
  <2>4. DOMAIN rows \subseteq DOMAIN rows' /\ DOMAIN rows' # DOMAIN rows
    <3>1. DOMAIN rows \subseteq DOMAIN rows'
      BY <1>4, <2>2
    <3>. QED
      BY <2>3, <3>1
  <2>5. TypeOK'
    BY <1>3, <2>2, EndedTypes DEF IInv, TypeOK
  <2>6. \A j \in DOMAIN rows' \ DOMAIN rows :
           /\ j = Len(rows) + 1 /\ rows'[j].closeReason = "none"
           /\ rows'[j].customer = rows[op[s].row].customer
           /\ rows'[j].product = rows[op[s].row].product
    BY <2>2, <2>3
  <2>. QED
    BY <1>2, <1>3, <2>2, <2>3, <2>4, <2>5, <2>6 DEF IsOpen
<1>6. CASE Dismiss(s)
  <2>1. rows' = [rows EXCEPT ![op[s].row] = Closed(op[s].row, "dismissed", {})]
    BY <1>6 DEF Dismiss
  <2>2. /\ rows' \in Seq(FollowUp)
        /\ DOMAIN rows' = DOMAIN rows
        /\ rows'[op[s].row].closeReason = "dismissed"
        /\ \A j \in DOMAIN rows : /\ rows'[j].customer = rows[j].customer
                                  /\ rows'[j].product = rows[j].product
                                  /\ j # op[s].row => rows'[j] = rows[j]
    BY <1>2, <2>1, DismissedRows DEF IInv
  <2>3. TypeOK'
    BY <1>3, <2>2, EndedTypes DEF IInv, TypeOK
  <2>. QED
    BY <1>2, <1>3, <1>4, <2>2, <2>3 DEF IsOpen
<1>. QED
  BY <1>5, <1>6

\* Nothing happens to the other pairs.
LEMMA HandElsewhere ==
    ASSUME IInv, NEW s \in Sessions, Postpone(s) \/ Dismiss(s), NEW c, NEW p,
           op[s].row \notin OfPair(c, p)
    PROVE  /\ OfPair(c, p)' = OfPair(c, p)
           /\ \A j \in OfPair(c, p) : rows'[j].closeReason = rows[j].closeReason
BY HandRows DEF OfPair

\* What happens to the pair: the row in hand was its last one.
LEMMA HandHere ==
    ASSUME IInv, NEW s \in Sessions, Postpone(s) \/ Dismiss(s),
           NEW c \in Customers, NEW p \in Products, op[s].row \in OfPair(c, p)
    PROVE  /\ OfPair(c, p) \subseteq OfPair(c, p)' /\ Settled(c, p)'
           /\ OpenOf(c, p) = {op[s].row}
           /\ \A i \in OpenOf(c, p)' : /\ \A j \in OfPair(c, p)' : j <= i
                                       /\ rows'[op[s].row].closeReason = "postponed"
<1> PICK i \in DOMAIN rows : i = op[s].row
  BY HandRows
<1>1. /\ DOMAIN rows \subseteq DOMAIN rows' /\ \A j \in DOMAIN rows' : j \in Nat
      /\ \A j \in DOMAIN rows :
            /\ rows'[j].customer = rows[j].customer /\ rows'[j].product = rows[j].product
            /\ j # i => rows'[j].closeReason = rows[j].closeReason
      /\ \A j \in DOMAIN rows' \ DOMAIN rows :
            j = Len(rows) + 1 /\ rows'[j].closeReason = "none"
      /\ rows'[i].closeReason = IF DOMAIN rows' = DOMAIN rows THEN "dismissed" ELSE "postponed"
      /\ rows[i].closeReason = "none"
  BY HandRows
<1>2. \A j \in DOMAIN rows' \ DOMAIN rows : rows'[j].customer = c /\ rows'[j].product = p
  BY HandRows DEF OfPair
<1>3. i \in OpenOf(c, p)
  BY <1>1 DEF OpenOf, OfPair, IsOpen
<1>4. OpenOf(c, p) = {i}
  BY <1>3, Unique DEF IInv
<1>5. \A j \in OfPair(c, p) : j <= i
  BY <1>3 DEF IInv, OpenIsLatest
<1>6. OfPair(c, p) \subseteq OfPair(c, p)'
  BY <1>1 DEF OfPair
<1>7. Len(rows) \in Nat /\ DOMAIN rows = 1..Len(rows)
  BY RowTypes DEF IInv
<1>8. CASE DOMAIN rows' = DOMAIN rows
  <2>1. OfPair(c, p)' = OfPair(c, p)
    BY <1>1, <1>8 DEF OfPair
  <2>2. OpenOf(c, p)' = {}
    <3> SUFFICES ASSUME NEW j \in OpenOf(c, p)' PROVE FALSE
      OBVIOUS
    <3>1. j \in DOMAIN rows /\ j # i
      BY <1>1, <1>8 DEF OpenOf, IsOpen
    <3>2. j \in OpenOf(c, p)
      BY <1>1, <3>1 DEF OpenOf, IsOpen
    <3>. QED
      BY <1>4, <3>1, <3>2
  <2>3. Settled(c, p)'
    BY <1>1, <1>5, <1>8, <2>1 DEF Settled
  <2>. QED
    BY <1>4, <1>6, <2>2, <2>3
<1>9. CASE DOMAIN rows' # DOMAIN rows
  <2>1. PICK n \in DOMAIN rows' \ DOMAIN rows : n = Len(rows) + 1
    BY <1>1, <1>9
  <2>2. \A j \in OfPair(c, p)' : j <= n
    BY <1>1, <1>7, <2>1 DEF OfPair
  <2>3. n \in OfPair(c, p)' /\ rows'[n].closeReason = "none"
    BY <1>1, <1>2 DEF OfPair
  <2>4. \A j \in OpenOf(c, p)' : j = n
    <3> SUFFICES ASSUME NEW j \in OpenOf(c, p)', j \in DOMAIN rows PROVE FALSE
      BY <1>1, <2>1 DEF OpenOf
    <3>1. j # i
      BY <1>1, <1>9 DEF OpenOf, IsOpen
    <3>2. j \in OpenOf(c, p)
      BY <1>1, <3>1 DEF OpenOf, IsOpen
    <3>. QED
      BY <1>4, <3>1, <3>2
  <2>5. Settled(c, p)'
    BY <2>2, <2>3 DEF Settled
  <2>. QED
    BY <1>1, <1>4, <1>6, <1>9, <2>2, <2>4, <2>5
<1>. QED
  BY <1>8, <1>9

LEMMA HandStep ==
    ASSUME IInv, NEW s \in Sessions, Postpone(s) \/ Dismiss(s)
    PROVE  IInv'
<1> DEFINE row == op[s].row
<1>1. /\ EndedAt(s, "notify") /\ cycle' = cycle /\ TypeOK'
      /\ heldRows[s] = {row} /\ rows[row].closeReason = "none"
      /\ DOMAIN rows \subseteq DOMAIN rows'
      /\ \A j \in DOMAIN rows :
            /\ rows'[j].customer = rows[j].customer /\ rows'[j].product = rows[j].product
            /\ j # row => rows'[j].closeReason = rows[j].closeReason
  BY HandRows
<1>2. OpenIsLatest'
  <2> SUFFICES ASSUME NEW c \in Customers, NEW p \in Products,
                      NEW i \in OpenOf(c, p)', NEW j \in OfPair(c, p)'
               PROVE  j <= i
    BY DEF OpenIsLatest
  <2>1. CASE row \in OfPair(c, p)
    BY <2>1, HandHere
  <2>2. CASE row \notin OfPair(c, p)
    <3>1. /\ OfPair(c, p)' = OfPair(c, p)
          /\ \A k \in OfPair(c, p) : rows'[k].closeReason = rows[k].closeReason
      BY <2>2, HandElsewhere
    <3>2. OpenOf(c, p)' = OpenOf(c, p)
      BY <3>1, SamePair
    <3>. QED
      BY <3>1, <3>2 DEF IInv, OpenIsLatest
  <2>. QED
    BY <2>1, <2>2
<1>3. ASSUME NEW c \in Customers, NEW p \in Products, Settled(c, p) PROVE Settled(c, p)'
  <2>1. CASE row \in OfPair(c, p)
    BY <2>1, HandHere
  <2>2. CASE row \notin OfPair(c, p)
    BY <1>3, <2>2, HandElsewhere, SamePair
  <2>. QED
    BY <2>1, <2>2
<1>4. Followed'
  BY <1>1, <1>3 DEF IInv, Followed
<1>5. ASSUME NEW t \in Sessions \ {s}, InSale(t) PROVE SaleOK(t)'
  <2>1. Untouched(t)
    BY <1>1, Ending
  <2>2. SaleOK(t) /\ op[t].kind = "sale" /\ row \notin heldRows[t]
    BY <1>1, <1>5 DEF IInv, SalesOK, SessionsOK, SessionOK, LocksOK
  <2>3. PICK c \in Customers : c = op[t].customer
    BY <2>2, Fields DEF IInv
  <2>4. Done(t) \subseteq Products /\ op[t].products \subseteq Products
    BY <2>2, Fields DEF Done, IInv
  <2>5. ASSUME NEW p \in opening[t] PROVE OpenOf(c, p)' = OpenOf(c, p)
    <3>1. OpenOf(c, p) \subseteq heldRows[t] /\ p \in Products
      BY <2>2, <2>3, <2>4 DEF SaleOK, ClosesWhatIsOpen, HoldsOK
    <3>2. row \notin OfPair(c, p)
      BY <2>2, <3>1, HandHere
    <3>. QED
      BY <3>2, HandElsewhere, SamePair
  <2>6. FoundOK(t)'
    <3> SUFFICES ASSUME WithLine(t) PROVE FoundOK(t)'
      BY <2>1 DEF FoundOK, WithLine, Untouched
    <3>1. PICK p \in Products : p = product[t]
      BY <2>2, <2>4 DEF SaleOK, HoldsOK
    <3>2. CASE row \notin OfPair(c, p)
      BY <2>1, <2>2, <2>3, <3>1, <3>2, HandElsewhere, FoundAfter DEF SaleOK
    <3>3. CASE row \in OfPair(c, p)
      <4>1. /\ OfPair(c, p) \subseteq OfPair(c, p)' /\ OpenOf(c, p) = {row}
            /\ OpenOf(c, p)' # {} => rows'[row].closeReason = "postponed"
        BY <3>3, HandHere
      <4>2. pc[t] \in {"close", "open"} =>
               /\ found[t] \in OfPair(c, p)
               /\ IsOpen(found[t]) \/ rows[found[t]].closeReason = "postponed"
               /\ pc[t] = "open" => found[t] \in heldRows[t]
        BY <2>2, <2>3, <3>1, <4>1 DEF SaleOK, FoundOK
      <4>3. pc[t] \in {"close", "open"} /\ found[t] # row =>
               rows'[found[t]].closeReason = "postponed"
        <5>1. \A i \in OfPair(c, p) : IsOpen(i) => i \in OpenOf(c, p)
          BY DEF OpenOf, OfPair
        <5>2. OfPair(c, p) \subseteq DOMAIN rows
          BY DEF OfPair
        <5>. QED
          BY <1>1, <4>1, <4>2, <5>1, <5>2
      <4>4. OpenOf(op[t].customer, product[t])' = OpenOf(c, p)'
        BY <2>1, <2>3, <3>1 DEF OpenOf, IsOpen, Untouched
      <4>5. OfPair(op[t].customer, product[t])' = OfPair(c, p)'
        BY <2>1, <2>3, <3>1 DEF OfPair, Untouched
      <4>6. UNCHANGED <<pc[t], found[t], heldRows[t]>>
        BY <2>1 DEF Untouched
      <4>. QED
        BY <2>2, <4>1, <4>2, <4>3, <4>4, <4>5, <4>6 DEF FoundOK
    <3>. QED
      BY <3>2, <3>3
  <2>. QED
    BY <1>1, <1>3, <1>5, <2>1, <2>3, <2>4, <2>5, <2>6, SaleAfter
<1>. QED
  BY <1>1, <1>2, <1>4, <1>5, Committed

\* A step that changes at most the committed sales and what the thread
\* writes: the sync status of a row, and the wake signal.
LEMMA QuietStep ==
    ASSUME IInv, TypeOK', SameRows, UNCHANGED <<cycle, session>>
    PROVE  IInv'
<1>1. OpenIsLatest' /\ Followed'
  BY SameFollowUps DEF IInv, OpenIsLatest, Followed
<1>2. SessionsOK' /\ LocksOK'
  BY DEF IInv, SessionsOK, SessionOK, LocksOK, InSale, session, memory, SameRows
<1>3. SalesOK'
  <2> SUFFICES ASSUME NEW t \in Sessions, InSale(t)' PROVE SaleOK(t)'
    BY DEF SalesOK
  <2>1. Untouched(t) /\ InSale(t)
    BY DEF Untouched, InSale, session, memory
  <2>. QED
    BY <2>1, OtherSale DEF IInv, SalesOK
<1>. QED
  BY <1>1, <1>2, <1>3 DEF IInv

LEMMA SalesOnly ==
    ASSUME IInv, sales' \in Seq(Sale), UNCHANGED <<cycle, rows, wake, session>>
    PROVE  IInv'
BY QuietStep DEF IInv, TypeOK, session, memory, SameRows

LEMMA EditStep ==
    ASSUME IInv, EditSale
    PROVE  IInv'
<1>1. sales' \in Seq(Sale)
  <2>1. PICK i \in DOMAIN sales, c \in Customers, d \in Dates :
           sales' = [sales EXCEPT ![i].customer = c, ![i].date = d]
    BY DEF EditSale
  <2>2. sales \in Seq(Sale) /\ sales[i] \in Sale
    BY DEF IInv, TypeOK
  <2>3. [sales[i] EXCEPT !.customer = c, !.date = d] \in Sale
    BY <2>2 DEF Sale
  <2>4. sales' = [sales EXCEPT ![i] = [sales[i] EXCEPT !.customer = c, !.date = d]]
    BY <2>1, <2>2
  <2>. QED
    BY <2>2, <2>3, <2>4
<1>. QED
  BY <1>1, SalesOnly DEF EditSale

LEMMA InvStep == IInv /\ [Next]_vars => IInv'
<1> SUFFICES ASSUME IInv, [Next]_vars PROVE IInv'
  OBVIOUS
<1>1. CASE UNCHANGED vars
  BY <1>1, SalesOnly DEF vars, tables, IInv, TypeOK
<1>2. CASE EditSale
  BY <1>2, EditStep
<1>3. ASSUME NEW s \in Sessions,
             BeginSale(s) \/ BeginByHand(s) \/ Step(s) \/ RefreshFails(s) \/ Fail(s)
      PROVE  IInv'
  <2>1. CASE BeginSale(s) \/ BeginByHand(s)
    BY <2>1, BeginStep
  <2>2. CASE TakeStock(s)
    BY <2>2, TakeStockStep
  <2>3. CASE UpdateCycle(s)
    BY <2>3, UpdateCycleStep
  <2>4. CASE FindToClose(s) \/ FindMissing(s)
    BY <2>4, FindStep
  <2>5. CASE Close(s)
    BY <2>5, CloseStep
  <2>6. CASE Open(s)
    BY <2>6, OpenStep
  <2>7. CASE CommitSale(s)
    BY <2>7, CommitSaleStep
  <2>8. CASE LockRow(s)
    BY <2>8, LockRowStep
  <2>9. CASE Postpone(s) \/ Dismiss(s)
    BY <2>9, HandStep
  <2>10. CASE Collide(s) \/ RefuseClosed(s) \/ RefreshFails(s) \/ Fail(s) \/ Notify(s)
    <3>1. EndedAt(s, "idle") /\ UNCHANGED tables /\ wake' \in BOOLEAN
      BY <2>10 DEF Collide, RefuseClosed, RefreshFails, Fail, Notify, Rollback, IInv, TypeOK
    <3>. QED
      BY <3>1, EndStep
  <2>. QED
    BY <1>3, <2>1, <2>2, <2>3, <2>4, <2>5, <2>6, <2>7, <2>8, <2>9, <2>10 DEF Step
<1>. QED
  BY <1>1, <1>2, <1>3 DEF Next

\* The inductive invariant holds in every state.
THEOREM InvHolds == Spec => []IInv
<1>. QED
  BY InvStart, InvStep, PTL DEF Spec

\* The tables, and what each session remembers of them, keep their types.
THEOREM TypeCorrect == Spec => []TypeOK
<1>1. IInv => TypeOK
  BY DEF IInv
<1>. QED
  BY <1>1, InvHolds, PTL

LEMMA OneOpenHolds == IInv => OneOpenPerPair
<1> SUFFICES ASSUME IInv, NEW c \in Customers, NEW p \in Products
             PROVE  Cardinality(OpenOf(c, p)) <= 1
  BY DEF OneOpenPerPair
<1>1. CASE OpenOf(c, p) = {}
  BY <1>1, FS_EmptySet
<1>2. CASE OpenOf(c, p) # {}
  <2>1. PICK i \in OpenOf(c, p) : TRUE
    BY <1>2
  <2>2. \A j \in OpenOf(c, p) : j = i
    BY Unique DEF IInv
  <2>3. OpenOf(c, p) = {i}
    BY <2>1, <2>2
  <2>4. Cardinality(OpenOf(c, p)) = 1
    BY <2>3, FS_Singleton, Zenon
  <2>. QED
    BY <2>4
<1>. QED
  BY <1>1, <1>2

\* No pair ever has two open follow-ups, although get_open is an unlocked read
\* and a postponement does not look at the index.
THEOREM OneOpen == Spec => []OneOpenPerPair
BY OneOpenHolds, InvHolds, PTL

LEMMA FollowedHolds == IInv => ProjectedIsFollowed
<1> SUFFICES ASSUME IInv, NEW c \in Customers, NEW p \in Products, cycle[<<c, p>>].projected
             PROVE  /\ OfPair(c, p) # {}
                    /\ rows[Max(OfPair(c, p))].closeReason \in {"none", "dismissed"}
  BY DEF ProjectedIsFollowed, OfPair
<1>1. PICK m \in OfPair(c, p) : /\ \A j \in OfPair(c, p) : j <= m
                                /\ rows[m].closeReason \in {"none", "dismissed"}
  BY DEF IInv, Followed, Settled
<1>2. \A j \in OfPair(c, p) : j \in Nat
  BY RowTypes DEF OfPair, IInv
<1>3. Max(OfPair(c, p)) = m
  <2>1. \A j \in OfPair(c, p) : m >= j
    BY <1>1, <1>2
  <2>2. /\ Max(OfPair(c, p)) \in OfPair(c, p)
        /\ \A j \in OfPair(c, p) : Max(OfPair(c, p)) >= j
    BY <2>1 DEF Max
  <2>. QED
    BY <1>2, <2>1, <2>2
<1>. QED
  BY <1>1, <1>3

\* A pair with a projection has a last follow-up that is open, or that a person
\* dismissed: record_purchase and open_if_missing lose no customer.
THEOREM NobodyIsLost == Spec => []ProjectedIsFollowed
BY FollowedHolds, InvHolds, PTL

\* last_purchase_date never goes back: the cycle a sale writes was computed
\* from one that nobody has changed since, for the sale holds the product.
THEOREM PurchasesGoForward == Spec => LastPurchaseGoesForward
<1> DEFINE Forward == \A cp \in Customers \X Products : cycle'[cp].last >= cycle[cp].last
<1>1. IInv /\ [Next]_vars => [Forward]_vars
  <2> SUFFICES ASSUME IInv, Next, NEW cp \in Customers \X Products
               PROVE  cycle'[cp].last >= cycle[cp].last
    OBVIOUS
  <2>1. cycle[cp].last \in Nat
    BY DEF IInv, TypeOK, Cycle
  <2>2. CASE cycle' = cycle
    BY <2>1, <2>2
  <2>3. ASSUME NEW s \in Sessions, CommitSale(s) PROVE cycle'[cp].last >= cycle[cp].last
    <3>1. pc[s] = "cycle" /\ left[s] = {} /\ SaleOK(s)
      BY <2>3 DEF CommitSale, IInv, SalesOK, InSale
    <3>2. cycle'[cp] = IF cp[1] = op[s].customer /\ cp[2] \in op[s].products
                         THEN mine[s][cp[2]] ELSE cycle[cp]
      BY <2>3 DEF CommitSale
    <3>3. CASE cp[1] = op[s].customer /\ cp[2] \in op[s].products
      <4>1. cp[2] \in Done(s) /\ cp = <<op[s].customer, cp[2]>>
        BY <3>1, <3>3 DEF Done
      <4>. QED
        BY <3>1, <3>2, <3>3, <4>1 DEF SaleOK, GoesForward
    <3>4. CASE ~(cp[1] = op[s].customer /\ cp[2] \in op[s].products)
      BY <2>1, <3>2, <3>4
    <3>. QED
      BY <3>3, <3>4
  <2>4. cycle' = cycle \/ \E s \in Sessions : CommitSale(s)
    BY DEF Next, EditSale, Step, BeginSale, BeginByHand, TakeStock, UpdateCycle, FindToClose,
       FindMissing, Close, Open, Collide, LockRow, RefuseClosed, Postpone, Dismiss, Notify,
       RefreshFails, Fail, Rollback, tables
  <2>. QED
    BY <2>2, <2>3, <2>4
<1>. QED
  BY <1>1, InvHolds, PTL DEF Spec, LastPurchaseGoesForward

\* The unique index refuses a sale only if the row it was to close was
\* postponed after it read it: never because of another sale.
THEOREM SalesDoNotCollide == Spec => SalesNeverCollide
<1> DEFINE Postponement == \A s \in Sessions : Collide(s) =>
              found[s] # 0 /\ rows[found[s]].closeReason = "postponed"
<1>1. IInv /\ [Next]_vars => [Postponement]_vars
  <2> SUFFICES ASSUME IInv, NEW s \in Sessions, Collide(s)
               PROVE  found[s] # 0 /\ rows[found[s]].closeReason = "postponed"
    OBVIOUS
  <2>1. pc[s] = "open" /\ WithLine(s)
    BY DEF Collide, WithLine
  <2>2. PICK j \in OpenOf(op[s].customer, product[s]) : j \notin heldRows[s]
    BY DEF Collide, Taken
  <2>3. /\ FoundOK(s) /\ op[s].customer \in Customers /\ product[s] \in Products
    BY <2>1, InLine DEF SaleOK
  <2>4. /\ found[s] \in OfPair(op[s].customer, product[s]) /\ found[s] \in heldRows[s]
        /\ IsOpen(found[s]) \/ rows[found[s]].closeReason = "postponed"
    BY <2>1, <2>2, <2>3 DEF FoundOK
  <2>5. ~IsOpen(found[s])
    <3> SUFFICES ASSUME IsOpen(found[s]) PROVE FALSE
      OBVIOUS
    <3>1. found[s] \in OpenOf(op[s].customer, product[s])
      BY <2>4 DEF OpenOf, OfPair
    <3>2. found[s] = j
      BY <2>2, <2>3, <3>1, Unique DEF IInv
    <3>. QED
      BY <2>2, <2>4, <3>2
  <2>6. found[s] # 0
    BY <2>4, RowTypes DEF OfPair, IInv
  <2>. QED
    BY <2>4, <2>5, <2>6
<1>. QED
  BY <1>1, InvHolds, PTL DEF Spec, SalesNeverCollide

----------------------------------------------------------------------------
(* The mirror.                                                             *)

Sharing == at \in {"call", "write"}

\* What the thread has in hand is left to mirror, and nothing is in hand
\* between two passes.
HandOK ==
    /\ queue \subseteq Unsynced
    /\ current \notin queue
    /\ IF Sharing THEN current \in Unsynced ELSE current = 0
    /\ at \in {"clear", "list", "sleep"} => queue = {}

\* An answer in hand is what the calendar shows; a failed one was noted.
AnswerOK ==
    at = "write" => IF outcome = "synced" THEN seen <=> current \in events ELSE failed

\* Somebody will start another pass.
Awaited == wake \/ failed \/ \E s \in Sessions : pc[s] = "notify"

\* What the pass will not reach, and the row it read too early, has another
\* pass to come.
NothingForgotten ==
    \/ Awaited
    \/ /\ at = "sleep" => Unsynced = {}
       /\ at \in {"take", "call", "write"} => Unsynced \subseteq queue \cup {current}
       /\ Sharing => seen = IsOpen(current)

MInv ==
    /\ IInv
    /\ MirrorTypeOK
    /\ HandOK
    /\ AnswerOK
    /\ HandledRowsAreMirrored
    /\ RefreshMayFail \/ NothingForgotten

\* The invariant holds when the process starts for the first time.
LEMMA MirrorStart == MirrorInit => MInv
<1> SUFFICES ASSUME MirrorInit PROVE MInv
  OBVIOUS
<1>1. IInv
  BY InvStart DEF MirrorInit
<1>2. DOMAIN rows = {} /\ rows = <<>>
  BY DEF MirrorInit, Init
<1>3. 0 \in 0..MaxCrashes
  BY CrashAssumption
<1>. QED
  BY <1>1, <1>2, <1>3 DEF MInv, IInv, MirrorInit, Awake, MirrorTypeOK, HandOK, AnswerOK, Sharing,
     Unsynced, HandledRowsAreMirrored, NothingForgotten

\* What a step of a session does to the rows and to the signals: a row it
\* changes is to be mirrored again, unless a sale closes it, and a step that
\* changes rows is a commit that goes on to request the pass.
LEMMA SessionWrites ==
    ASSUME IInv, NEW s \in Sessions,
           BeginSale(s) \/ BeginByHand(s) \/ Step(s) \/ RefreshFails(s) \/ Fail(s)
    PROVE  /\ DOMAIN rows \subseteq DOMAIN rows'
           /\ \A i \in DOMAIN rows :
                 \/ rows'[i].closeReason = rows[i].closeReason /\ rows'[i].sync = rows[i].sync
                 \/ rows'[i].closeReason = "sale" /\ rows'[i].sync = rows[i].sync
                 \/ rows'[i].sync = "pending"
           /\ \A i \in DOMAIN rows' \ DOMAIN rows : rows'[i].sync = "pending"
           /\ rows' = rows \/ pc'[s] = "notify"
<1>1. CASE CommitSale(s)
  <2>1. op[s].kind = "sale" /\ HoldsOK(s) /\ TypeOK
    BY <1>1 DEF CommitSale, IInv, SessionsOK, SessionOK, SalesOK, SaleOK, InSale
  <2>2. pc'[s] = "notify"
    BY <1>1, <2>1 DEF CommitSale, EndedAt, TypeOK
  <2>3. /\ DOMAIN rows \subseteq DOMAIN rows'
        /\ \A i \in DOMAIN rows :
              /\ rows'[i].closeReason = IF i \in heldRows[s] THEN "sale" ELSE rows[i].closeReason
              /\ rows'[i].sync = rows[i].sync \/ (i \in heldRows[s] /\ rows'[i].sync = "pending")
        /\ \A i \in DOMAIN rows' \ DOMAIN rows : rows'[i].sync = "pending"
    BY <1>1, <2>1, SoldRows
  <2>. QED
    BY <2>2, <2>3
<1>2. CASE Postpone(s) \/ Dismiss(s)
  <2>1. op[s].row \in DOMAIN rows /\ TypeOK
    BY <1>2, HandRows DEF IInv
  <2>2. pc'[s] = "notify"
    BY <1>2, <2>1 DEF Postpone, Dismiss, EndedAt, TypeOK
  <2>3. CASE Postpone(s)
    <3>1. rows' = Postponed(s)
      BY <2>3 DEF Postpone
    <3>2. Len(rows) \in Nat /\ DOMAIN rows = 1..Len(rows)
      BY <2>1, RowTypes
    <3>3. /\ DOMAIN rows' = 1..(Len(rows) + 1)
          /\ rows'[op[s].row].sync = "pending"
          /\ \A j \in DOMAIN rows : j # op[s].row => rows'[j] = rows[j]
          /\ rows'[Len(rows) + 1].sync = "pending"
      BY <2>1, <3>1, PostponedRows
    <3>4. DOMAIN rows \subseteq DOMAIN rows' /\ \A i \in DOMAIN rows' \ DOMAIN rows : i = Len(rows) + 1
      BY <3>2, <3>3
    <3>. QED
      BY <2>2, <3>3, <3>4
  <2>4. CASE Dismiss(s)
    <3>1. rows' = [rows EXCEPT ![op[s].row] = Closed(op[s].row, "dismissed", {})]
      BY <2>4 DEF Dismiss
    <3>2. /\ DOMAIN rows' = DOMAIN rows
          /\ rows'[op[s].row].sync = "pending"
          /\ \A j \in DOMAIN rows : j # op[s].row => rows'[j] = rows[j]
      BY <2>1, <3>1, DismissedRows
    <3>. QED
      BY <2>2, <3>2
  <2>. QED
    BY <1>2, <2>3, <2>4
<1>3. CASE ~(CommitSale(s) \/ Postpone(s) \/ Dismiss(s))
  <2>1. rows' = rows
    BY <1>3 DEF Step, BeginSale, BeginByHand, TakeStock, UpdateCycle, FindToClose, FindMissing,
       Close, Open, Collide, LockRow, RefuseClosed, Notify, RefreshFails, Fail, Rollback, tables
  <2>. QED
    BY <2>1
<1>. QED
  BY <1>1, <1>2, <1>3

\* A session that has committed requests the pass, unless the refresh fails.
LEMMA SessionSignals ==
    ASSUME IInv, NEW s \in Sessions,
           BeginSale(s) \/ BeginByHand(s) \/ Step(s) \/ RefreshFails(s) \/ Fail(s)
    PROVE  /\ wake => wake'
           /\ \A t \in Sessions \ {s} : pc'[t] = pc[t]
           /\ pc[s] = "notify" /\ ~RefreshMayFail => wake'
<1>1. pc \in [Sessions -> Labels] /\ wake \in BOOLEAN
  BY DEF IInv, TypeOK
<1>2. \A t \in Sessions \ {s} : pc'[t] = pc[t]
  BY <1>1 DEF Step, BeginSale, BeginByHand, TakeStock, UpdateCycle, FindToClose, FindMissing,
     Close, Open, Collide, CommitSale, LockRow, RefuseClosed, Postpone, Dismiss, Notify,
     RefreshFails, Fail, Rollback, EndedAt
<1>3. wake' = wake \/ (Notify(s) /\ wake')
  BY DEF Step, BeginSale, BeginByHand, TakeStock, UpdateCycle, FindToClose, FindMissing,
     Close, Open, Collide, CommitSale, LockRow, RefuseClosed, Postpone, Dismiss, Notify,
     RefreshFails, Fail, Rollback
<1>4. ASSUME pc[s] = "notify", ~RefreshMayFail PROVE wake'
  <2>1. Notify(s)
    BY <1>4 DEF Step, BeginSale, BeginByHand, TakeStock, UpdateCycle, FindToClose, FindMissing,
       Close, Open, Collide, CommitSale, LockRow, RefuseClosed, Postpone, Dismiss,
       RefreshFails, Fail
  <2>. QED
    BY <2>1 DEF Notify
<1>. QED
  BY <1>1, <1>2, <1>3, <1>4

\* A session's step beside the thread.
LEMMA BesideThread ==
    ASSUME MInv, NEW s \in Sessions,
           BeginSale(s) \/ BeginByHand(s) \/ Step(s) \/ RefreshFails(s) \/ Fail(s),
           UNCHANGED <<events, worker, crashes>>, IInv'
    PROVE  MInv'
<1> USE DEF worker
<1>1. /\ DOMAIN rows \subseteq DOMAIN rows'
      /\ \A i \in DOMAIN rows :
            \/ rows'[i].closeReason = rows[i].closeReason /\ rows'[i].sync = rows[i].sync
            \/ rows'[i].closeReason = "sale" /\ rows'[i].sync = rows[i].sync
            \/ rows'[i].sync = "pending"
      /\ \A i \in DOMAIN rows' \ DOMAIN rows : rows'[i].sync = "pending"
      /\ rows' = rows \/ pc'[s] = "notify"
  BY SessionWrites DEF MInv
<1>2. MirrorTypeOK'
  BY <1>1 DEF MInv, IInv, MirrorTypeOK
<1>3. Unsynced \subseteq Unsynced'
  BY <1>1 DEF Unsynced
<1>4. HandOK'
  BY <1>3 DEF MInv, HandOK, Sharing
<1>5. AnswerOK'
  BY DEF MInv, AnswerOK
<1>6. HandledRowsAreMirrored'
  <2> SUFFICES ASSUME NEW i \in DOMAIN rows', rows'[i].sync = "synced",
                      rows'[i].closeReason # "sale"
               PROVE  rows'[i].closeReason = "none" <=> i \in events'
    BY DEF HandledRowsAreMirrored, IsOpen
  <2>1. i \in DOMAIN rows
    BY <1>1
  <2>2. rows'[i].closeReason = rows[i].closeReason /\ rows'[i].sync = rows[i].sync
    BY <1>1, <2>1
  <2>. QED
    BY <2>1, <2>2 DEF MInv, HandledRowsAreMirrored, IsOpen
<1>7. ASSUME ~RefreshMayFail PROVE NothingForgotten'
  <2>1. CASE Awaited
    <3>1. /\ wake => wake'
          /\ \A t \in Sessions \ {s} : pc'[t] = pc[t]
          /\ pc[s] = "notify" => wake'
      BY <1>7, SessionSignals DEF MInv
    <3>. QED
      BY <2>1, <3>1 DEF Awaited, NothingForgotten
  <2>2. CASE pc'[s] = "notify"
    BY <2>2 DEF Awaited, NothingForgotten
  <2>3. CASE ~Awaited /\ rows' = rows
    BY <1>7, <2>3 DEF MInv, NothingForgotten, Sharing, Unsynced, IsOpen
  <2>. QED
    BY <1>1, <2>1, <2>2, <2>3
<1>. QED
  BY <1>2, <1>4, <1>5, <1>6, <1>7 DEF MInv

\* A step of the thread that leaves the follow-ups alone, but for the status
\* of a row and the signal.
LEMMA ThreadKept ==
    ASSUME MInv, rows' \in Seq(FollowUp), wake' \in BOOLEAN, SameRows,
           UNCHANGED <<sales, cycle, session>>
    PROVE  IInv'
<1>1. TypeOK'
  BY DEF MInv, IInv, TypeOK, session, memory
<1>. QED
  BY <1>1, QuietStep DEF MInv

\* The thread moves on and writes no table.
LEMMA OnlyMoves ==
    ASSUME MInv, UNCHANGED <<tables, session>>, wake' \in BOOLEAN
    PROVE  IInv'
BY ThreadKept DEF MInv, IInv, TypeOK, tables, SameRows

LEMMA ClearStep ==
    ASSUME MInv, Clear
    PROVE  MInv'
<1>1. IInv'
  BY OnlyMoves DEF Clear
<1>. QED
  BY <1>1 DEF Clear, tables, session, MInv, MirrorTypeOK, IInv, HandOK, AnswerOK, Sharing, Unsynced,
     HandledRowsAreMirrored, IsOpen, NothingForgotten

\* The thread stops for this pass: nothing it had in hand is lost, because
\* nothing is left or because another pass is to come.
LEMMA EndPassKept ==
    ASSUME MInv, IInv', EndPass, UNCHANGED <<rows, pc, wake, events, crashes>>,
           failed' \in BOOLEAN, failed => failed',
           RefreshMayFail \/ failed' \/ Awaited \/ Unsynced = {}
    PROVE  MInv'
<1>1. MirrorTypeOK'
  BY DEF MInv, EndPass, MirrorTypeOK, IInv
<1>2. HandOK' /\ AnswerOK' /\ HandledRowsAreMirrored'
  BY DEF MInv, EndPass, HandOK, AnswerOK, Sharing, HandledRowsAreMirrored, IsOpen
<1>3. RefreshMayFail \/ NothingForgotten'
  BY DEF EndPass, NothingForgotten, Awaited, Unsynced, Sharing
<1>. QED
  BY <1>1, <1>2, <1>3 DEF MInv

\* The thread takes a row that is left to mirror.
LEMMA TakeKept ==
    ASSUME MInv, IInv', NEW rest, rest \subseteq Unsynced, TakeFrom(rest),
           UNCHANGED <<rows, pc, wake, events, failed, crashes>>,
           RefreshMayFail \/ Awaited \/ Unsynced \subseteq rest
    PROVE  MInv'
<1>1. PICK i \in rest : /\ current' = i /\ seen' = IsOpen(i) /\ queue' = rest \ {i}
  BY DEF TakeFrom
<1>2. at' = "call" /\ outcome' = outcome
  BY DEF TakeFrom
<1>3. rest \subseteq DOMAIN rows /\ i \in DOMAIN rows
  BY DEF Unsynced
<1>4. MirrorTypeOK'
  BY <1>1, <1>2, <1>3 DEF MInv, MirrorTypeOK, IsOpen, IInv
<1>5. HandOK' /\ AnswerOK' /\ HandledRowsAreMirrored'
  BY <1>1, <1>2 DEF MInv, HandOK, AnswerOK, Sharing, HandledRowsAreMirrored, IsOpen, Unsynced
<1>6. RefreshMayFail \/ NothingForgotten'
  BY <1>1, <1>2 DEF NothingForgotten, Awaited, Unsynced, Sharing, IsOpen
<1>. QED
  BY <1>4, <1>5, <1>6 DEF MInv

LEMMA ListStep ==
    ASSUME MInv, List
    PROVE  MInv'
<1>1. UNCHANGED <<rows, pc, wake, events, failed, crashes>> /\ IInv' /\ failed \in BOOLEAN
  BY OnlyMoves DEF List, vars, tables, session, MInv, IInv, TypeOK, MirrorTypeOK
<1>2. CASE Unsynced = {}
  BY <1>1, <1>2, EndPassKept DEF List, Listing
<1>3. CASE Unsynced # {}
  <2>1. TakeFrom(Unsynced)
    BY <1>3 DEF List, Listing
  <2>. QED
    BY <1>1, <2>1, TakeKept
<1>. QED
  BY <1>2, <1>3

LEMMA TakeStep ==
    ASSUME MInv, Take
    PROVE  MInv'
<1>1. UNCHANGED <<rows, pc, wake, events, failed, crashes>> /\ IInv' /\ failed \in BOOLEAN
  BY OnlyMoves DEF Take, vars, tables, session, MInv, IInv, TypeOK, MirrorTypeOK
<1>2. queue \subseteq Unsynced /\ current = 0 /\ (RefreshMayFail \/ Awaited \/ Unsynced \subseteq queue)
  <2>1. current = 0 /\ queue \subseteq Unsynced
    BY DEF Take, MInv, HandOK, Sharing
  <2>2. Unsynced \subseteq DOMAIN rows /\ 0 \notin DOMAIN rows
    BY RowTypes DEF Unsynced, MInv, IInv
  <2>. QED
    BY <2>1, <2>2 DEF Take, MInv, NothingForgotten
<1>3. CASE queue = {}
  <2>1. EndPass
    BY <1>3 DEF Take
  <2>2. RefreshMayFail \/ Awaited \/ Unsynced = {}
    BY <1>2, <1>3
  <2>. QED
    BY <1>1, <2>1, <2>2, EndPassKept
<1>4. CASE queue # {}
  <2>1. TakeFrom(queue)
    BY <1>4 DEF Take
  <2>. QED
    BY <1>1, <1>2, <2>1, TakeKept
<1>. QED
  BY <1>3, <1>4

\* The call touches the event of the row in hand, which no row marked as
\* synced is.
LEMMA CallStep ==
    ASSUME MInv, CallOk \/ CallFails
    PROVE  MInv'
<1>1. IInv'
  BY OnlyMoves DEF CallOk, CallFails, vars, tables, session, MInv, IInv, TypeOK
<1>2. /\ at = "call" /\ at' = "write" /\ current \in Unsynced /\ current \in DOMAIN rows
      /\ UNCHANGED <<rows, pc, wake, queue, current, seen, crashes>>
  BY DEF CallOk, CallFails, vars, tables, session, MInv, HandOK, Sharing, Unsynced
<1>3. events' \in {events, Mirrored}
  BY DEF CallOk, CallFails
<1>4. MirrorTypeOK'
  BY <1>1, <1>2, <1>3 DEF CallOk, CallFails, MInv, IInv, MirrorTypeOK, Mirrored
<1>5. HandOK'
  BY <1>2 DEF MInv, HandOK, Sharing, Unsynced
<1>6. AnswerOK'
  BY <1>2 DEF CallOk, CallFails, AnswerOK, Mirrored
<1>7. HandledRowsAreMirrored'
  BY <1>2, <1>3 DEF MInv, HandledRowsAreMirrored, IsOpen, Mirrored, Unsynced
<1>8. RefreshMayFail \/ NothingForgotten'
  BY <1>2 DEF CallOk, CallFails, MInv, NothingForgotten, Awaited, Unsynced, Sharing, IsOpen
<1>. QED
  BY <1>1, <1>4, <1>5, <1>6, <1>7, <1>8 DEF MInv

\* The UPDATE marks the row only if it still is what the call was made for.
LEMMA WriteStep ==
    ASSUME MInv, Write
    PROVE  MInv'
<1>1. /\ at = "write" /\ at' = "take" /\ current' = 0 /\ seen' = FALSE /\ outcome' = "synced"
      /\ UNCHANGED <<sales, cycle, wake, session, events, queue, failed, crashes>>
      /\ rows' = IF StillSeen THEN [rows EXCEPT ![current].sync = outcome] ELSE rows
  BY DEF Write
<1>2. /\ rows \in Seq(FollowUp) /\ wake \in BOOLEAN /\ outcome \in {"synced", "failed"}
      /\ current \in DOMAIN rows /\ current \in Unsynced
  BY <1>1 DEF MInv, IInv, TypeOK, MirrorTypeOK, HandOK, Sharing, Unsynced
<1>3. rows[current] \in FollowUp /\ DOMAIN rows = 1..Len(rows)
  BY <1>2
<1>4. /\ DOMAIN rows' = DOMAIN rows
      /\ \A i \in DOMAIN rows : i # current => rows'[i] = rows[i]
      /\ rows'[current] = IF StillSeen THEN [rows[current] EXCEPT !.sync = outcome] ELSE rows[current]
  BY <1>1, <1>2
<1>5. rows'[current] \in FollowUp
  BY <1>2, <1>3, <1>4 DEF FollowUp
<1>6. rows' \in Seq(FollowUp) /\ SameRows
  <2>1. rows' \in Seq(FollowUp)
    BY <1>1, <1>2, <1>3, <1>5
  <2>. QED
    BY <1>3, <1>4, <2>1 DEF SameRows, FollowUp
<1>7. /\ rows'[current].closeReason = rows[current].closeReason
      /\ rows'[current].sync = IF StillSeen THEN outcome ELSE rows[current].sync
  BY <1>3, <1>4 DEF FollowUp
<1>8. IInv'
  BY <1>1, <1>2, <1>6, ThreadKept
<1>9. MirrorTypeOK'
  BY <1>1, <1>4, <1>8 DEF MInv, IInv, MirrorTypeOK
<1>10. HandOK'
  <2>1. queue \subseteq Unsynced /\ current \notin queue
    BY DEF MInv, HandOK
  <2>2. queue \subseteq Unsynced'
    BY <1>4, <2>1 DEF Unsynced
  <2>3. 0 \notin queue
    BY <1>3, <2>1 DEF Unsynced
  <2>. QED
    BY <1>1, <2>2, <2>3 DEF HandOK, Sharing
<1>11. AnswerOK'
  BY <1>1 DEF AnswerOK
<1>12. HandledRowsAreMirrored'
  <2> SUFFICES ASSUME NEW i \in DOMAIN rows, rows'[i].sync = "synced", rows'[i].closeReason # "sale"
               PROVE  rows'[i].closeReason = "none" <=> i \in events
    BY <1>1, <1>4 DEF HandledRowsAreMirrored, IsOpen
  <2>1. CASE i # current
    BY <1>4, <2>1 DEF MInv, HandledRowsAreMirrored, IsOpen
  <2>2. CASE i = current
    <3>1. StillSeen /\ outcome = "synced"
      BY <1>2, <1>7, <2>2 DEF Unsynced
    <3>. QED
      BY <1>1, <1>7, <2>2, <3>1 DEF StillSeen, IsOpen, MInv, AnswerOK
  <2>. QED
    BY <2>1, <2>2
<1>13. RefreshMayFail \/ NothingForgotten'
  <2>1. CASE Awaited
    BY <1>1, <2>1 DEF NothingForgotten, Awaited, session
  <2>2. CASE ~Awaited /\ ~RefreshMayFail
    <3>1. Unsynced \subseteq queue \cup {current} /\ StillSeen /\ outcome = "synced"
      BY <1>1, <1>2, <2>2 DEF MInv, NothingForgotten, Sharing, StillSeen, AnswerOK, Awaited
    <3>2. Unsynced' \subseteq queue
      BY <1>4, <1>7, <3>1 DEF Unsynced
    <3>. QED
      BY <1>1, <3>2 DEF NothingForgotten, Sharing
  <2>. QED
    BY <2>1, <2>2
<1>. QED
  BY <1>8, <1>9, <1>10, <1>11, <1>12, <1>13 DEF MInv

LEMMA PassFailsStep ==
    ASSUME MInv, PassFails
    PROVE  MInv'
<1>1. UNCHANGED <<rows, pc, wake, events, crashes>> /\ IInv' /\ failed' = TRUE /\ EndPass
  BY OnlyMoves DEF PassFails, vars, tables, session, MInv, IInv, TypeOK
<1>. QED
  BY <1>1, EndPassKept

LEMMA WakeStep ==
    ASSUME MInv, Wake
    PROVE  MInv'
<1>1. IInv'
  BY OnlyMoves DEF Wake, vars, tables, session, MInv, IInv, TypeOK
<1>. QED
  BY <1>1 DEF Wake, vars, tables, session, MInv, MirrorTypeOK, IInv, HandOK, AnswerOK, Sharing, Unsynced,
     HandledRowsAreMirrored, IsOpen, NothingForgotten

\* A restart forgets the sessions and what the thread had in hand; the first
\* pass of the new process lists every row again.
LEMMA CrashStep ==
    ASSUME MInv, Crash
    PROVE  MInv'
<1>1. TypeOK'
  <2>1. NoOp \in Operation /\ NoCycle \in Cycle /\ "idle" \in Labels
    BY DEF Operation, NoCycle, Cycle, Labels
  <2>. QED
    BY <2>1 DEF Crash, tables, MInv, IInv, TypeOK
<1>2. OpenIsLatest' /\ Followed'
  BY SameFollowUps DEF Crash, tables, MInv, IInv, OpenIsLatest, Followed, SameRows
<1>3. \A s \in Sessions : SessionOK(s)' /\ ~InSale(s)'
  BY DEF Crash, SessionOK, InSale
<1>4. LocksOK'
  BY DEF Crash, LocksOK
<1>5. IInv'
  BY <1>1, <1>2, <1>3, <1>4 DEF IInv, SessionsOK, SalesOK
<1>6. crashes' \in 0..MaxCrashes
  BY CrashAssumption DEF Crash, MInv, MirrorTypeOK
<1>. QED
  BY <1>1, <1>5, <1>6 DEF Crash, tables, MInv, MirrorTypeOK, HandOK, AnswerOK, Sharing, Unsynced,
     HandledRowsAreMirrored, IsOpen, NothingForgotten

LEMMA MirrorStep == MInv /\ [MirrorNext]_allVars => MInv'
<1> SUFFICES ASSUME MInv, [MirrorNext]_allVars PROVE MInv'
  OBVIOUS
<1>1. ASSUME UNCHANGED <<rows, wake, pc, events, worker, crashes>>, IInv'
      PROVE  MInv'
  BY <1>1 DEF worker, MInv, MirrorTypeOK, IInv, HandOK, AnswerOK, Sharing, Unsynced,
     HandledRowsAreMirrored, IsOpen, NothingForgotten, Awaited
<1>2. CASE UNCHANGED allVars
  <2>1. IInv'
    BY <1>2, InvStep DEF allVars, MInv
  <2>. QED
    BY <1>1, <1>2, <2>1 DEF allVars, vars, tables, session
<1>3. CASE Next /\ UNCHANGED <<events, worker, crashes>>
  <2>1. IInv'
    BY <1>3, InvStep DEF MInv
  <2>2. CASE EditSale
    BY <1>1, <1>3, <2>1, <2>2 DEF EditSale, session
  <2>3. CASE \E s \in Sessions :
                BeginSale(s) \/ BeginByHand(s) \/ Step(s) \/ RefreshFails(s) \/ Fail(s)
    BY <1>3, <2>1, <2>3, BesideThread
  <2>. QED
    BY <1>3, <2>2, <2>3 DEF Next
<1>4. CASE Thread
  BY <1>4, ClearStep, ListStep, TakeStep, CallStep, WriteStep, PassFailsStep, WakeStep DEF Thread
<1>5. CASE Crash
  BY <1>5, CrashStep
<1>. QED
  BY <1>2, <1>3, <1>4, <1>5 DEF MirrorNext

LEMMA MirrorInvHolds == MirrorSpec => []MInv
<1>. QED
  BY MirrorStart, MirrorStep, PTL DEF MirrorSpec

\* The calendar, the thread and the sessions keep their types, also over the
\* restarts of the process.
THEOREM MirrorTypes == MirrorSpec => []MirrorTypeOK
<1>1. MInv => MirrorTypeOK
  BY DEF MInv
<1>. QED
  BY <1>1, MirrorInvHolds, PTL

\* A row marked as synced shows in the calendar what it says, whatever crosses
\* the call: the UPDATE is conditional on the status the call was made for.
THEOREM RowsAreMirrored == MirrorSpec => []HandledRowsAreMirrored
<1>1. MInv => HandledRowsAreMirrored
  BY DEF MInv
<1>. QED
  BY <1>1, MirrorInvHolds, PTL

\* The thread never sleeps on a row without somebody about to wake it: the
\* signal is cleared before the list is read, and a commit comes before its
\* request.  It needs that no refresh fails between the two.
THEOREM WakeUpsArrive ==
    ASSUME ~RefreshMayFail
    PROVE  MirrorSpec => []NoLostWakeup
<1>1. MInv => NoLostWakeup
  BY DEF MInv, NothingForgotten, Awaited, NoLostWakeup
<1>. QED
  BY <1>1, MirrorInvHolds, PTL

\* Restarts and the thread take nothing from the follow-ups: one open per
\* pair, and no pair with a projection without its follow-up.
THEOREM FollowUpsSurvive == MirrorSpec => [](OneOpenPerPair /\ ProjectedIsFollowed)
<1>1. MInv => OneOpenPerPair /\ ProjectedIsFollowed
  BY OneOpenHolds, FollowedHolds DEF MInv
<1>. QED
  BY <1>1, MirrorInvHolds, PTL

----------------------------------------------------------------------------
(* The lists of the follow-ups.                                            *)

\* Everybody a list can name.
Everyone ==
    Customers \cup {f.customer : f \in OtherOpen} \cup {k.customer : k \in OtherCycles}

\* The page of a hundred holds them all.
Few == IsFiniteSet(Everyone) /\ Cardinality(Everyone) <= 100

\* Follow-ups and cycles as a list may read them.
Readable(cycles, open) ==
    /\ IsFiniteSet(open)
    /\ \A f \in open : f.customer \in Everyone /\ f.days \in DaysUntil
    /\ \A k \in cycles : k.customer \in Everyone

\* Sorting lists every entry once.
LEMMA ByUrgencyIs ==
    ASSUME NEW S, IsFiniteSet(S), \A e \in S : e.worst \in Int
    PROVE  /\ ByUrgency(S) \in Seq(S) /\ Len(ByUrgency(S)) = Cardinality(S)
           /\ {ByUrgency(S)[i] : i \in DOMAIN ByUrgency(S)} = S
<1> DEFINE g == SetToSeq(S)
           place == [x \in S |-> CHOOSE i \in 1..Len(g) : g[i] = x]
           Before(x, y) == x.worst < y.worst \/ (x.worst = y.worst /\ place[x] < place[y])
           R == {p \in S \X S : Before(p[1], p[2])}
<1>1. \A x, y \in S : /\ place[x] \in Int /\ x.worst \in Int
                      /\ place[x] = place[y] => x = y
  <2>1. Len(g) \in Nat /\ \A x \in S : \E i \in 1..Len(g) : g[i] = x
    BY ListedOnce
  <2> HIDE DEF g
  <2>2. \A x \in S : place[x] \in 1..Len(g) /\ g[place[x]] = x
    BY <2>1
  <2>. QED
    BY <2>1, <2>2
<1>2. \A x, y \in S : <<x, y>> \in R <=> Before(x, y)
  OBVIOUS
<1> HIDE DEF place, g, R
<1>3. TotalOrder(R, S)
  BY <1>1, <1>2 DEF TotalOrder
<1>4. PICK q : Enumerates(q, R, S)
  BY <1>3, Enumerated
<1>5. PICK n \in Nat : n = Cardinality(S)
  BY FS_CardinalityType
<1>6. /\ q \in [1..n -> S]
      /\ \A i, j \in 1..n : i < j => <<q[i], q[j]>> \in R
  BY <1>4, <1>5 DEF Enumerates
<1>7. \A i, j \in 1..n : i < j => q[i].worst <= q[j].worst /\ q[i] # q[j]
  <2> SUFFICES ASSUME NEW i \in 1..n, NEW j \in 1..n, i < j
               PROVE  q[i].worst <= q[j].worst /\ q[i] # q[j]
    OBVIOUS
  <2>1. q[i] \in S /\ q[j] \in S /\ Before(q[i], q[j])
    BY <1>2, <1>6
  <2>. QED
    BY <1>1, <2>1
<1>8. q \in SetToSeqs(S)
  BY <1>5, <1>6, <1>7 DEF SetToSeqs
<1>9. \A i, j \in DOMAIN q : i < j => q[i].worst <= q[j].worst
  BY <1>6, <1>7
<1> DEFINE list == ByUrgency(S)
<1>10. list \in SetToSeqs(S)
  BY <1>8, <1>9 DEF ByUrgency
<1> HIDE DEF list
<1>11. list \in Injection(1..n, S)
  BY <1>5, <1>10 DEF SetToSeqs, Injection, IsInjective
<1>12. list \in Surjection(1..n, S)
  <2>1. IsFiniteSet(1..n) /\ Cardinality(1..n) = n
    BY <1>5, FS_Interval
  <2>. QED
    BY <1>5, <1>11, <2>1, FS_Injection
<1>13. list \in [1..n -> S] /\ \A x \in S : \E i \in 1..n : list[i] = x
  BY <1>12 DEF Surjection
<1>14. list \in Seq(S) /\ Len(list) = n /\ DOMAIN list = 1..n
  BY <1>13
<1>15. {list[i] : i \in 1..n} = S
  BY <1>13
<1>. QED
  BY <1>5, <1>14, <1>15 DEF list

\* The most urgent of what is due to a customer.
LEMMA WorstIs ==
    ASSUME NEW cycles, NEW open, Readable(cycles, open), NEW c \in CustomersDue(open)
    PROVE  /\ Worst(c, open) \in Int
           /\ \E f \in DueItems(c, open) : f.days = Worst(c, open)
           /\ \A f \in DueItems(c, open) : Worst(c, open) <= f.days
<1> DEFINE D == {f.days : f \in DueItems(c, open)}
<1>1. D \subseteq DaysUntil /\ D # {}
  BY DEF DueItems, CustomersDue, Readable
<1>2. DaysUntil \subseteq Int /\ IsFiniteSet(DaysUntil)
  BY ListAssumption
<1>3. Worst(c, open) = Min(D)
  BY DEF Worst
<1>4. \A f \in DueItems(c, open) : f.days \in D
  OBVIOUS
<1>5. \A d \in D : \E f \in DueItems(c, open) : f.days = d
  OBVIOUS
<1> HIDE DEF D
<1>6. IsFiniteSet(D) /\ D \subseteq Int
  BY <1>1, <1>2, FS_Subset
<1>7. Min(D) \in D /\ \A d \in D : Min(D) <= d
  BY <1>1, <1>6, Extremes
<1>. QED
  BY <1>3, <1>4, <1>5, <1>6, <1>7

\* Who is in a list.
Listed(filter, cycles, open) ==
    IF filter = "all" THEN CustomersDue(open) \cup NeedEstimate(cycles, open)
                      ELSE {c \in CustomersDue(open) : Worst(c, open) <= Within(filter)}

\* A list has one entry for each of them.
LEMMA EntriesAre ==
    ASSUME Few, NEW cycles, NEW open, Readable(cycles, open), NEW filter \in Filters
    PROVE  LET E == Entries(filter, cycles, open)
               who == Listed(filter, cycles, open)
           IN  /\ IsFiniteSet(E) /\ \A e \in E : e.worst \in Int
               /\ {e.customer : e \in E} = who
               /\ Cardinality(E) = Cardinality(who)
               /\ Cardinality(E) <= 100
<1> DEFINE E == Entries(filter, cycles, open)
           who == Listed(filter, cycles, open)
           estimate(c) == [customer |-> c, status |-> "needs_estimate", worst |-> 9999]
           f == [c \in who |-> IF c \in CustomersDue(open) THEN Entry(c, open) ELSE estimate(c)]
<1>1. \A c : Entry(c, open).customer = c /\ Entry(c, open).worst = Worst(c, open)
  BY DEF Entry
<1>2. \A c \in NeedEstimate(cycles, open) : c \notin CustomersDue(open)
  BY DEF NeedEstimate, CustomersDue, DueItems
<1>3. E = {f[c] : c \in who}
  <2>1. {Entry(x.customer, open) : x \in open} = {Entry(c, open) : c \in CustomersDue(open)}
    BY DEF CustomersDue
  <2>2. CASE filter = "all"
    <3>1. E = {Entry(c, open) : c \in CustomersDue(open)}
              \cup {estimate(c) : c \in NeedEstimate(cycles, open)}
      BY <2>1, <2>2 DEF Entries
    <3>2. who = CustomersDue(open) \cup NeedEstimate(cycles, open)
      BY <2>2 DEF Listed
    <3>3. /\ \A c \in CustomersDue(open) : c \in who /\ f[c] = Entry(c, open)
          /\ \A c \in NeedEstimate(cycles, open) : c \in who /\ f[c] = estimate(c)
      BY <1>2, <3>2
    <3> HIDE DEF E, who, f, estimate
    <3>4. \A e \in E : \E c \in who : e = f[c]
      BY <3>1, <3>3
    <3>5. \A c \in who : f[c] \in E
      BY <3>1, <3>2, <3>3
    <3>. QED
      BY <3>4, <3>5
  <2>3. CASE filter # "all"
    <3>1. E = {e \in {Entry(c, open) : c \in CustomersDue(open)} : e.worst <= Within(filter)}
      BY <2>1, <2>3 DEF Entries
    <3>2. who = {c \in CustomersDue(open) : Worst(c, open) <= Within(filter)}
      BY <2>3 DEF Listed
    <3> HIDE DEF E, who
    <3>. QED
      BY <1>1, <3>1, <3>2
  <2>. QED
    BY <2>2, <2>3
<1>4. \A c \in who : f[c].customer = c /\ f[c].worst \in Int
  BY <1>1, WorstIs
<1>5. who \subseteq Everyone
  BY DEF Listed, CustomersDue, NeedEstimate, Readable
<1> HIDE DEF E, who, f
<1>6. IsFiniteSet(who) /\ Cardinality(who) <= 100
  <2>1. IsFiniteSet(Everyone) /\ Cardinality(Everyone) \in Nat /\ Cardinality(Everyone) <= 100
    BY FS_CardinalityType DEF Few
  <2>2. IsFiniteSet(who) /\ Cardinality(who) <= Cardinality(Everyone)
    BY <1>5, <2>1, FS_Subset
  <2>3. Cardinality(who) \in Nat
    BY <2>2, FS_CardinalityType
  <2>. QED
    BY <2>1, <2>2, <2>3
<1>7. IsFiniteSet(E) /\ Cardinality(E) = Cardinality(who)
  <2>1. f \in Bijection(who, E)
    BY <1>3, <1>4 DEF Bijection, Injection, Surjection, IsInjective, f
  <2>. QED
    BY <1>6, <2>1, FS_Bijection DEF ExistsBijection
<1>8. {e.customer : e \in E} = who /\ \A e \in E : e.worst \in Int
  BY <1>3, <1>4
<1>. QED
  BY <1>6, <1>7, <1>8 DEF E, who

\* The number of a list, and its page of a hundred.
LEMMA PageIs ==
    ASSUME Few, NEW cycles, NEW open, Readable(cycles, open), NEW filter \in Filters
    PROVE  LET who == Listed(filter, cycles, open)
               page == GetFollowUps(filter, 100, 0, cycles, open)
           IN  /\ GetFollowUps(filter, 1, 0, cycles, open).total = Cardinality(who)
               /\ Len(page.data) = Cardinality(who)
               /\ {page.data[i].customer : i \in DOMAIN page.data} = who
<1> DEFINE E == Entries(filter, cycles, open)
           list == ByUrgency(E)
           who == Listed(filter, cycles, open)
           page == GetFollowUps(filter, 100, 0, cycles, open)
<1>1. /\ IsFiniteSet(E) /\ \A e \in E : e.worst \in Int
      /\ {e.customer : e \in E} = who
      /\ Cardinality(E) = Cardinality(who) /\ Cardinality(E) <= 100
  BY EntriesAre
<1>2. GetFollowUps(filter, 1, 0, cycles, open).total = Len(list)
  BY DEF GetFollowUps
<1>3. page.data = SubSeq(list, 0 + 1, Min({Len(list), 0 + 100}))
  BY DEF GetFollowUps
<1> HIDE DEF E, who, page
<1>4. /\ list \in Seq(E) /\ Len(list) = Cardinality(E)
      /\ {list[i] : i \in DOMAIN list} = E
  BY <1>1, ByUrgencyIs
<1> HIDE DEF list
<1>5. Len(list) \in Nat /\ Len(list) <= 100
  BY <1>1, <1>4
<1>6. Min({Len(list), 0 + 100}) = Len(list)
  <2>1. Len(list) \in Int /\ 0 + 100 \in Int
    BY <1>5
  <2>2. Min({Len(list), 0 + 100}) = Least(Len(list), 0 + 100)
    BY ONLY <2>1, MinIs
  <2>. QED
    BY <1>5, <2>2 DEF Least
<1>7. page.data = list
  <2>1. SubSeq(list, 1, Len(list)) = list
    BY <1>4, SubSeqFull
  <2>. QED
    BY <1>3, <1>6, <2>1
<1>8. {list[i].customer : i \in DOMAIN list} = who
  BY <1>1, <1>4
<1>. QED
  BY <1>1, <1>2, <1>4, <1>7, <1>8 DEF who, page

\* What the tables and the other customers hold can be read.
LEMMA TablesReadable ==
    ASSUME TypeOK, NEW days \in [OpenRows -> DaysUntil]
    PROVE  Readable(CyclesToFollow, OpenFollowUps(days))
<1> DEFINE f == [i \in OpenRows |-> [customer |-> rows[i].customer, product |-> rows[i].product,
                                     days |-> days[i]]]
           Ours == {f[i] : i \in OpenRows}
<1>1. IsFiniteSet(Ours)
  <2>1. OpenRows \subseteq 1..Len(rows) /\ Len(rows) \in Nat
    BY RowTypes DEF OpenRows
  <2>2. IsFiniteSet(1..Len(rows))
    BY <2>1, FS_Interval
  <2>3. IsFiniteSet(OpenRows)
    BY <2>1, <2>2, FS_Subset
  <2> HIDE DEF f
  <2>. QED
    BY <2>3, FiniteImage
<1>2. OpenFollowUps(days) = Ours \cup OtherOpen
  BY DEF OpenFollowUps
<1>3. \A x \in Ours : x.customer \in Customers /\ x.days \in DaysUntil
  BY RowTypes DEF OpenRows
<1> HIDE DEF Ours
<1>4. IsFiniteSet(OpenFollowUps(days))
  BY <1>1, <1>2, FS_Union, ListAssumption
<1>5. \A x \in OpenFollowUps(days) : x.customer \in Everyone /\ x.days \in DaysUntil
  BY <1>2, <1>3, ListAssumption DEF Everyone
<1>6. \A k \in CyclesToFollow : k.customer \in Everyone
  BY DEF CyclesToFollow, PairCycles, Everyone
<1>. QED
  BY <1>4, <1>5, <1>6 DEF Readable

\* Who is overdue and who is due in the next days are who is due by then.
LEMMA TilesAre ==
    ASSUME Few, NEW cycles, NEW open, Readable(cycles, open), NEW n \in Nat
    PROVE  Cardinality({c \in CustomersDue(open) : Worst(c, open) <= n})
             = Metrics(open).overdue + NextDays(n, open)
<1> DEFINE who == {c \in CustomersDue(open) : Worst(c, open) <= n}
           late == {c \in CustomersDue(open) : Worst(c, open) < 0}
           soon == {c \in CustomersDue(open) : Worst(c, open) \in 0..n}
<1>1. \A c \in CustomersDue(open) : Worst(c, open) \in Int
  BY WorstIs
<1>2. who = late \cup soon /\ late \cap soon = {}
  BY <1>1
<1>3. IsFiniteSet(late) /\ IsFiniteSet(soon)
  <2>1. CustomersDue(open) \subseteq Everyone /\ IsFiniteSet(Everyone)
    BY DEF CustomersDue, Readable, Few
  <2>2. IsFiniteSet(CustomersDue(open))
    BY <2>1, FS_Subset
  <2>. QED
    BY <2>2, FS_Subset
<1>4. Metrics(open).overdue = Cardinality(late) /\ NextDays(n, open) = Cardinality(soon)
  BY DEF Metrics, NextDays
<1> HIDE DEF who, late, soon
<1>5. Cardinality(who) = Cardinality(late) + Cardinality(soon)
  <2>1. Cardinality(who) = Cardinality(late) + Cardinality(soon) - Cardinality(late \cap soon)
    BY <1>2, <1>3, FS_Union
  <2>2. Cardinality(late) \in Nat /\ Cardinality(soon) \in Nat
    BY <1>3, FS_CardinalityType
  <2>. QED
    BY <1>2, <2>1, <2>2, FS_EmptySet
<1>. QED
  BY <1>4, <1>5 DEF who

\* The customers of a filter are called by the events up to its last day.
LEMMA CallersAre ==
    ASSUME NEW cycles, NEW open, Readable(cycles, open), NEW n \in Int
    PROVE  LET from == Min(DaysUntil)
               dates == CalendarEvents(from, n, open).dates
           IN  {c \in CustomersDue(open) : Worst(c, open) <= n}
                 = {f.customer : f \in UNION {dates[d] : d \in from..n}}
<1> DEFINE from == Min(DaysUntil)
           dates == CalendarEvents(from, n, open).dates
           callers == {f.customer : f \in UNION {dates[d] : d \in from..n}}
<1>1. from \in Int /\ DaysUntil \subseteq Int /\ \A d \in DaysUntil : from <= d
  BY Extremes, ListAssumption
<1>2. \A f \in open : f.days \in Int /\ from <= f.days
  BY <1>1 DEF Readable
<1>3. \A d \in from..n : dates[d] = {f \in open : f.days = d}
  BY DEF CalendarEvents
<1> HIDE DEF from, dates
<1>4. UNION {dates[d] : d \in from..n} = {f \in open : f.days <= n}
  <2>1. ASSUME NEW f \in UNION {dates[d] : d \in from..n} PROVE f \in open /\ f.days <= n
    BY <1>1, <1>3
  <2>2. ASSUME NEW f \in open, f.days <= n PROVE f \in UNION {dates[d] : d \in from..n}
    <3>1. f.days \in from..n
      BY <1>1, <1>2, <2>2
    <3>2. f \in dates[f.days]
      BY <1>3, <3>1
    <3>. QED
      BY <3>1, <3>2
  <2>. QED
    BY <2>1, <2>2
<1>5. callers = {f.customer : f \in {x \in open : x.days <= n}}
  BY <1>4
<1>6. ASSUME NEW c \in CustomersDue(open)
      PROVE  Worst(c, open) <= n <=> \E f \in open : f.customer = c /\ f.days <= n
  <2>1. /\ Worst(c, open) \in Int
        /\ \E f \in open : f.customer = c /\ f.days = Worst(c, open)
        /\ \A f \in open : f.customer = c => Worst(c, open) <= f.days
    BY WorstIs DEF DueItems
  <2>. QED
    BY <1>2, <2>1
<1>7. \A f \in open : f.customer \in CustomersDue(open)
  BY DEF CustomersDue
<1> HIDE DEF callers
<1>8. {c \in CustomersDue(open) : Worst(c, open) <= n} = callers
  BY <1>5, <1>6, <1>7
<1>. QED
  BY <1>8 DEF callers, dates, from

\* Every follow-up is an event of the calendar, before or after today.
LEMMA EventsAre ==
    ASSUME NEW cycles, NEW open, Readable(cycles, open)
    PROVE  LET page == CalendarEvents(Min(DaysUntil), Max(DaysUntil), open)
           IN  page.upcoming + page.overdue = Cardinality(open)
<1> DEFINE from == Min(DaysUntil)
           to == Max(DaysUntil)
           late == {f \in open : f.days < 0}
           soon == {f \in open : f.days >= 0}
<1>1. DaysUntil \subseteq from..to
  <2>1. DaysUntil \subseteq Int /\ IsFiniteSet(DaysUntil) /\ DaysUntil # {}
    BY ListAssumption
  <2>2. \A d \in DaysUntil : d \in Int /\ from \in Int /\ to \in Int /\ from <= d /\ d <= to
    BY ONLY <2>1, Extremes
  <2>. QED
    BY <2>2
<1>2. {f \in open : f.days \in from..to} = open
  BY <1>1 DEF Readable
<1>3. /\ CalendarEvents(from, to, open).upcoming = Cardinality(soon)
      /\ CalendarEvents(from, to, open).overdue = Cardinality(late)
  BY <1>2 DEF CalendarEvents
<1>4. open = soon \cup late /\ soon \cap late = {}
  <2>1. \A f \in open : f.days \in Int
    BY ListAssumption DEF Readable
  <2>. QED
    BY <2>1
<1>5. IsFiniteSet(soon) /\ IsFiniteSet(late)
  BY FS_Subset DEF Readable
<1> HIDE DEF from, to, late, soon
<1>6. Cardinality(open) = Cardinality(soon) + Cardinality(late)
  <2>1. Cardinality(open) = Cardinality(soon) + Cardinality(late) - Cardinality(soon \cap late)
    BY <1>4, <1>5, FS_Union
  <2>2. Cardinality(soon) \in Nat /\ Cardinality(late) \in Nat
    BY <1>5, FS_CardinalityType
  <2>. QED
    BY <1>4, <2>1, <2>2, FS_EmptySet
<1>. QED
  BY <1>3, <1>6 DEF from, to

LEMMA TilesHold == ASSUME Few, TypeOK PROVE TilesMatchFilters
<1> SUFFICES ASSUME NEW days \in [OpenRows -> DaysUntil]
             PROVE  LET open == OpenFollowUps(days)
                        total(filter) == GetFollowUps(filter, 1, 0, CyclesToFollow, open).total
                        tiles == Metrics(open)
                        summary == Summary(CyclesToFollow, open)
                        page(n) == CalendarEvents(Min(DaysUntil), n, open)
                        callers(n) == {f.customer :
                                          f \in UNION {page(n).dates[d] : d \in Min(DaysUntil)..n}}
                    IN  /\ total("overdue") = tiles.overdue
                        /\ total("7_days") = tiles.overdue + tiles.next7Days
                        /\ total("14_days") = tiles.overdue + tiles.next14Days
                        /\ total("30_days") = tiles.overdue + tiles.next30Days
                        /\ \A f \in Filters \ {"all"} :
                              {e.customer : e \in Entries(f, CyclesToFollow, open)}
                                = callers(Within(f))
                        /\ page(Max(DaysUntil)).upcoming + page(Max(DaysUntil)).overdue
                              = Cardinality(open)
                        /\ Len(summary.priorityCustomers)
                              = summary.pendingFollowUps + summary.upcomingPurchases7Days
  BY DEF TilesMatchFilters
<1> DEFINE open == OpenFollowUps(days)
           cycles == CyclesToFollow
           total(filter) == GetFollowUps(filter, 1, 0, cycles, open).total
           until(n) == {c \in CustomersDue(open) : Worst(c, open) <= n}
           page(n) == CalendarEvents(Min(DaysUntil), n, open)
           callers(n) == {f.customer : f \in UNION {page(n).dates[d] : d \in Min(DaysUntil)..n}}
<1>1. Readable(cycles, open)
  BY TablesReadable
<1> HIDE DEF open, cycles
<1>2. ASSUME NEW filter \in Filters \ {"all"}
      PROVE  /\ Within(filter) \in Int
             /\ Listed(filter, cycles, open) = until(Within(filter))
  BY DEF Filters, Within, Listed
<1>3. \A filter \in Filters \ {"all"} : total(filter) = Cardinality(until(Within(filter)))
  BY <1>1, <1>2, PageIs
<1>4. total("overdue") = Metrics(open).overdue
  <2>1. until(-1) = {c \in CustomersDue(open) : Worst(c, open) < 0}
    <3>1. \A c \in CustomersDue(open) : Worst(c, open) \in Int
      BY <1>1, WorstIs
    <3>. QED
      BY <3>1
  <2>2. Within("overdue") = -1 /\ "overdue" \in Filters \ {"all"}
    BY DEF Within, Filters
  <2>. QED
    BY <1>3, <2>1, <2>2 DEF Metrics
<1>5. \A n \in Nat : Cardinality(until(n)) = Metrics(open).overdue + NextDays(n, open)
  BY <1>1, TilesAre
<1>6. /\ Within("7_days") = 7 /\ Within("14_days") = 14 /\ Within("30_days") = 30
      /\ {"7_days", "14_days", "30_days"} \subseteq Filters \ {"all"}
  BY DEF Within, Filters
<1>7. /\ total("7_days") = Metrics(open).overdue + Metrics(open).next7Days
      /\ total("14_days") = Metrics(open).overdue + Metrics(open).next14Days
      /\ total("30_days") = Metrics(open).overdue + Metrics(open).next30Days
  <2> HIDE DEF total, until
  <2>1. /\ total("7_days") = Metrics(open).overdue + NextDays(7, open)
        /\ total("14_days") = Metrics(open).overdue + NextDays(14, open)
        /\ total("30_days") = Metrics(open).overdue + NextDays(30, open)
    BY <1>3, <1>5, <1>6
  <2>2. /\ Metrics(open).next7Days = NextDays(7, open)
        /\ Metrics(open).next14Days = NextDays(14, open)
        /\ Metrics(open).next30Days = NextDays(30, open)
    BY DEF Metrics
  <2>. QED
    BY <2>1, <2>2
<1>8. ASSUME NEW filter \in Filters \ {"all"}
      PROVE  {e.customer : e \in Entries(filter, cycles, open)} = callers(Within(filter))
  <2>1. {e.customer : e \in Entries(filter, cycles, open)} = until(Within(filter))
    BY <1>1, <1>2, EntriesAre
  <2>2. until(Within(filter)) = callers(Within(filter))
    BY <1>1, <1>2, CallersAre
  <2>. QED
    BY <2>1, <2>2
<1>9. page(Max(DaysUntil)).upcoming + page(Max(DaysUntil)).overdue = Cardinality(open)
  BY <1>1, EventsAre
<1>10. Len(GetFollowUps("7_days", 100, 0, cycles, open).data)
         = Metrics(open).overdue + Metrics(open).next7Days
  <2>1. "7_days" \in Filters
    BY <1>6
  <2>2. /\ Len(GetFollowUps("7_days", 100, 0, cycles, open).data)
             = Cardinality(Listed("7_days", cycles, open))
        /\ total("7_days") = Cardinality(Listed("7_days", cycles, open))
    BY <1>1, <2>1, PageIs
  <2> HIDE DEF total
  <2>. QED
    BY <1>7, <2>2
<1>11. Len(Summary(cycles, open).priorityCustomers)
         = Summary(cycles, open).pendingFollowUps + Summary(cycles, open).upcomingPurchases7Days
  BY <1>10 DEF Summary
<1>. QED
  BY <1>4, <1>7, <1>8, <1>9, <1>11 DEF open, cycles

\* The rows a postponement closed have a later row of their pair.
PostponedGoOn ==
    \A i \in DOMAIN rows : rows[i].closeReason = "postponed" =>
        \E j \in OfPair(rows[i].customer, rows[i].product) : j > i

\* Whoever had a projection when a session read the cycles had a follow-up,
\* and follow-ups are never deleted.
ReadingOK(s) ==
    reading[s].started =>
        /\ \A c \in reading[s].known :
              c \in Customers /\ \E k \in reading[s].cycles : k.customer = c
        /\ \A k \in reading[s].cycles :
              /\ k.customer \in Everyone
              /\ k.customer \in Customers /\ k.projected =>
                    \E p \in Products : OfPair(k.customer, p) # {}

LInv ==
    /\ IInv
    /\ PostponedGoOn
    /\ DOMAIN reading = Sessions
    /\ \A s \in Sessions : ReadingOK(s)

\* Rows stay, with their pair; what a step closes as postponed has a later
\* row of its pair.
LEMMA RowsStay ==
    ASSUME IInv, [Next]_vars
    PROVE  /\ DOMAIN rows \subseteq DOMAIN rows'
           /\ \A i \in DOMAIN rows :
                 rows'[i].customer = rows[i].customer /\ rows'[i].product = rows[i].product
           /\ \A i \in DOMAIN rows' : rows'[i].closeReason = "postponed" =>
                 \/ i \in DOMAIN rows /\ rows[i].closeReason = "postponed"
                 \/ \E j \in DOMAIN rows' : /\ j > i /\ rows'[j].customer = rows'[i].customer
                                            /\ rows'[j].product = rows'[i].product
<1>1. CASE rows' = rows
  BY <1>1
<1>2. ASSUME NEW s \in Sessions, CommitSale(s)
      PROVE  /\ DOMAIN rows \subseteq DOMAIN rows'
             /\ \A i \in DOMAIN rows : /\ rows'[i].customer = rows[i].customer
                                       /\ rows'[i].product = rows[i].product
             /\ \A i \in DOMAIN rows' : rows'[i].closeReason = "postponed" =>
                   i \in DOMAIN rows /\ rows[i].closeReason = "postponed"
  <2>1. InSale(s)
    BY <1>2 DEF CommitSale, InSale
  <2>2. TypeOK /\ op[s].kind = "sale" /\ HoldsOK(s)
    BY <2>1 DEF IInv, SessionsOK, SessionOK, SalesOK, SaleOK
  <2>. QED
    BY <1>2, <2>2, SoldRows
<1>3. ASSUME NEW s \in Sessions, Postpone(s) \/ Dismiss(s)
      PROVE  /\ DOMAIN rows \subseteq DOMAIN rows'
             /\ \A i \in DOMAIN rows : /\ rows'[i].customer = rows[i].customer
                                       /\ rows'[i].product = rows[i].product
             /\ \A i \in DOMAIN rows' : rows'[i].closeReason = "postponed" =>
                   \/ i \in DOMAIN rows /\ rows[i].closeReason = "postponed"
                   \/ \E j \in DOMAIN rows' : /\ j > i /\ rows'[j].customer = rows'[i].customer
                                              /\ rows'[j].product = rows'[i].product
  <2>1. /\ op[s].row \in DOMAIN rows
        /\ DOMAIN rows \subseteq DOMAIN rows'
        /\ \A j \in DOMAIN rows :
              /\ rows'[j].customer = rows[j].customer /\ rows'[j].product = rows[j].product
              /\ j # op[s].row => rows'[j].closeReason = rows[j].closeReason
        /\ \A j \in DOMAIN rows' \ DOMAIN rows :
              /\ j = Len(rows) + 1 /\ rows'[j].closeReason = "none"
              /\ rows'[j].customer = rows[op[s].row].customer
              /\ rows'[j].product = rows[op[s].row].product
        /\ rows'[op[s].row].closeReason =
              IF DOMAIN rows' = DOMAIN rows THEN "dismissed" ELSE "postponed"
    BY <1>3, HandRows
  <2>2. Len(rows) \in Nat /\ DOMAIN rows = 1..Len(rows)
    BY RowTypes DEF IInv
  <2>3. ASSUME NEW i \in DOMAIN rows', rows'[i].closeReason = "postponed",
               ~(i \in DOMAIN rows /\ rows[i].closeReason = "postponed")
        PROVE  \E j \in DOMAIN rows' : /\ j > i /\ rows'[j].customer = rows'[i].customer
                                       /\ rows'[j].product = rows'[i].product
    <3>1. i \in DOMAIN rows /\ i = op[s].row /\ DOMAIN rows' # DOMAIN rows
      BY <2>1, <2>3
    <3>2. PICK j \in DOMAIN rows' \ DOMAIN rows : TRUE
      BY <2>1, <3>1
    <3>. QED
      BY <2>1, <2>2, <3>1, <3>2
  <2>. QED
    BY <2>1, <2>3
<1>4. \/ rows' = rows
      \/ \E s \in Sessions : CommitSale(s) \/ Postpone(s) \/ Dismiss(s)
  BY DEF Next, vars, tables, EditSale, BeginSale, BeginByHand, Step, RefreshFails, Fail,
         TakeStock, UpdateCycle, FindToClose, FindMissing, Close, Open, Collide, LockRow,
         RefuseClosed, Notify, Rollback
<1>. QED
  BY <1>1, <1>2, <1>3, <1>4

LEMMA LInvStart == ListInit => LInv
<1> SUFFICES ASSUME ListInit PROVE LInv
  OBVIOUS
<1>1. IInv
  BY InvStart DEF ListInit
<1>2. PostponedGoOn
  BY DEF ListInit, Init, PostponedGoOn
<1>3. DOMAIN reading = Sessions /\ \A s \in Sessions : ReadingOK(s)
  BY DEF ListInit, NotReading, ReadingOK
<1>. QED
  BY <1>1, <1>2, <1>3 DEF LInv

\* The sessions of the lists are those of FollowUps, and read.
LEMMA ListMoves ==
    ASSUME [ListNext]_listVars
    PROVE  /\ [Next]_vars
           /\ \/ reading' = reading
              \/ \E s \in Sessions : BeginList(s) \/ AnswerList(s)
BY DEF ListNext, listVars, Next, Work, BeginList, AnswerList

LEMMA LInvStep == LInv /\ [ListNext]_listVars => LInv'
<1> SUFFICES ASSUME LInv, [ListNext]_listVars PROVE LInv'
  OBVIOUS
<1>1. [Next]_vars /\ (reading' = reading \/ \E s \in Sessions : BeginList(s) \/ AnswerList(s))
  BY ListMoves
<1>2. IInv'
  BY <1>1, InvStep DEF LInv
<1>3. /\ DOMAIN rows \subseteq DOMAIN rows'
      /\ \A i \in DOMAIN rows :
            rows'[i].customer = rows[i].customer /\ rows'[i].product = rows[i].product
      /\ \A i \in DOMAIN rows' : rows'[i].closeReason = "postponed" =>
            \/ i \in DOMAIN rows /\ rows[i].closeReason = "postponed"
            \/ \E j \in DOMAIN rows' : /\ j > i /\ rows'[j].customer = rows'[i].customer
                                       /\ rows'[j].product = rows'[i].product
  BY <1>1, RowsStay DEF LInv
<1>4. PostponedGoOn'
  <2> SUFFICES ASSUME NEW i \in DOMAIN rows', rows'[i].closeReason = "postponed"
               PROVE  \E j \in DOMAIN rows' : /\ j > i /\ rows'[j].customer = rows'[i].customer
                                              /\ rows'[j].product = rows'[i].product
    BY DEF PostponedGoOn, OfPair
  <2>1. CASE i \in DOMAIN rows /\ rows[i].closeReason = "postponed"
    <3>1. PICK j \in OfPair(rows[i].customer, rows[i].product) : j > i
      BY <2>1 DEF LInv, PostponedGoOn
    <3>. QED
      BY <1>3, <2>1, <3>1 DEF OfPair
  <2>. QED
    BY <1>3, <2>1
<1>5. \A c, p : OfPair(c, p) # {} => OfPair(c, p)' # {}
  BY <1>3 DEF OfPair
<1>6. ASSUME NEW s \in Sessions, reading'[s] = reading[s] PROVE ReadingOK(s)'
  BY <1>5, <1>6 DEF LInv, ReadingOK
<1>7. ASSUME NEW s \in Sessions, BeginList(s)
      PROVE  DOMAIN reading' = Sessions /\ \A t \in Sessions : ReadingOK(t)'
  <2>1. /\ rows' = rows
        /\ reading' = [reading EXCEPT ![s] = [started |-> TRUE, cycles |-> CyclesToFollow,
                                              known |-> {k.customer : k \in PairCycles}]]
    BY <1>7 DEF BeginList, vars, tables
  <2>2. \A k \in PairCycles : k.customer \in Customers /\ k \in CyclesToFollow
    BY DEF PairCycles, CyclesToFollow
  <2>3. \A k \in CyclesToFollow : k.customer \in Everyone
    BY DEF PairCycles, CyclesToFollow, Everyone
  <2>4. ASSUME NEW k \in CyclesToFollow, k.customer \in Customers, k.projected
        PROVE  \E p \in Products : OfPair(k.customer, p) # {}
    <3>1. k \in PairCycles
      BY <2>4, ListAssumption DEF CyclesToFollow
    <3>2. PICK c \in Customers, p \in Products :
             k = [customer |-> c, projected |-> cycle[<<c, p>>].projected]
      BY <3>1 DEF PairCycles
    <3>3. Settled(c, p)
      BY <2>4, <3>2 DEF LInv, IInv, Followed
    <3>. QED
      BY <3>2, <3>3 DEF Settled
  <2>5. ReadingOK(s)'
    <3>1. reading'[s] = [started |-> TRUE, cycles |-> CyclesToFollow,
                         known |-> {k.customer : k \in PairCycles}]
      BY <2>1 DEF LInv
    <3>. QED
      BY <2>1, <2>2, <2>3, <2>4, <3>1 DEF ReadingOK, OfPair
  <2>6. \A t \in Sessions : t # s => reading'[t] = reading[t]
    BY <2>1 DEF LInv
  <2>. QED
    BY <1>6, <2>1, <2>5, <2>6 DEF LInv
<1>8. ASSUME NEW s \in Sessions, AnswerList(s)
      PROVE  DOMAIN reading' = Sessions /\ \A t \in Sessions : ReadingOK(t)'
  <2>1. reading' = [reading EXCEPT ![s] = NotReading]
    BY <1>8 DEF AnswerList
  <2>2. ~reading'[s].started /\ \A t \in Sessions : t # s => reading'[t] = reading[t]
    BY <2>1 DEF LInv, NotReading
  <2>3. ReadingOK(s)'
    BY <2>2 DEF ReadingOK
  <2>. QED
    BY <1>6, <2>1, <2>2, <2>3 DEF LInv
<1>9. DOMAIN reading' = Sessions /\ \A s \in Sessions : ReadingOK(s)'
  <2>1. CASE reading' = reading
    BY <1>6, <2>1 DEF LInv
  <2>. QED
    BY <1>1, <1>7, <1>8, <2>1
<1>. QED
  BY <1>2, <1>4, <1>9 DEF LInv

LEMMA LInvHolds == ListSpec => []LInv
BY LInvStart, LInvStep, PTL DEF ListSpec

LEMMA LatestIs ==
    ASSUME TypeOK, NEW c, NEW p, OfPair(c, p) # {}
    PROVE  \E m \in OfPair(c, p) : /\ \A j \in OfPair(c, p) : j <= m
                                   /\ Latest(c, p) = rows[m].closeReason
<1> DEFINE S == OfPair(c, p)
<1>1. Latest(c, p) = rows[Max(S)].closeReason
  BY DEF Latest, OfPair
<1>2. S \subseteq 1..Len(rows) /\ Len(rows) \in Nat
  BY RowTypes DEF OfPair
<1>3. S # {}
  OBVIOUS
<1> HIDE DEF S
<1>4. IsFiniteSet(S) /\ S \subseteq Int
  <2>1. IsFiniteSet(1..Len(rows))
    BY <1>2, FS_Interval
  <2>2. IsFiniteSet(S)
    BY ONLY <1>2, <2>1, FS_Subset
  <2>. QED
    BY <1>2, <2>2
<1>5. Max(S) \in S /\ \A j \in S : j <= Max(S)
  BY ONLY <1>3, <1>4, Extremes
<1>. QED
  BY <1>1, <1>5 DEF S

\* A customer with no open follow-up whose pair had one: its last follow-up
\* was closed by a person or by a sale.
LEMMA ClosedForGood ==
    ASSUME LInv, NEW c \in Customers, NEW p \in Products, OpenOf(c, p) = {}
    PROVE  /\ cycle[<<c, p>>].projected => Latest(c, p) = "dismissed"
           /\ OfPair(c, p) # {} => Latest(c, p) \in {"sale", "dismissed"}
<1>1. ASSUME OfPair(c, p) # {}
      PROVE  /\ Latest(c, p) \in {"sale", "dismissed"}
             /\ cycle[<<c, p>>].projected => Latest(c, p) = "dismissed"
  <2>1. PICK m \in OfPair(c, p) : /\ \A j \in OfPair(c, p) : j <= m
                                  /\ Latest(c, p) = rows[m].closeReason
    BY <1>1, LatestIs DEF LInv, IInv
  <2>2. m \in DOMAIN rows /\ rows[m].customer = c /\ rows[m].product = p
    BY <2>1 DEF OfPair
  <2>3. \A j \in OfPair(c, p) : j \in Nat
    BY RowTypes DEF OfPair, LInv, IInv
  <2>4. rows[m].closeReason \in Reasons \ {"none"}
    <3>1. rows[m].closeReason \in Reasons
      BY <2>2, RowTypes DEF LInv, IInv, FollowUp
    <3>. QED
      BY <2>2, <3>1 DEF OpenOf, IsOpen
  <2>5. rows[m].closeReason # "postponed"
    BY <2>1, <2>2, <2>3 DEF LInv, PostponedGoOn
  <2>6. cycle[<<c, p>>].projected => rows[m].closeReason = "dismissed"
    <3> SUFFICES ASSUME cycle[<<c, p>>].projected PROVE rows[m].closeReason = "dismissed"
      OBVIOUS
    <3>1. PICK l \in OfPair(c, p) : /\ \A j \in OfPair(c, p) : j <= l
                                    /\ rows[l].closeReason \in {"none", "dismissed"}
      BY DEF LInv, IInv, Followed, Settled
    <3>2. l = m
      BY <2>1, <2>3, <3>1
    <3>. QED
      BY <2>4, <3>1, <3>2
  <2>. QED
    BY <2>1, <2>4, <2>5, <2>6 DEF Reasons
<1>2. cycle[<<c, p>>].projected => OfPair(c, p) # {}
  BY DEF LInv, IInv, Followed, Settled
<1>. QED
  BY <1>1, <1>2

LEMMA AnswerFinds ==
    ASSUME Few, LInv, NEW s \in Sessions, AnswerList(s), NEW days \in [OpenRows -> DaysUntil],
           NEW c \in reading[s].known \ Answered(s, days)
    PROVE  /\ \A p \in Products : cycle[<<c, p>>].projected => Latest(c, p) = "dismissed"
           /\ \E p \in Products :
                 \/ Latest(c, p) = "dismissed"
                 \/ Latest(c, p) = "sale" /\ ~cycle[<<c, p>>].projected
<1> DEFINE open == OpenFollowUps(days)
           cycles == reading[s].cycles
<1>1. /\ c \in Customers /\ \E k \in cycles : k.customer = c
      /\ \A k \in cycles : /\ k.customer \in Everyone
                           /\ k.customer = c /\ k.projected =>
                                 \E p \in Products : OfPair(c, p) # {}
  BY DEF AnswerList, LInv, ReadingOK
<1>2. Readable(cycles, open)
  BY <1>1, TablesReadable DEF LInv, IInv, Readable
<1>3. c \notin CustomersDue(open) \cup NeedEstimate(cycles, open)
  <2>1. "all" \in Filters /\ Listed("all", cycles, open)
                               = CustomersDue(open) \cup NeedEstimate(cycles, open)
    BY DEF Filters, Listed
  <2>2. Answered(s, days) = Listed("all", cycles, open)
    BY <1>2, <2>1, PageIs DEF Answered
  <2>. QED
    BY <2>1, <2>2
<1>4. DueItems(c, open) = {}
  BY <1>3 DEF CustomersDue, DueItems
<1>5. \A p \in Products : OpenOf(c, p) = {}
  <2> SUFFICES ASSUME NEW p \in Products, NEW i \in OpenOf(c, p) PROVE FALSE
    OBVIOUS
  <2> DEFINE x == [customer |-> rows[i].customer, product |-> rows[i].product, days |-> days[i]]
  <2>1. i \in OpenRows /\ rows[i].customer = c
    BY DEF OpenOf, OpenRows
  <2>2. x \in open
    BY <2>1 DEF OpenFollowUps
  <2>3. x.customer = c
    BY <2>1
  <2> HIDE DEF x
  <2>. QED
    BY <1>4, <2>2, <2>3 DEF DueItems
<1>6. PICK p \in Products : OfPair(c, p) # {}
  <2>1. \E k \in cycles : k.customer = c /\ k.projected
    BY <1>1, <1>3, <1>4 DEF NeedEstimate
  <2>. QED
    BY <1>1, <2>1
<1>7. \A q \in Products : /\ cycle[<<c, q>>].projected => Latest(c, q) = "dismissed"
                          /\ OfPair(c, q) # {} => Latest(c, q) \in {"sale", "dismissed"}
  BY <1>1, <1>5, ClosedForGood
<1>. QED
  BY <1>6, <1>7

\* Whoever has bought stays in the list of customers to call, for up to a
\* hundred of them, whatever commits between the read of the cycles and that
\* of the follow-ups: a projected pair had a follow-up by then, and what has
\* become of it is a dismissal, or a sale that found no projection.
THEOREM NobodyForgotten == ASSUME Few PROVE ListSpec => NobodyIsForgotten
<1>1. LInv /\ [ListNext]_listVars =>
         [\A s \in Sessions : AnswerList(s) =>
             \A days \in [OpenRows -> DaysUntil] :
                \A c \in reading[s].known \ Answered(s, days) :
                   /\ \A p \in Products : cycle[<<c, p>>].projected => Latest(c, p) = "dismissed"
                   /\ \E p \in Products :
                         \/ Latest(c, p) = "dismissed"
                         \/ Latest(c, p) = "sale" /\ ~cycle[<<c, p>>].projected]_listVars
  BY AnswerFinds
<1>. QED
  BY <1>1, LInvHolds, PTL DEF ListSpec, NobodyIsForgotten

\* The numbers of the panel are those of the lists they open, for up to a
\* hundred customers and for any due dates: a list has one entry for each
\* customer, and each follow-up is in one day of the calendar.
THEOREM TilesMatch == ASSUME Few PROVE ListSpec => []TilesMatchFilters
<1>1. LInv => TilesMatchFilters
  BY TilesHold DEF LInv, IInv
<1>. QED
  BY <1>1, LInvHolds, PTL
=============================================================================
