--------------------------- MODULE CashBookProofs ---------------------------
(***************************************************************************)
(* The theorems of SalePayment, PaymentHistory, CashBook and SaleLists, for*)
(* any number of sessions, sales, cash rows and movements.                 *)
(***************************************************************************)
EXTENDS SaleLists, Sums, SequenceTheorems, TLAPS

(* The types, what a session holds of a sale, and the payment date.        *)

\* What a session selected belongs to its sale, and every sale in progress
\* exists.
StaleOK ==
    \A s \in Sessions :
        /\ op[s] # NoOp => op[s].sale \in Existing
        /\ stale[s] # {} => op[s].kind = "deleting"
        /\ \A e \in stale[s] : e.sale = op[s].sale

IInv == TypeOK /\ StaleOK /\ DateMatchesStatus

\* The inductive invariant holds before any sale exists.
LEMMA InvStart == Init => IInv
BY DEF Init, IInv, TypeOK, StaleOK, DateMatchesStatus, Existing, Operation

\* Inserting a row keeps the types and hides no row.
LEMMA RecordKept ==
    ASSUME TypeOK, NEW v \in Sales, NEW d \in Dates, Record(v, d) \/ Insert(v, d)
    PROVE  entradas' \subseteq Entrada /\ lastId' \in Nat /\ entradas \subseteq entradas'
BY DEF Record, Insert, TypeOK, Entrada

\* Every step keeps the inductive invariant.
LEMMA InvStep == IInv /\ [Next]_vars => IInv'
<1> SUFFICES ASSUME IInv, [Next]_vars PROVE IInv'
  OBVIOUS
<1> USE DEF Existing
<1>1. TypeOK /\ StaleOK /\ DateMatchesStatus
  BY DEF IInv
<1>2. CASE CreateSale
  <2>1. PICK v \in Sales \ Existing, d \in Dates \cup {NoDate}, at \in Dates :
           /\ pending' = [w \in Existing \cup {v} |-> IF w = v THEN d = NoDate ELSE pending[w]]
           /\ payDate' = [w \in Existing \cup {v} |-> IF w = v THEN d ELSE payDate[w]]
           /\ IF d = NoDate THEN UNCHANGED <<entradas, lastId>> ELSE Record(v, at)
           /\ UNCHANGED <<op, stale>>
    BY <1>2 DEF CreateSale
  <2>2. entradas' \subseteq Entrada /\ lastId' \in Nat /\ entradas \subseteq entradas'
    BY <1>1, <2>1, RecordKept DEF TypeOK
  <2>3. /\ DOMAIN pending' = Existing \cup {v}
        /\ pending'[v] <=> d = NoDate
        /\ payDate'[v] = d
        /\ \A w \in Existing : pending'[w] = pending[w] /\ payDate'[w] = payDate[w]
    BY <2>1
  <2>4. TypeOK'
    BY <1>1, <2>1, <2>2 DEF TypeOK
  <2>5. StaleOK'
    BY <1>1, <2>1, <2>3 DEF StaleOK
  <2>6. DateMatchesStatus'
    BY <1>1, <2>3 DEF DateMatchesStatus
  <2>. QED
    BY <2>4, <2>5, <2>6 DEF IInv
<1>3. CASE RecordByHand
  <2>1. PICK v \in Existing, d \in LooseDates :
           Insert(v, d) /\ UNCHANGED <<pending, payDate, op, stale>>
    BY <1>3 DEF RecordByHand
  <2>2. entradas' \subseteq Entrada /\ lastId' \in Nat /\ entradas \subseteq entradas'
    BY <1>1, <2>1, PaymentAssumption, RecordKept DEF TypeOK
  <2>3. TypeOK' /\ StaleOK' /\ DateMatchesStatus'
    BY <1>1, <2>1, <2>2 DEF TypeOK, StaleOK, DateMatchesStatus
  <2>. QED
    BY <2>3 DEF IInv
<1>4. ASSUME NEW s \in Sessions, LoadToPay(s) \/ LoadToCollect(s)
      PROVE  IInv'
  <2>1. PICK v \in Existing, d \in Dates :
           op' = [op EXCEPT ![s] = [kind |-> "pay", sale |-> v, date |-> d]]
    BY <1>1, <1>4 DEF LoadToPay, LoadToCollect, TypeOK
  <2>2. op[s] = NoOp /\ UNCHANGED <<pending, payDate, entradas, lastId, stale>>
    BY <1>4 DEF LoadToPay, LoadToCollect
  <2>3. TypeOK'
    BY <1>1, <2>1, <2>2 DEF TypeOK, Operation
  <2>4. StaleOK'
    BY <1>1, <2>1, <2>2 DEF StaleOK, TypeOK, NoOp
  <2>. QED
    BY <1>1, <2>2, <2>3, <2>4 DEF IInv, DateMatchesStatus
<1>5. ASSUME NEW s \in Sessions, LoadToUnpay(s)
      PROVE  IInv'
  <2>1. TypeOK'
    BY <1>1, <1>5 DEF LoadToUnpay, TypeOK, Operation
  <2>2. StaleOK'
    BY <1>1, <1>5 DEF LoadToUnpay, StaleOK, TypeOK, NoOp
  <2>. QED
    BY <1>1, <1>5, <2>1, <2>2
       DEF LoadToUnpay, IInv, DateMatchesStatus
<1>6. ASSUME NEW s \in Sessions, SelectEntradas(s)
      PROVE  IInv'
  <2>1. op[s] \in [kind : {"unpay", "deleting"}, sale : Sales]
    BY <1>1, <1>6 DEF SelectEntradas, TypeOK, Operation, NoOp
  <2>2. op' = [op EXCEPT ![s] = [kind |-> "deleting", sale |-> op[s].sale]]
    BY <1>6, <2>1 DEF SelectEntradas
  <2>3. /\ stale' = [stale EXCEPT ![s] = EntradasOf(op[s].sale)]
        /\ UNCHANGED <<pending, payDate, entradas, lastId>>
    BY <1>6 DEF SelectEntradas
  <2>4. TypeOK'
    BY <1>1, <2>1, <2>2, <2>3 DEF TypeOK, Operation, EntradasOf
  <2>5. op[s] # NoOp
    BY <1>6 DEF SelectEntradas, NoOp
  <2>6. StaleOK'
    BY <1>1, <2>2, <2>3, <2>5 DEF StaleOK, TypeOK, EntradasOf, NoOp
  <2>. QED
    BY <1>1, <2>3, <2>4, <2>6 DEF IInv, DateMatchesStatus
<1>7. ASSUME NEW s \in Sessions, CommitPay(s)
      PROVE  IInv'
  <2> DEFINE v == op[s].sale
  <2> DEFINE d == op[s].date
  <2>1. v \in Existing /\ v \in Sales /\ d \in Dates
    BY <1>1, <1>7 DEF CommitPay, TypeOK, StaleOK, Operation, NoOp
  <2>2. /\ pending' = [pending EXCEPT ![v] = FALSE]
        /\ payDate' = [payDate EXCEPT ![v] = d]
        /\ Record(v, d)
        /\ op' = [op EXCEPT ![s] = NoOp]
        /\ stale' = stale
    BY <1>7 DEF CommitPay
  <2>3. entradas' \subseteq Entrada /\ lastId' \in Nat /\ entradas \subseteq entradas'
    BY <1>1, <2>1, <2>2, RecordKept
  <2>4. TypeOK'
    BY <1>1, <2>1, <2>2, <2>3 DEF TypeOK, Operation
  <2>5. stale[s] = {}
    BY <1>1, <1>7 DEF CommitPay, StaleOK
  <2>6. StaleOK'
    BY <1>1, <2>2, <2>5 DEF StaleOK, TypeOK
  <2>7. DateMatchesStatus'
    BY <1>1, <2>1, <2>2, PaymentAssumption DEF DateMatchesStatus, TypeOK
  <2>. QED
    BY <2>4, <2>6, <2>7 DEF IInv
<1>8. ASSUME NEW s \in Sessions, CommitUnpay(s)
      PROVE  IInv'
  <2> DEFINE v == op[s].sale
  <2>1. op[s] # NoOp /\ v \in Existing /\ \A e \in stale[s] : e.sale = v
    BY <1>1, <1>8 DEF CommitUnpay, StaleOK, NoOp
  <2>2. /\ pending' = [pending EXCEPT ![v] = TRUE]
        /\ payDate' = [payDate EXCEPT ![v] = NoDate]
        /\ entradas' = entradas \ stale[s]
        /\ op' = [op EXCEPT ![s] = NoOp]
        /\ stale' = [stale EXCEPT ![s] = {}]
        /\ lastId' = lastId
    BY <1>8 DEF CommitUnpay
  <2>3. TypeOK'
    BY <1>1, <2>1, <2>2 DEF TypeOK, Operation
  <2>4. StaleOK'
    BY <1>1, <2>2 DEF StaleOK, TypeOK
  <2>5. DateMatchesStatus'
    BY <1>1, <2>1, <2>2 DEF DateMatchesStatus, TypeOK
  <2>. QED
    BY <2>3, <2>4, <2>5 DEF IInv
<1>9. ASSUME NEW s \in Sessions, Fail(s)
      PROVE  IInv'
  <2>1. TypeOK' /\ StaleOK'
    BY <1>1, <1>9 DEF Fail, TypeOK, StaleOK, Operation
  <2>. QED
    BY <1>1, <1>9, <2>1 DEF Fail, IInv, DateMatchesStatus
<1>10. CASE UNCHANGED vars
  BY <1>1, <1>10 DEF vars, IInv, TypeOK, StaleOK, DateMatchesStatus
<1>. QED
  BY <1>2, <1>3, <1>4, <1>5, <1>6, <1>7, <1>8, <1>9, <1>10 DEF Next

\* The inductive invariant holds throughout.
LEMMA Invariance == Spec => []IInv
BY InvStart, InvStep, PTL DEF Spec

\* Whatever requests move the same sales at once, payment_date is empty exactly while the sale is pending.
THEOREM DatesMatch == Spec => []DateMatchesStatus
<1>1. IInv => DateMatchesStatus
  BY DEF IInv
<1>. QED
  BY <1>1, Invariance, PTL

----------------------------------------------------------------------------
(* A paid sale has its ENTRADA, and exactly one unless requests crossed at *)
(* its sale.  What a session read of a sale that never had two of them at  *)
(* once is still so (Informed).                                            *)

\* No ENTRADA names a sale that does not exist.
Owned == \A e \in entradas : e.sale \in Existing

Informed ==
    \A s \in Sessions : op[s] # NoOp /\ op[s].sale \notin crossed =>
        /\ op[s].kind = "pay" => pending[op[s].sale]
        /\ op[s].kind \in {"unpay", "deleting"} => ~pending[op[s].sale]
        /\ op[s].kind = "deleting" => stale[s] = EntradasOf(op[s].sale)

Once(v) ==
    IF pending[v] \/ v \in Zero
      THEN EntradasOf(v) = {}
      ELSE \E e \in EntradasOf(v) : EntradasOf(v) = {e}

HInv ==
    /\ IInv
    /\ crossed \subseteq Sales
    /\ Shared \subseteq crossed
    /\ Owned
    /\ Informed
    /\ \A v \in Existing \ crossed : Once(v)
    /\ ofCreation \subseteq entradas
    /\ PaidSaleHasItsEntrada

\* The invariant holds before any sale exists.
LEMMA HInvStart == HInit => HInv
<1> SUFFICES ASSUME HInit PROVE HInv
  OBVIOUS
<1>1. IInv
  BY InvStart DEF HInit
<1>2. Existing = {}
  BY DEF HInit, Init, Existing
<1>. QED
  BY <1>1, <1>2 DEF HInit, Init, HInv, Shared, Owned, Informed, NoOp, PaidSaleHasItsEntrada

\* A session alone at its sale, or at one that is in the history.
LEMMA Alone ==
    ASSUME HInv, NEW s \in Sessions, NEW r \in Sessions, s # r,
           op[s] # NoOp, op[r] # NoOp, op[s].sale = op[r].sale
    PROVE  op[s].sale \in crossed
<1>1. op[s].sale \in Existing
  BY DEF HInv, IInv, StaleOK
<1>2. op[s].sale \in Shared
  BY <1>1 DEF Shared, WorksOn
<1>. QED
  BY <1>2 DEF HInv

\* A sale that keeps its status and its ENTRADAs keeps what Once says.
LEMMA Elsewhere ==
    ASSUME NEW v, pending'[v] = pending[v], EntradasOf(v)' = EntradasOf(v), Once(v)
    PROVE  Once(v)'
BY DEF Once

\* What recording a payment does to the ENTRADAs of each sale.
LEMMA Recorded ==
    ASSUME TypeOK, NEW v \in Sales, NEW d, Record(v, d)
    PROVE  /\ \A w : w # v => EntradasOf(w)' = EntradasOf(w)
           /\ v \in Zero => EntradasOf(v)' = EntradasOf(v)
           /\ v \notin Zero => \E e : EntradasOf(v)' = EntradasOf(v) \cup {e}
           /\ \A e \in entradas' : e \in entradas \/ e.sale = v
<1>1. CASE v \in Zero
  BY <1>1 DEF Record, EntradasOf
<1>2. CASE v \notin Zero
  <2> DEFINE e == [id |-> lastId', sale |-> v, date |-> d]
  <2>1. entradas' = entradas \cup {e} /\ e.sale = v
    BY <1>2 DEF Record, Insert
  <2>2. EntradasOf(v)' = EntradasOf(v) \cup {e}
    BY <2>1 DEF EntradasOf
  <2>. QED
    BY <1>2, <2>1, <2>2 DEF EntradasOf
<1>. QED
  BY <1>1, <1>2

\* A step of a session on its own sale, in the terms of the invariant: the
\* other sales keep theirs, and its own is as Once says if nobody crossed.
LEMMA OwnSale ==
    ASSUME HInv, NEW s \in Sessions, op[s] # NoOp, NEW v, v = op[s].sale,
           op' = [op EXCEPT ![s] = NoOp], stale' = [stale EXCEPT ![s] = {}],
           DOMAIN pending' = Existing, crossed \subseteq crossed',
           \A w \in Existing : w # v =>
               pending'[w] = pending[w] /\ EntradasOf(w)' = EntradasOf(w),
           v \notin crossed => Once(v)'
    PROVE  Informed' /\ \A w \in Existing' \ crossed' : Once(w)'
<1>1. TypeOK /\ StaleOK /\ Informed /\ Existing' = Existing
  BY DEF HInv, IInv, Existing
<1>2. ASSUME NEW w \in Existing' \ crossed' PROVE Once(w)'
  <2>1. w \in Existing \ crossed
    BY <1>1, <1>2
  <2>2. CASE w = v
    BY <2>1, <2>2
  <2>3. CASE w # v
    <3>1. pending'[w] = pending[w] /\ EntradasOf(w)' = EntradasOf(w) /\ Once(w)
      BY <2>1, <2>3 DEF HInv
    <3>. QED
      BY <3>1, Elsewhere
  <2>. QED
    BY <2>2, <2>3
<1>3. ASSUME NEW r \in Sessions, op'[r] # NoOp, op'[r].sale \notin crossed'
      PROVE  /\ op'[r].kind = "pay" => pending'[op'[r].sale]
             /\ op'[r].kind \in {"unpay", "deleting"} => ~pending'[op'[r].sale]
             /\ op'[r].kind = "deleting" =>
                   stale'[r] = {e \in entradas' : e.sale = op'[r].sale}
  <2>0. PICK u : u = op[r].sale
    OBVIOUS
  <2>1. r # s /\ op'[r] = op[r] /\ stale'[r] = stale[r]
    BY <1>1, <1>3 DEF TypeOK
  <2>2. u \in Existing /\ u \notin crossed
    BY <1>1, <1>3, <2>0, <2>1 DEF StaleOK
  <2>3. u # v
    BY <1>3, <2>0, <2>1, <2>2, Alone
  <2>4. pending'[u] = pending[u] /\ EntradasOf(u)' = EntradasOf(u)
    BY <2>2, <2>3
  <2>5. EntradasOf(u)' = {e \in entradas' : e.sale = u}
    BY DEF EntradasOf
  <2>6. /\ op[r].kind = "pay" => pending[u]
        /\ op[r].kind \in {"unpay", "deleting"} => ~pending[u]
        /\ op[r].kind = "deleting" => stale[r] = EntradasOf(u)
    BY <1>1, <1>3, <2>0, <2>1, <2>2 DEF Informed
  <2>. QED
    BY <2>0, <2>1, <2>4, <2>5, <2>6
<1>4. Informed'
  BY <1>3 DEF Informed, EntradasOf
<1>. QED
  BY <1>2, <1>4

\* A session that only reads: its sale is as it saw it.
LEMMA OnlyReads ==
    ASSUME HInv, NEW s \in Sessions, NEW o, UNCHANGED <<pending, entradas>>,
           op' = [op EXCEPT ![s] = o], crossed \subseteq crossed',
           \A r \in Sessions \ {s} : stale'[r] = stale[r],
           o # NoOp /\ o.sale \notin crossed' =>
               /\ o.kind = "pay" => pending[o.sale]
               /\ o.kind \in {"unpay", "deleting"} => ~pending[o.sale]
               /\ o.kind = "deleting" => stale'[s] = EntradasOf(o.sale)
    PROVE  Owned' /\ Informed' /\ \A v \in Existing' \ crossed' : Once(v)'
<1>1. /\ TypeOK /\ Informed /\ Owned /\ Existing' = Existing
      /\ \A v : EntradasOf(v)' = EntradasOf(v)
  BY DEF HInv, IInv, Existing, EntradasOf
<1>2. ASSUME NEW v \in Existing' \ crossed' PROVE Once(v)'
  <2>1. pending'[v] = pending[v] /\ EntradasOf(v)' = EntradasOf(v) /\ Once(v)
    BY <1>1, <1>2 DEF HInv
  <2>. QED
    BY <2>1, Elsewhere
<1>3. Informed'
  BY <1>1 DEF Informed, TypeOK, EntradasOf
<1>. QED
  BY <1>1, <1>2, <1>3 DEF Owned

\* A sale with no request at it yet, or one more ENTRADA by hand.
LEMMA NoSessionStep ==
    ASSUME HInv, CreateSale \/ RecordByHand, crossed' = crossed \cup Shared' \cup ByHand
    PROVE  Owned' /\ Informed' /\ \A v \in Existing' \ crossed' : Once(v)'
<1>1. TypeOK /\ StaleOK /\ Owned /\ Informed /\ \A v \in Existing \ crossed : Once(v)
  BY DEF HInv, IInv
<1>2. CASE CreateSale
  <2>1. PICK v \in Sales \ Existing, d \in Dates \cup {NoDate}, at \in Dates :
           /\ pending' = [w \in Existing \cup {v} |-> IF w = v THEN d = NoDate ELSE pending[w]]
           /\ IF d = NoDate THEN UNCHANGED <<entradas, lastId>> ELSE Record(v, at)
           /\ UNCHANGED <<op, stale>>
    BY <1>2 DEF CreateSale
  <2>2. /\ Existing' = Existing \cup {v}
        /\ pending'[v] <=> d = NoDate
        /\ \A w \in Existing : pending'[w] = pending[w]
    BY <2>1 DEF Existing
  <2>3. EntradasOf(v) = {}
    BY <1>1, <2>1 DEF Owned, EntradasOf
  <2>4. /\ \A w \in Existing : EntradasOf(w)' = EntradasOf(w)
        /\ \A e \in entradas' : e \in entradas \/ e.sale = v
        /\ d = NoDate \/ v \in Zero => EntradasOf(v)' = {}
        /\ d # NoDate /\ v \notin Zero => \E e : EntradasOf(v)' = {e}
    <3>1. CASE d = NoDate
      BY <2>1, <2>3, <3>1 DEF EntradasOf
    <3>2. CASE d # NoDate
      BY <1>1, <2>1, <2>3, <3>2, Recorded
    <3>. QED
      BY <3>1, <3>2
  <2>5. Owned'
    BY <1>1, <2>2, <2>4 DEF Owned
  <2>6. Once(v)'
    BY <2>2, <2>4 DEF Once
  <2>7. ASSUME NEW w \in Existing \ crossed' PROVE Once(w)'
    <3>1. pending'[w] = pending[w] /\ EntradasOf(w)' = EntradasOf(w) /\ Once(w)
      BY <1>1, <2>2, <2>4, <2>7
    <3>. QED
      BY <3>1, Elsewhere
  <2>8. ASSUME NEW r \in Sessions, op[r] # NoOp, op[r].sale \notin crossed'
        PROVE  /\ op[r].kind = "pay" => pending'[op[r].sale]
               /\ op[r].kind \in {"unpay", "deleting"} => ~pending'[op[r].sale]
               /\ op[r].kind = "deleting" =>
                     stale[r] = {e \in entradas' : e.sale = op[r].sale}
    <3>1. PICK u \in Existing \ crossed : u = op[r].sale
      BY <1>1, <2>8 DEF StaleOK
    <3>2. pending'[u] = pending[u] /\ EntradasOf(u)' = EntradasOf(u)
      BY <2>2, <2>4, <3>1
    <3>3. EntradasOf(u)' = {e \in entradas' : e.sale = u}
      BY DEF EntradasOf
    <3>. QED
      BY <1>1, <2>8, <3>1, <3>2, <3>3 DEF Informed
  <2>9. Informed'
    BY <2>1, <2>8 DEF Informed, EntradasOf
  <2>. QED
    BY <2>2, <2>5, <2>6, <2>7, <2>9
<1>3. CASE RecordByHand
  <2>1. PICK v \in Existing, d \in LooseDates :
           Insert(v, d) /\ UNCHANGED <<pending, payDate, op, stale>>
    BY <1>3 DEF RecordByHand
  <2>2. /\ Existing' = Existing
        /\ \A e \in entradas' : e \in entradas \/ e.sale = v
    BY <2>1 DEF Existing, Insert
  <2>3. \A w \in Existing \ crossed' : EntradasOf(w)' = EntradasOf(w) /\ w \notin crossed
    BY <1>3 DEF ByHand
  <2>4. ASSUME NEW w \in Existing \ crossed' PROVE Once(w)'
    <3>1. pending'[w] = pending[w] /\ EntradasOf(w)' = EntradasOf(w) /\ Once(w)
      BY <1>1, <2>1, <2>3, <2>4
    <3>. QED
      BY <3>1, Elsewhere
  <2>5. ASSUME NEW r \in Sessions, op[r] # NoOp, op[r].sale \notin crossed'
        PROVE  /\ op[r].kind = "pay" => pending[op[r].sale]
               /\ op[r].kind \in {"unpay", "deleting"} => ~pending[op[r].sale]
               /\ op[r].kind = "deleting" =>
                     stale[r] = {e \in entradas' : e.sale = op[r].sale}
    <3>1. PICK u \in Existing \ crossed' : u = op[r].sale
      BY <1>1, <2>5 DEF StaleOK
    <3>2. EntradasOf(u)' = {e \in entradas' : e.sale = u}
      BY DEF EntradasOf
    <3>. QED
      BY <1>1, <2>3, <2>5, <3>1, <3>2 DEF Informed
  <2>6. Informed'
    BY <2>1, <2>5 DEF Informed, EntradasOf
  <2>7. Owned'
    BY <1>1, <2>2 DEF Owned
  <2>. QED
    BY <2>2, <2>4, <2>6, <2>7
<1>. QED
  BY <1>2, <1>3

\* The commit of a payment or of an un-payment, read from a sale that nobody
\* else was at, is the one its ENTRADAs need.
LEMMA CommitStep ==
    ASSUME HInv, NEW s \in Sessions, CommitPay(s) \/ CommitUnpay(s),
           crossed \subseteq crossed'
    PROVE  Owned' /\ Informed' /\ \A v \in Existing' \ crossed' : Once(v)'
<1>1. TypeOK /\ StaleOK /\ Owned /\ Informed
  BY DEF HInv, IInv
<1>2. op[s] # NoOp
  BY DEF CommitPay, CommitUnpay, NoOp
<1>3. PICK v \in Existing : v = op[s].sale
  BY <1>1, <1>2 DEF StaleOK
<1>4. CASE CommitPay(s)
  <2>1. /\ pending' = [pending EXCEPT ![v] = FALSE]
        /\ Record(v, op[s].date) /\ op' = [op EXCEPT ![s] = NoOp] /\ stale' = stale
        /\ op[s].kind = "pay"
    BY <1>3, <1>4 DEF CommitPay
  <2>2. v \in Sales /\ DOMAIN pending' = Existing /\ pending'[v] = FALSE
    BY <1>1, <1>3, <2>1 DEF TypeOK, Existing
  <2>3. stale' = [stale EXCEPT ![s] = {}]
    BY <1>1, <2>1 DEF StaleOK, TypeOK
  <2>4. /\ \A w : w # v => EntradasOf(w)' = EntradasOf(w)
        /\ v \in Zero => EntradasOf(v)' = EntradasOf(v)
        /\ v \notin Zero => \E e : EntradasOf(v)' = EntradasOf(v) \cup {e}
        /\ \A e \in entradas' : e \in entradas \/ e.sale = v
    BY <1>1, <2>1, <2>2, Recorded
  <2>5. v \notin crossed => Once(v)'
    <3>1. v \notin crossed => pending[v] /\ Once(v)
      BY <1>1, <1>2, <1>3, <2>1 DEF Informed, HInv
    <3>2. v \notin crossed => EntradasOf(v) = {}
      BY <3>1 DEF Once
    <3>. QED
      BY <2>2, <2>4, <3>2 DEF Once
  <2>6. \A w \in Existing : w # v =>
           pending'[w] = pending[w] /\ EntradasOf(w)' = EntradasOf(w)
    BY <1>1, <2>1, <2>4 DEF TypeOK
  <2>7. Owned'
    BY <1>1, <1>3, <2>2, <2>4 DEF Owned, Existing
  <2>. QED
    BY <1>2, <1>3, <2>1, <2>2, <2>3, <2>5, <2>6, <2>7, OwnSale
<1>5. CASE CommitUnpay(s)
  <2>1. /\ pending' = [pending EXCEPT ![v] = TRUE]
        /\ entradas' = entradas \ stale[s]
        /\ op' = [op EXCEPT ![s] = NoOp] /\ stale' = [stale EXCEPT ![s] = {}]
        /\ op[s].kind = "deleting"
    BY <1>3, <1>5 DEF CommitUnpay
  <2>2. DOMAIN pending' = Existing /\ pending'[v] = TRUE
    BY <1>1, <1>3, <2>1 DEF TypeOK, Existing
  <2>3. \A w : w # v => EntradasOf(w)' = EntradasOf(w)
    BY <1>1, <1>2, <1>3, <2>1 DEF StaleOK, EntradasOf
  <2>4. v \notin crossed => Once(v)'
    <3>1. v \notin crossed => stale[s] = EntradasOf(v)
      BY <1>1, <1>2, <1>3, <2>1 DEF Informed
    <3>2. v \notin crossed => EntradasOf(v)' = {}
      BY <2>1, <3>1 DEF EntradasOf
    <3>. QED
      BY <2>2, <3>2 DEF Once
  <2>5. \A w \in Existing : w # v =>
           pending'[w] = pending[w] /\ EntradasOf(w)' = EntradasOf(w)
    BY <1>1, <2>1, <2>3 DEF TypeOK
  <2>6. Owned'
    BY <1>1, <2>1, <2>2 DEF Owned, Existing
  <2>. QED
    BY <1>2, <1>3, <2>1, <2>2, <2>4, <2>5, <2>6, OwnSale
<1>. QED
  BY <1>4, <1>5

\* Reading a sale, selecting its ENTRADAs or dying writes nothing.
LEMMA ReadStep ==
    ASSUME HInv, NEW s \in Sessions, crossed \subseteq crossed',
           \/ LoadToPay(s) \/ LoadToCollect(s) \/ LoadToUnpay(s)
           \/ SelectEntradas(s) \/ Fail(s)
    PROVE  Owned' /\ Informed' /\ \A v \in Existing' \ crossed' : Once(v)'
<1>1. TypeOK /\ Informed
  BY DEF HInv, IInv
<1>2. CASE LoadToPay(s) \/ LoadToCollect(s)
  <2>1. PICK v, d :
           /\ v \in Existing
           /\ pending[v]
           /\ op' = [op EXCEPT ![s] = [kind |-> "pay", sale |-> v, date |-> d]]
           /\ UNCHANGED <<pending, entradas, stale>>
    BY <1>2 DEF LoadToPay, LoadToCollect
  <2>. QED
    BY <2>1, OnlyReads
<1>3. CASE LoadToUnpay(s)
  <2>1. PICK v \in Existing :
           /\ ~pending[v]
           /\ op' = [op EXCEPT ![s] = [kind |-> "unpay", sale |-> v]]
           /\ UNCHANGED <<pending, entradas, stale>>
    BY <1>3 DEF LoadToUnpay
  <2>. QED
    BY <2>1, OnlyReads
<1>4. CASE SelectEntradas(s)
  <2>1. PICK v : v = op[s].sale
    OBVIOUS
  <2>2. /\ op[s].kind = "unpay" /\ op[s] # NoOp
        /\ op' = [op EXCEPT ![s] = [kind |-> "deleting", sale |-> v]]
        /\ stale' = [stale EXCEPT ![s] = EntradasOf(v)]
        /\ UNCHANGED <<pending, entradas>>
    BY <1>4, <2>1 DEF SelectEntradas, NoOp
  <2>3. v \notin crossed => ~pending[v]
    BY <1>1, <2>1, <2>2 DEF Informed
  <2>4. stale'[s] = EntradasOf(v) /\ \A r \in Sessions \ {s} : stale'[r] = stale[r]
    BY <1>1, <2>2 DEF TypeOK
  <2>. QED
    BY <2>2, <2>3, <2>4, OnlyReads
<1>5. CASE Fail(s)
  <2>1. /\ op' = [op EXCEPT ![s] = NoOp] /\ UNCHANGED <<pending, entradas>>
        /\ \A r \in Sessions \ {s} : stale'[r] = stale[r]
    BY <1>1, <1>5 DEF Fail, TypeOK
  <2>. QED
    BY <2>1, OnlyReads
<1>. QED
  BY <1>2, <1>3, <1>4, <1>5

\* A recorded payment is found in the cash book, unless the total is zero.
LEMMA RecordFinds ==
    ASSUME NEW v \in Sales \ Zero, NEW d, Record(v, d)
    PROVE  \E e \in entradas' : e.sale = v /\ e.date = d
<1>1. [id |-> lastId', sale |-> v, date |-> d] \in entradas'
  BY DEF Record, Insert
<1>. QED
  BY <1>1

\* A sale that was paid and still is, with the same payment date, keeps its
\* ENTRADA if the step deletes none of its rows.
LEMMA StillBooked ==
    ASSUME PaidSaleHasItsEntrada, NEW w \in Existing \ Zero, ~pending[w],
           payDate'[w] = payDate[w], EntradasOf(w) \subseteq entradas',
           ofCreation \cap entradas' \subseteq ofCreation'
    PROVE  \E e \in entradas' : e.sale = w /\ (e \in ofCreation' \/ e.date = payDate'[w])
<1>1. PICK e \in EntradasOf(w) : e \in ofCreation \/ e.date = payDate[w]
  BY DEF PaidSaleHasItsEntrada
<1>2. e \in entradas' /\ e.sale = w
  BY <1>1 DEF EntradasOf
<1>. QED
  BY <1>1, <1>2

\* A session that deletes ENTRADAs only deletes those of the sale it makes
\* pending in the same step, whatever it read before (StaleOK).
LEMMA BookedStep ==
    ASSUME HInv, HNext
    PROVE  ofCreation' \subseteq entradas' /\ PaidSaleHasItsEntrada'
<1>1. TypeOK /\ StaleOK /\ Owned /\ PaidSaleHasItsEntrada
  BY DEF HInv, IInv
<1>2. /\ ofCreation' = (ofCreation \cap entradas') \cup Created
      /\ ofCreation \cap entradas' \subseteq ofCreation'
      /\ ofCreation' \subseteq entradas'
  BY DEF HNext, Created
<1> SUFFICES ASSUME NEW w \in Existing' \ Zero, ~pending'[w]
             PROVE  \E e \in entradas' :
                       e.sale = w /\ (e \in ofCreation' \/ e.date = payDate'[w])
  BY <1>2 DEF PaidSaleHasItsEntrada, EntradasOf
<1>3. CASE CreateSale
  <2>1. PICK v \in Sales \ Existing, d \in Dates \cup {NoDate}, at \in Dates :
           /\ pending' = [u \in Existing \cup {v} |-> IF u = v THEN d = NoDate ELSE pending[u]]
           /\ payDate' = [u \in Existing \cup {v} |-> IF u = v THEN d ELSE payDate[u]]
           /\ IF d = NoDate THEN UNCHANGED <<entradas, lastId>> ELSE Record(v, at)
    BY <1>3 DEF CreateSale
  <2>2. /\ Existing' = Existing \cup {v}
        /\ pending'[v] <=> d = NoDate
        /\ \A u \in Existing : pending'[u] = pending[u] /\ payDate'[u] = payDate[u]
    BY <2>1 DEF Existing
  <2>3. entradas \subseteq entradas'
    BY <1>1, <2>1, RecordKept
  <2>4. CASE w = v
    <3>1. d # NoDate /\ v \in Sales \ Zero
      BY <2>2, <2>4
    <3>2. PICK e \in entradas' : e.sale = v
      BY <2>1, <3>1, RecordFinds
    <3>3. e \notin entradas
      BY <1>1, <2>1, <3>2 DEF Owned
    <3>. QED
      BY <1>2, <1>3, <2>4, <3>2, <3>3 DEF Created
  <2>5. CASE w \in Existing
    <3>1. EntradasOf(w) \subseteq entradas'
      BY <2>3 DEF EntradasOf
    <3>. QED
      BY <1>1, <1>2, <2>2, <2>5, <3>1, StillBooked
  <2>. QED
    BY <2>2, <2>4, <2>5
<1>4. ASSUME NEW s \in Sessions, CommitPay(s)
      PROVE  \E e \in entradas' : e.sale = w /\ (e \in ofCreation' \/ e.date = payDate'[w])
  <2> DEFINE v == op[s].sale
             d == op[s].date
  <2>1. v \in Existing /\ v \in Sales /\ d \in Dates
    BY <1>1, <1>4 DEF CommitPay, TypeOK, StaleOK, Operation, NoOp
  <2>2. /\ pending' = [pending EXCEPT ![v] = FALSE]
        /\ payDate' = [payDate EXCEPT ![v] = d]
        /\ Record(v, d)
    BY <1>4 DEF CommitPay
  <2>3. Existing' = Existing /\ entradas \subseteq entradas'
    BY <1>1, <2>1, <2>2, RecordKept DEF Existing
  <2>4. CASE w = v
    <3>1. payDate'[w] = d
      BY <1>1, <2>1, <2>2, <2>4 DEF TypeOK, Existing
    <3>. QED
      BY <2>1, <2>2, <2>4, <3>1, RecordFinds
  <2>5. CASE w # v
    <3>1. ~pending[w] /\ payDate'[w] = payDate[w] /\ EntradasOf(w) \subseteq entradas'
      BY <1>1, <2>2, <2>3, <2>5 DEF TypeOK, Existing, EntradasOf
    <3>. QED
      BY <1>1, <1>2, <2>3, <3>1, StillBooked
  <2>. QED
    BY <2>4, <2>5
<1>5. ASSUME NEW s \in Sessions, CommitUnpay(s)
      PROVE  \E e \in entradas' : e.sale = w /\ (e \in ofCreation' \/ e.date = payDate'[w])
  <2> DEFINE v == op[s].sale
  <2>1. v \in Existing /\ \A e \in stale[s] : e.sale = v
    BY <1>1, <1>5 DEF CommitUnpay, StaleOK, NoOp
  <2>2. /\ pending' = [pending EXCEPT ![v] = TRUE]
        /\ payDate' = [payDate EXCEPT ![v] = NoDate]
        /\ entradas' = entradas \ stale[s]
    BY <1>5 DEF CommitUnpay
  <2>3. Existing' = Existing /\ w # v /\ ~pending[w] /\ payDate'[w] = payDate[w]
    BY <1>1, <2>1, <2>2 DEF TypeOK, Existing
  <2>4. EntradasOf(w) \subseteq entradas'
    BY <2>1, <2>2, <2>3 DEF EntradasOf
  <2>. QED
    BY <1>1, <1>2, <2>3, <2>4, StillBooked
<1>6. CASE RecordByHand
  <2>1. PICK v \in Existing, d \in LooseDates :
           Insert(v, d) /\ UNCHANGED <<pending, payDate>>
    BY <1>6 DEF RecordByHand
  <2>2. Existing' = Existing /\ EntradasOf(w) \subseteq entradas'
    BY <2>1 DEF Existing, Insert, EntradasOf
  <2>. QED
    BY <1>1, <1>2, <2>1, <2>2, StillBooked
<1>7. ASSUME NEW s \in Sessions,
             LoadToPay(s) \/ LoadToCollect(s) \/ LoadToUnpay(s) \/ SelectEntradas(s) \/ Fail(s)
      PROVE  \E e \in entradas' : e.sale = w /\ (e \in ofCreation' \/ e.date = payDate'[w])
  <2>1. UNCHANGED <<pending, payDate, entradas>>
    BY <1>7 DEF LoadToPay, LoadToCollect, LoadToUnpay, SelectEntradas, Fail
  <2>2. Existing' = Existing /\ EntradasOf(w) \subseteq entradas'
    BY <2>1 DEF Existing, EntradasOf
  <2>. QED
    BY <1>1, <1>2, <2>1, <2>2, StillBooked
<1>. QED
  BY <1>3, <1>4, <1>5, <1>6, <1>7 DEF HNext, Next

\* Every step keeps the invariant.
LEMMA HInvStep == HInv /\ [HNext]_hvars => HInv'
<1>1. ASSUME HInv, HNext PROVE HInv'
  <2>1. IInv' /\ Next
    BY <1>1, InvStep DEF HInv, HNext
  <2>2. /\ crossed' = crossed \cup Shared' \cup ByHand
        /\ crossed \subseteq crossed' /\ Shared' \subseteq crossed'
    BY <1>1 DEF HNext
  <2>3. crossed' \subseteq Sales
    <3>1. Shared' \subseteq Existing' /\ ByHand \subseteq Existing
      BY DEF Shared, ByHand
    <3>2. Existing \subseteq Sales /\ Existing' \subseteq Sales
      BY <1>1, <2>1 DEF HInv, IInv, TypeOK
    <3>. QED
      BY <1>1, <2>2, <3>1, <3>2 DEF HInv
  <2>4. Owned' /\ Informed' /\ \A v \in Existing' \ crossed' : Once(v)'
    <3>1. CASE CreateSale \/ RecordByHand
      BY <1>1, <2>2, <3>1, NoSessionStep
    <3>2. ASSUME NEW s \in Sessions, CommitPay(s) \/ CommitUnpay(s)
          PROVE  Owned' /\ Informed' /\ \A v \in Existing' \ crossed' : Once(v)'
      BY <1>1, <2>2, <3>2, CommitStep
    <3>3. ASSUME NEW s \in Sessions,
                 \/ LoadToPay(s) \/ LoadToCollect(s) \/ LoadToUnpay(s)
                 \/ SelectEntradas(s) \/ Fail(s)
          PROVE  Owned' /\ Informed' /\ \A v \in Existing' \ crossed' : Once(v)'
      BY <1>1, <2>2, <3>3, ReadStep
    <3>. QED
      BY <2>1, <3>1, <3>2, <3>3 DEF Next
  <2>5. ofCreation' \subseteq entradas' /\ PaidSaleHasItsEntrada'
    BY <1>1, BookedStep
  <2>. QED
    BY <2>1, <2>2, <2>3, <2>4, <2>5 DEF HInv
<1>2. ASSUME HInv, UNCHANGED hvars PROVE HInv'
  <2>1. IInv'
    BY <1>2, InvStep DEF HInv, hvars
  <2>2. UNCHANGED <<pending, payDate, entradas, lastId, op, stale, crossed, ofCreation>>
    BY <1>2 DEF hvars, vars
  <2>. QED
    BY <1>2, <2>1, <2>2
       DEF HInv, Existing, Shared, WorksOn, Owned, Informed, Once, EntradasOf,
           PaidSaleHasItsEntrada
<1>. QED
  BY <1>1, <1>2

\* The invariant holds throughout.
LEMMA HInvariance == HSpec => []HInv
BY HInvStart, HInvStep, PTL DEF HSpec

\* Whatever requests move the same sales at once, and in whatever order they
\* commit, a sale shown as paid has its ENTRADA: the one that came with it
\* while it is paid as it was created, and else one of its payment date.
THEOREM PaidSalesAreInTheBook == HSpec => []PaidSaleHasItsEntrada
<1>1. HInv => PaidSaleHasItsEntrada
  BY DEF HInv
<1>. QED
  BY <1>1, HInvariance, PTL

\* A sale that never had two requests at once, nor an ENTRADA by hand, is in
\* the cash book once if it is paid, and not at all if it is pending.
THEOREM OneEntrada == HSpec => []OneEntradaUnlessCrossed
<1>1. HInv => OneEntradaUnlessCrossed
  BY DEF HInv, OneEntradaUnlessCrossed, Once
<1>. QED
  BY <1>1, HInvariance, PTL

\* The types of the payments and of their history.
THEOREM PaymentTypes == HSpec => []HistoryTypeOK
<1>1. HInv => HistoryTypeOK
  BY DEF HInv, IInv, HistoryTypeOK
<1>. QED
  BY <1>1, HInvariance, PTL

----------------------------------------------------------------------------
(* The cash book is finite, and no two of its ENTRADAs have one id. *)

BookOK ==
    /\ IsFiniteSet(Existing) /\ IsFiniteSet(entradas)
    /\ \A e \in entradas : e.id <= lastId
    /\ \A e, f \in entradas : e.id = f.id => e = f

BInv == HInv /\ BookOK

\* An inserted row is one more row, with an id of its own.
LEMMA InsertedOnce ==
    ASSUME TypeOK, BookOK, NEW v \in Sales, NEW d \in Dates, Record(v, d) \/ Insert(v, d)
    PROVE  /\ IsFiniteSet(entradas')
           /\ \A e \in entradas' : e.id <= lastId'
           /\ \A e, f \in entradas' : e.id = f.id => e = f
<1>1. CASE UNCHANGED <<entradas, lastId>>
  BY <1>1 DEF BookOK
<1>2. CASE Insert(v, d)
  <2> PICK r : r = [id |-> lastId + 1, sale |-> v, date |-> d]
    OBVIOUS
  <2>1. entradas' = entradas \cup {r} /\ lastId' = lastId + 1 /\ r.id = lastId + 1
    BY <1>2 DEF Insert
  <2>2. lastId \in Nat /\ \A e \in entradas : e.id \in Nat /\ e.id <= lastId
    BY DEF TypeOK, BookOK, Entrada
  <2>3. IsFiniteSet(entradas')
    BY <2>1, FS_AddElement DEF BookOK
  <2>. QED
    BY <2>1, <2>2, <2>3 DEF BookOK
<1>. QED
  BY <1>1, <1>2 DEF Record

\* Every step keeps that.
LEMMA BookStep == HInv /\ BookOK /\ [HNext]_hvars => BookOK'
<1> SUFFICES ASSUME HInv, BookOK, [HNext]_hvars PROVE BookOK'
  OBVIOUS
<1>1. TypeOK
  BY DEF HInv, IInv
<1>2. CASE UNCHANGED <<pending, entradas, lastId>>
  BY <1>2 DEF BookOK, Existing
<1>3. CASE CreateSale
  <2> PICK v \in Sales \ Existing, at \in Dates :
         /\ Existing' = Existing \cup {v}
         /\ Record(v, at) \/ UNCHANGED <<entradas, lastId>>
    BY <1>3 DEF CreateSale, Existing
  <2>1. IsFiniteSet(Existing')
    BY FS_AddElement DEF BookOK
  <2>2. CASE UNCHANGED <<entradas, lastId>>
    BY <2>1, <2>2 DEF BookOK
  <2>3. CASE Record(v, at)
    BY <1>1, <2>1, <2>3, InsertedOnce DEF BookOK
  <2>. QED
    BY <2>2, <2>3
<1>4. CASE RecordByHand
  <2> PICK v \in Existing, d \in LooseDates : Insert(v, d) /\ UNCHANGED pending
    BY <1>4 DEF RecordByHand
  <2>1. v \in Sales /\ d \in Dates
    BY <1>1, PaymentAssumption DEF TypeOK
  <2>. QED
    BY <1>1, <2>1, InsertedOnce DEF BookOK, Existing
<1>5. ASSUME NEW s \in Sessions, CommitPay(s)
      PROVE  BookOK'
  <2>1. op[s].sale \in Sales /\ op[s].date \in Dates
    BY <1>1, <1>5 DEF CommitPay, TypeOK, Operation, NoOp
  <2>2. Existing' = Existing /\ Record(op[s].sale, op[s].date)
    BY <1>5 DEF CommitPay, Existing
  <2>. QED
    BY <1>1, <2>1, <2>2, InsertedOnce DEF BookOK
<1>6. ASSUME NEW s \in Sessions, CommitUnpay(s)
      PROVE  BookOK'
  <2>1. Existing' = Existing /\ entradas' \subseteq entradas /\ lastId' = lastId
    BY <1>6 DEF CommitUnpay, Existing
  <2>2. IsFiniteSet(entradas')
    BY <2>1, FS_Subset DEF BookOK
  <2>. QED
    BY <2>1, <2>2 DEF BookOK
<1>7. ASSUME NEW s \in Sessions,
             LoadToPay(s) \/ LoadToCollect(s) \/ LoadToUnpay(s) \/ SelectEntradas(s) \/ Fail(s)
      PROVE  UNCHANGED <<pending, entradas, lastId>>
  BY <1>7 DEF LoadToPay, LoadToCollect, LoadToUnpay, SelectEntradas, Fail
<1>. QED
  BY <1>2, <1>3, <1>4, <1>5, <1>6, <1>7 DEF HNext, Next, hvars, vars

\* The book of every reachable state is finite and its ids are unique.
LEMMA BInvariance == HSpec => []BInv
<1>1. HInit => BookOK
  <2>1. HInit => Existing = {} /\ entradas = {}
    BY DEF HInit, Init, Existing
  <2>. QED
    BY <2>1, FS_EmptySet DEF BookOK
<1>2. HInit => BInv
  BY <1>1, HInvStart DEF BInv
<1>3. BInv /\ [HNext]_hvars => BInv'
  BY BookStep, HInvStep DEF BInv
<1>. QED
  BY <1>2, <1>3, PTL DEF HSpec

----------------------------------------------------------------------------
(* The sums of the cash book. *)

\* A sum of signed amounts is one of the sums of Sums.
LEMMA SignedSum ==
    ASSUME NEW f, NEW S, IsFiniteSet(S), \A m \in S : f[m] = Signed(m)
    PROVE  Sum(S) = SumOver(f, S)
<1> DEFINE Table(g) == g = [s \in SUBSET S |->
                               IF s = {} THEN 0 ELSE Signed(Pick(s)) + g[s \ {Pick(s)}]]
<1>1. \A g : Table(g) <=> SumTable(g, f, S)
  <2>1. \A s \in SUBSET S : s # {} => f[Pick(s)] = Signed(Pick(s))
    BY PickIn
  <2> TAKE g
  <2>2. [s \in SUBSET S |-> IF s = {} THEN 0 ELSE Signed(Pick(s)) + g[s \ {Pick(s)}]]
          = [s \in SUBSET S |-> IF s = {} THEN 0 ELSE f[Pick(s)] + g[s \ {Pick(s)}]]
    BY <2>1
  <2>. QED
    BY <2>2 DEF SumTable
<1>2. \E g : Table(g)
  BY <1>1, Exist
<1>3. PICK g : g = CHOOSE h : Table(h)
  OBVIOUS
<1>4. SumTable(g, f, S)
  BY <1>1, <1>2, <1>3
<1>5. Sum(S) = g[S]
  BY <1>3 DEF Sum, MapThenSumSet, MapThenFoldSet, Pick
<1>6. SumOver(f, S) = g[S]
  BY ONLY <1>4, IsFiniteSet(S), SumOf
<1>. QED
  BY <1>5, <1>6

\* Every movement of the book is of a signed amount, and on a date.
LEMMA BookTypes ==
    ASSUME BInv
    PROVE  /\ IsFiniteSet(Book)
           /\ \A m \in Book : m.date \in Dates /\ Signed(m) \in Int
           /\ \A e \in entradas : e.sale \notin Zero => Signed(Cobro(e)) = Total[e.sale]
<1>1. TypeOK /\ BookOK
  BY DEF BInv, HInv, IInv
<1>2. \A e \in entradas : /\ Total[e.sale] \in Nat /\ e.date \in Dates
                          /\ e.sale \notin Zero => Total[e.sale] # 0
  BY <1>1, CashAssumption DEF TypeOK, Entrada
<1>3. \A e \in entradas : /\ Cobro(e).type = "entrada" /\ Cobro(e).date = e.date
                          /\ Cobro(e).amount = IF Total[e.sale] = 0 THEN 1 ELSE Total[e.sale]
  BY DEF Cobro
<1>4. \A m \in Standing : m.date \in Dates /\ m.amount \in Nat
  BY CashAssumption
<1>5. IsFiniteSet({Cobro(e) : e \in entradas})
  <2> DEFINE b == [e \in entradas |-> Cobro(e)]
  <2>1. {Cobro(e) : e \in entradas} = {b[e] : e \in entradas}
    OBVIOUS
  <2>2. IsFiniteSet({b[e] : e \in entradas})
    BY <1>1, FiniteImage DEF BookOK
  <2>. QED
    BY <2>1, <2>2
<1>6. IsFiniteSet(Book)
  BY <1>5, CashAssumption, FS_Union DEF Book
<1>7. \A m \in Book : m.date \in Dates /\ m.amount \in Int
  BY <1>2, <1>3, <1>4 DEF Book
<1>8. \A m \in Book : Signed(m) \in Int
  BY <1>7 DEF Signed
<1>9. \A e \in entradas : e.sale \notin Zero => Signed(Cobro(e)) = Total[e.sale]
  BY <1>2, <1>3 DEF Signed, Outflows
<1>. QED
  BY <1>6, <1>7, <1>8, <1>9

\* A paid sale that nobody crossed at was collected on the day of its ENTRADA.
LEMMA DayCollected ==
    ASSUME HInv, NEW v \in Existing \ Zero, v \notin crossed, ~pending[v]
    PROVE  \E e \in EntradasOf(v) : EntradasOf(v) = {e} /\ e.date = CollectedOn(v)
<1>1. PICK e \in EntradasOf(v) : EntradasOf(v) = {e}
  BY DEF HInv, Once
<1>2. \A f \in ofCreation : f.sale = v => f = e
  BY <1>1 DEF HInv, EntradasOf
<1>3. e \in ofCreation \/ e.date = payDate[v]
  BY <1>1 DEF HInv, PaidSaleHasItsEntrada
<1>4. e.sale = v
  BY DEF EntradasOf
<1>5. CASE e \in ofCreation
  <2>1. (CHOOSE f \in ofCreation : f.sale = v) = e
    BY <1>2, <1>4, <1>5
  <2>. QED
    BY <1>1, <1>4, <1>5, <2>1 DEF CollectedOn
<1>6. CASE e \notin ofCreation
  BY <1>1, <1>2, <1>3, <1>6 DEF CollectedOn
<1>. QED
  BY <1>5, <1>6

\* The ENTRADAs dated up to a day are one of each sale collected up to
\* that day.
LEMMA OneOfEach ==
    ASSUME BInv, crossed = {}, NEW day \in Dates
    PROVE  \E ent :
             LET paid == {v \in Existing \ Zero : ~pending[v] /\ CollectedOn(v) <= day}
             IN  /\ \A v \in paid : ent[v] \in entradas /\ ent[v].sale = v
                 /\ {e \in entradas : e.date <= day} = {ent[v] : v \in paid}
<1> DEFINE paid == {v \in Existing \ Zero : ~pending[v] /\ CollectedOn(v) <= day}
           ent == [v \in paid |-> CHOOSE e \in EntradasOf(v) : EntradasOf(v) = {e}]
<1>1. /\ TypeOK /\ Owned /\ HInv
      /\ \A v \in Existing : Once(v)
  BY DEF BInv, HInv, IInv
<1>2. \A v \in Existing \ Zero : ~pending[v] =>
         \E e \in EntradasOf(v) : EntradasOf(v) = {e} /\ e.date = CollectedOn(v)
  BY <1>1, DayCollected
<1>3. \A v \in paid : /\ ent[v] \in entradas /\ ent[v].sale = v /\ ent[v].date = CollectedOn(v)
                      /\ EntradasOf(v) = {ent[v]}
  BY <1>2 DEF EntradasOf
<1>4. ASSUME NEW e \in entradas, e.date <= day
      PROVE  \E v \in paid : e = ent[v]
  <2>1. PICK v \in Existing : v = e.sale
    BY <1>1 DEF Owned
  <2>2. e \in EntradasOf(v)
    BY <2>1 DEF EntradasOf
  <2>3. ~pending[v] /\ v \notin Zero
    BY <1>1, <2>2 DEF Once
  <2>4. e.date = CollectedOn(v)
    BY <1>2, <2>2, <2>3
  <2>5. v \in paid
    BY <1>4, <2>3, <2>4
  <2>. QED
    BY <1>3, <2>2, <2>5
<1>5. \A v \in paid : ent[v].date <= day
  BY <1>3
<1> HIDE DEF ent
<1>6. {e \in entradas : e.date <= day} = {ent[v] : v \in paid}
  BY <1>3, <1>4, <1>5
<1>. QED
  BY <1>3, <1>6

\* The cash of a day is what names no sale plus the sales collected up
\* to it.
LEMMA CashOfDay ==
    ASSUME BInv, crossed = {}, NEW day \in Dates
    PROVE  RunningBalance(day) =
             Sum({m \in Standing : m.date <= day})
             + SumOver(Total, {v \in Existing : ~pending[v] /\ CollectedOn(v) <= day})
<1> DEFINE all == {v \in Existing : ~pending[v] /\ CollectedOn(v) <= day}
           paid == {v \in Existing \ Zero : ~pending[v] /\ CollectedOn(v) <= day}
           rest == {m \in Standing : m.date <= day}
           upTo == {m \in Book : m.date <= day}
<1>1. TypeOK /\ BookOK
  BY DEF BInv, HInv, IInv
<1>2. PICK ent : /\ \A v \in paid : ent[v] \in entradas /\ ent[v].sale = v
                 /\ {e \in entradas : e.date <= day} = {ent[v] : v \in paid}
  BY OneOfEach
<1>3. PICK b : b = [v \in paid |-> Cobro(ent[v])]
  OBVIOUS
<1>4. PICK f : f = [m \in Book |-> Signed(m)]
  OBVIOUS
<1>5. \A v \in paid : /\ b[v] = Cobro(ent[v]) /\ b[v].id = ent[v].id /\ b[v].id \in Nat
                      /\ b[v] \in Book /\ b[v].date <= day
  <2>1. \A v \in paid : ent[v].date <= day /\ ent[v].id \in Nat
    BY <1>1, <1>2 DEF TypeOK, Entrada
  <2>2. \A v \in paid : Cobro(ent[v]) \in Book
    BY <1>2 DEF Book
  <2>3. \A v \in paid : Cobro(ent[v]).id = ent[v].id /\ Cobro(ent[v]).date = ent[v].date
    BY DEF Cobro
  <2>. QED
    BY <1>3, <2>1, <2>2, <2>3
<1>6. upTo = rest \cup {b[v] : v \in paid}
  <2>1. ASSUME NEW e \in entradas, Cobro(e).date <= day
        PROVE  \E v \in paid : Cobro(e) = b[v]
    <3>1. e.date <= day
      BY <2>1 DEF Cobro
    <3>2. PICK v \in paid : e = ent[v]
      BY <1>2, <3>1
    <3>. QED
      BY <1>5, <3>2
  <2>2. ASSUME NEW m \in upTo PROVE m \in rest \cup {b[v] : v \in paid}
    BY <2>1, <2>2 DEF Book
  <2>3. rest \subseteq upTo
    BY DEF Book
  <2>. QED
    BY <1>5, <2>2, <2>3
<1>7. IsFiniteSet(all) /\ IsFiniteSet(paid) /\ paid \subseteq all
  BY <1>1, FS_Subset DEF BookOK
<1>8. IsFiniteSet(rest) /\ IsFiniteSet(upTo) /\ IsFiniteSet({b[v] : v \in paid})
  <2>1. rest \subseteq Book /\ upTo \subseteq Book /\ {b[v] : v \in paid} \subseteq Book
    BY <1>5 DEF Book
  <2>. QED
    BY <2>1, BookTypes, FS_Subset
<1>9. rest \cap {b[v] : v \in paid} = {}
  BY <1>5, CashAssumption
<1>10. \A m \in Book : f[m] = Signed(m) /\ f[m] \in Int
  BY <1>4, BookTypes
<1>11. \A v \in all : Total[v] \in Nat /\ (v \in all \ paid => Total[v] = 0)
  BY <1>1, CashAssumption DEF TypeOK
<1>12. \A v \in paid : f[b[v]] = Total[v]
  <2>1. \A v \in paid : Signed(Cobro(ent[v])) = Total[v]
    BY <1>2, BookTypes
  <2>. QED
    BY <1>5, <1>10, <2>1
<1>13. \A v, w \in paid : b[v] = b[w] => v = w
  BY <1>1, <1>2, <1>5 DEF BookOK
<1>14. SumOver(f, {b[v] : v \in paid}) = SumOver(Total, paid)
  <2>1. \A v \in paid : Total[v] \in Int /\ f[b[v]] = Total[v]
    BY <1>7, <1>11, <1>12
  <2> HIDE DEF paid
  <2>. QED
    BY ONLY <1>7, <1>13, <2>1, SumImage
<1>15. SumOver(Total, paid) = SumOver(Total, all)
  <2>1. /\ \A v \in all : Total[v] \in Int
        /\ \A v \in all \ paid : Total[v] = 0
    BY <1>11
  <2> HIDE DEF paid, all
  <2>. QED
    BY ONLY <1>7, <2>1, SumPart
<1>16. RunningBalance(day) = SumOver(f, upTo)
  <2>1. RunningBalance(day) = Sum(upTo)
    BY DEF RunningBalance
  <2>2. \A m \in upTo : f[m] = Signed(m)
    BY <1>10
  <2> HIDE DEF upTo
  <2>. QED
    BY <1>8, <2>1, <2>2, SignedSum
<1>17. Sum(rest) = SumOver(f, rest)
  <2>1. \A m \in rest : f[m] = Signed(m)
    BY <1>10 DEF Book
  <2> HIDE DEF rest
  <2>. QED
    BY <1>8, <2>1, SignedSum
<1>18. SumOver(f, upTo) = SumOver(f, rest) + SumOver(f, {b[v] : v \in paid})
  <2> DEFINE once == {b[v] : v \in paid}
  <2>1. \A m \in rest \cup once : f[m] \in Int
    BY <1>5, <1>10 DEF Book
  <2>2. /\ IsFiniteSet(rest) /\ IsFiniteSet(once) /\ rest \cap once = {}
        /\ upTo = rest \cup once
    BY <1>6, <1>8, <1>9
  <2> HIDE DEF once, rest, upTo
  <2>3. SumOver(f, rest \cup once) = SumOver(f, rest) + SumOver(f, once)
    BY ONLY <2>1, <2>2, SumUnion
  <2>4. SumOver(f, upTo) = SumOver(f, rest) + SumOver(f, once)
    BY ONLY <2>2, <2>3, Zenon
  <2>. QED
    BY <2>4 DEF once
<1>. QED
  <2> HIDE DEF all, paid, rest, upTo
  <2>1. RunningBalance(day) = Sum(rest) + SumOver(Total, all)
    BY ONLY <1>14, <1>15, <1>16, <1>17, <1>18
  <2>. QED
    BY <2>1 DEF all, rest

\* On every day, the money in hand is what there was plus every sale
\* collected up to that day, once.
LEMMA CashOnTheDay == BInv => CashIsWhatWasCollected
<1> SUFFICES ASSUME BInv, NEW day \in Dates, crossed = {}
             PROVE  RunningBalance(day) =
                      Sum({m \in Standing : m.date <= day})
                      + SumOver(Total, {v \in Existing : ~pending[v] /\ CollectedOn(v) <= day})
  BY DEF CashIsWhatWasCollected, SumOver
<1>. QED
  BY CashOfDay

\* The filter of no field takes every sale; that of what is owed, the pending.
LEMMA TwoFilters ==
    ASSUME BInv
    PROVE  /\ Filtered(NoFilter) = Existing
           /\ Filtered(Owed) = {v \in Existing : pending[v]}
<1>1. \A v \in Existing : pending[v] \in BOOLEAN
  BY DEF BInv, HInv, IInv, TypeOK
<1>2. /\ NoFilter.customer = Unset /\ NoFilter.product = Unset /\ NoFilter.start = Unset
      /\ NoFilter.end = Unset /\ NoFilter.pending = Unset
  BY DEF NoFilter
<1>3. /\ Owed.customer = Unset /\ Owed.product = Unset /\ Owed.start = Unset
      /\ Owed.end = Unset /\ Owed.pending = TRUE
  BY DEF NoFilter, Owed
<1>4. Filtered(NoFilter) = Existing
  BY <1>2 DEF Filtered
<1>5. \A v \in Existing : TRUE \in {Unset, pending[v]} <=> pending[v]
  BY <1>1, SaleAssumption
<1>6. Filtered(Owed) = {v \in Existing : TRUE \in {Unset, pending[v]}}
  BY <1>3 DEF Filtered
<1>. QED
  BY <1>4, <1>5, <1>6

\* What was sold is what was collected and what is owed.
LEMMA SoldIsBoth ==
    ASSUME BInv
    PROVE  CollectedOrOwed
<1> SUFFICES ASSUME crossed = {}
             PROVE  SumTotal(NoFilter)
                      = SumTotal(Owed) + RunningBalance(Max(Dates)) - Sum(Standing)
  BY DEF CollectedOrOwed, PendingPayments
<1> DEFINE owed == {v \in Existing : pending[v]}
           paid == {v \in Existing : ~pending[v]}
           last == Max(Dates)
<1>1. /\ TypeOK /\ BookOK /\ DateMatchesStatus
  BY DEF BInv, HInv, IInv
<1>2. last \in Dates /\ \A d \in Dates : d <= last
  <2>1. Dates \subseteq Int /\ IsFiniteSet(Dates) /\ Dates # {}
    BY CashAssumption
  <2>. QED
    BY ONLY <2>1, Extremes
<1>3. \A v \in paid : CollectedOn(v) \in Dates
  <2>1. \A v \in paid : payDate[v] \in Dates
    BY <1>1 DEF TypeOK, DateMatchesStatus
  <2>2. \A e \in ofCreation : e.date \in Dates
    BY <1>1 DEF BInv, HInv, TypeOK, Entrada
  <2>. QED
    BY <2>1, <2>2 DEF CollectedOn
<1>4. {v \in Existing : ~pending[v] /\ CollectedOn(v) <= last} = paid
  BY <1>2, <1>3
<1>5. {m \in Standing : m.date <= last} = Standing
  BY <1>2, CashAssumption
<1>6. RunningBalance(last) = Sum(Standing) + SumOver(Total, paid)
  <2> HIDE DEF last, paid
  <2>. QED
    BY <1>2, <1>4, <1>5, CashOfDay
<1>7. SumTotal(NoFilter) = SumOver(Total, Existing) /\ SumTotal(Owed) = SumOver(Total, owed)
  BY TwoFilters DEF SumTotal, TotalOf, SumOver
<1>8. /\ IsFiniteSet(owed) /\ IsFiniteSet(paid) /\ owed \cap paid = {} /\ owed \cup paid = Existing
      /\ \A v \in owed \cup paid : Total[v] \in Int
  BY <1>1, CashAssumption, FS_Subset DEF BookOK, TypeOK
<1>9. Sum(Standing) \in Int
  <2>1. PICK f : f = [m \in Standing |-> Signed(m)]
    OBVIOUS
  <2>2. \A m \in Standing : f[m] = Signed(m) /\ f[m] \in Int
    BY <2>1, BookTypes DEF Book
  <2>3. Sum(Standing) = SumOver(f, Standing)
    BY <2>2, CashAssumption, SignedSum
  <2>4. SumOver(f, Standing) \in Int
    BY <2>2, CashAssumption, SumType
  <2>. QED
    BY <2>3, <2>4
<1> HIDE DEF owed, paid, last
<1>10. SumOver(Total, owed \cup paid) = SumOver(Total, owed) + SumOver(Total, paid)
  BY ONLY <1>8, SumUnion
<1>11. SumOver(Total, owed) \in Int /\ SumOver(Total, paid) \in Int
  BY <1>8, SumType
<1>12. SumOver(Total, Existing) = SumOver(Total, owed) + SumOver(Total, paid)
  BY ONLY <1>8, <1>10, Zenon
<1>. QED
  BY <1>6, <1>7, <1>9, <1>11, <1>12 DEF last

----------------------------------------------------------------------------
(* The sums of the lists and of the reports. *)

FieldTotal(field, S) == MapThenSumSet(LAMBDA x : x[field], S)
LineTotal(field, S) == MapThenSumSet(LAMBDA x : x.item[field], S)
RowTotal(rows, field, S) == MapThenSumSet(LAMBDA x : rows[x][field], S)

\* The sum of one field.
LEMMA FieldSum ==
    ASSUME NEW f, NEW S, IsFiniteSet(S), NEW field, \A x \in S : f[x] = x[field]
    PROVE  FieldTotal(field, S) = SumOver(f, S)
<1> DEFINE Table(g) == g = [s \in SUBSET S |->
                               IF s = {} THEN 0 ELSE Pick(s)[field] + g[s \ {Pick(s)}]]
<1>1. \A g : Table(g) <=> SumTable(g, f, S)
  <2>1. \A s \in SUBSET S : s # {} => f[Pick(s)] = Pick(s)[field]
    BY PickIn
  <2> TAKE g
  <2>2. [s \in SUBSET S |-> IF s = {} THEN 0 ELSE Pick(s)[field] + g[s \ {Pick(s)}]]
          = [s \in SUBSET S |-> IF s = {} THEN 0 ELSE f[Pick(s)] + g[s \ {Pick(s)}]]
    BY <2>1
  <2>. QED
    BY <2>2 DEF SumTable
<1>2. \E g : Table(g)
  BY <1>1, Exist
<1>3. PICK g : g = CHOOSE h : Table(h)
  OBVIOUS
<1>4. SumTable(g, f, S)
  BY <1>1, <1>2, <1>3
<1>5. FieldTotal(field, S) = g[S]
  BY <1>3 DEF FieldTotal, MapThenSumSet, MapThenFoldSet, Pick
<1>6. SumOver(f, S) = g[S]
  BY ONLY <1>4, IsFiniteSet(S), SumOf
<1>. QED
  BY <1>5, <1>6

\* The sum of one field of the items of lines.
LEMMA LineSum ==
    ASSUME NEW f, NEW S, IsFiniteSet(S), NEW field, \A x \in S : f[x] = x.item[field]
    PROVE  LineTotal(field, S) = SumOver(f, S)
<1> DEFINE Table(g) == g = [s \in SUBSET S |->
                               IF s = {} THEN 0 ELSE Pick(s).item[field] + g[s \ {Pick(s)}]]
<1>1. \A g : Table(g) <=> SumTable(g, f, S)
  <2>1. \A s \in SUBSET S : s # {} => f[Pick(s)] = Pick(s).item[field]
    BY PickIn
  <2> TAKE g
  <2>2. [s \in SUBSET S |-> IF s = {} THEN 0 ELSE Pick(s).item[field] + g[s \ {Pick(s)}]]
          = [s \in SUBSET S |-> IF s = {} THEN 0 ELSE f[Pick(s)] + g[s \ {Pick(s)}]]
    BY <2>1
  <2>. QED
    BY <2>2 DEF SumTable
<1>2. \E g : Table(g)
  BY <1>1, Exist
<1>3. PICK g : g = CHOOSE h : Table(h)
  OBVIOUS
<1>4. SumTable(g, f, S)
  BY <1>1, <1>2, <1>3
<1>5. LineTotal(field, S) = g[S]
  BY <1>3 DEF LineTotal, MapThenSumSet, MapThenFoldSet, Pick
<1>6. SumOver(f, S) = g[S]
  BY ONLY <1>4, IsFiniteSet(S), SumOf
<1>. QED
  BY <1>5, <1>6

\* The sum of one column of the rows.
LEMMA RowSum ==
    ASSUME NEW f, NEW S, IsFiniteSet(S), NEW field, NEW rows, \A x \in S : f[x] = rows[x][field]
    PROVE  RowTotal(rows, field, S) = SumOver(f, S)
<1> DEFINE Table(g) == g = [s \in SUBSET S |->
                               IF s = {} THEN 0 ELSE rows[Pick(s)][field] + g[s \ {Pick(s)}]]
<1>1. \A g : Table(g) <=> SumTable(g, f, S)
  <2>1. \A s \in SUBSET S : s # {} => f[Pick(s)] = rows[Pick(s)][field]
    BY PickIn
  <2> TAKE g
  <2>2. [s \in SUBSET S |-> IF s = {} THEN 0 ELSE rows[Pick(s)][field] + g[s \ {Pick(s)}]]
          = [s \in SUBSET S |-> IF s = {} THEN 0 ELSE f[Pick(s)] + g[s \ {Pick(s)}]]
    BY <2>1
  <2>. QED
    BY <2>2 DEF SumTable
<1>2. \E g : Table(g)
  BY <1>1, Exist
<1>3. PICK g : g = CHOOSE h : Table(h)
  OBVIOUS
<1>4. SumTable(g, f, S)
  BY <1>1, <1>2, <1>3
<1>5. RowTotal(rows, field, S) = g[S]
  BY <1>3 DEF RowTotal, MapThenSumSet, MapThenFoldSet, Pick
<1>6. SumOver(f, S) = g[S]
  BY ONLY <1>4, IsFiniteSet(S), SumOf
<1>. QED
  BY <1>5, <1>6

\* The sum of what is owed by product.
LEMMA ReceivableSum ==
    ASSUME NEW f, NEW S, IsFiniteSet(S), \A x \in S : f[x] = Receivable(x)
    PROVE  MapThenSumSet(Receivable, S) = SumOver(f, S)
<1> DEFINE Table(g) == g = [s \in SUBSET S |->
                               IF s = {} THEN 0 ELSE Receivable(Pick(s)) + g[s \ {Pick(s)}]]
<1>1. \A g : Table(g) <=> SumTable(g, f, S)
  <2>1. \A s \in SUBSET S : s # {} => f[Pick(s)] = Receivable(Pick(s))
    BY PickIn
  <2> TAKE g
  <2>2. [s \in SUBSET S |-> IF s = {} THEN 0 ELSE Receivable(Pick(s)) + g[s \ {Pick(s)}]]
          = [s \in SUBSET S |-> IF s = {} THEN 0 ELSE f[Pick(s)] + g[s \ {Pick(s)}]]
    BY <2>1
  <2>. QED
    BY <2>2 DEF SumTable
<1>2. \E g : Table(g)
  BY <1>1, Exist
<1>3. PICK g : g = CHOOSE h : Table(h)
  OBVIOUS
<1>4. SumTable(g, f, S)
  BY <1>1, <1>2, <1>3
<1>5. MapThenSumSet(Receivable, S) = g[S]
  BY <1>3 DEF MapThenSumSet, MapThenFoldSet, Pick
<1>6. SumOver(f, S) = g[S]
  BY ONLY <1>4, IsFiniteSet(S), SumOf
<1>. QED
  BY <1>5, <1>6

\* The lines of finitely many sales are finite, each of its own sale.
LEMMA LinesOK ==
    ASSUME NEW S, S \subseteq Sales, IsFiniteSet(S)
    PROVE  /\ IsFiniteSet(LinesOf(S))
           /\ \A l \in LinesOf(S) :
                 /\ l.sale \in S /\ l.item \in Items[l.sale]
                 /\ l.item.subtotal \in Int /\ l.item.quantity \in Int /\ l.item.profit \in Int
           /\ \A v \in S : {l \in LinesOf(S) : l.sale = v} = {[sale |-> v, item |-> i] : i \in Items[v]}
<1> DEFINE Of(v) == {[sale |-> v, item |-> i] : i \in Items[v]}
<1>1. \A v \in S : IsFiniteSet(Of(v))
  <2> TAKE v \in S
  <2> DEFINE b == [i \in Items[v] |-> [sale |-> v, item |-> i]]
  <2>1. IsFiniteSet({b[i] : i \in Items[v]})
    BY SaleAssumption, FiniteImage
  <2>2. Of(v) = {b[i] : i \in Items[v]}
    OBVIOUS
  <2>. QED
    BY <2>1, <2>2
<1>2. IsFiniteSet({Of(v) : v \in S})
  <2> DEFINE c == [v \in S |-> Of(v)]
  <2>1. {Of(v) : v \in S} = {c[v] : v \in S}
    OBVIOUS
  <2> HIDE DEF c
  <2>2. IsFiniteSet({c[v] : v \in S})
    BY FiniteImage
  <2>. QED
    BY <2>1, <2>2
<1>3. LinesOf(S) = UNION {Of(v) : v \in S}
  BY DEF LinesOf
<1>4. \A l \in LinesOf(S) : l.sale \in S /\ l \in Of(l.sale)
  BY <1>3
<1>5. \A v \in S : \A l \in Of(v) : l \in LinesOf(S) /\ l.sale = v /\ l.item \in Items[v]
  BY <1>3
<1>6. IsFiniteSet(LinesOf(S))
  <2> DEFINE C == {Of(v) : v \in S}
  <2>1. \A T \in C : IsFiniteSet(T)
    BY <1>1
  <2> HIDE DEF C
  <2>2. IsFiniteSet(UNION C)
    BY <1>2, <2>1, FS_UNION DEF C
  <2>. QED
    BY <1>3, <2>2 DEF C
<1>7. \A v \in S : {l \in LinesOf(S) : l.sale = v} = Of(v)
  BY <1>4, <1>5
<1>8. \A l \in LinesOf(S) : l.sale \in S /\ l.item \in Items[l.sale]
  BY <1>4, <1>5
<1>. QED
  BY <1>6, <1>7, <1>8, SaleAssumption

\* What the lines of some sales add up to is what the sales add up to.
LEMMA LinesTotal ==
    ASSUME NEW S, S \subseteq Sales, IsFiniteSet(S),
           NEW f, \A l \in LinesOf(S) : f[l] = l.item.subtotal
    PROVE  SumOver(f, LinesOf(S)) = SumOver(Total, S)
<1>1. ASSUME NEW v \in S
      PROVE  Total[v] = SumOver(f, {l \in LinesOf(S) : l.sale = v})
  <2>1. PICK b : b = [i \in Items[v] |-> [sale |-> v, item |-> i]]
    OBVIOUS
  <2>2. PICK g : g = [i \in Items[v] |-> i["subtotal"]]
    OBVIOUS
  <2>3. {l \in LinesOf(S) : l.sale = v} = {b[i] : i \in Items[v]}
    BY <2>1, LinesOK
  <2>4. \A i \in Items[v] : b[i] \in LinesOf(S) /\ b[i].item = i
    BY <2>1, <2>3
  <2>5. \A i \in Items[v] : g[i] \in Int /\ f[b[i]] = g[i]
    BY <2>2, <2>4, SaleAssumption
  <2>6. \A i, j \in Items[v] : b[i] = b[j] => i = j
    BY <2>4
  <2>7. IsFiniteSet(Items[v])
    BY SaleAssumption
  <2>8. SumOver(f, {b[i] : i \in Items[v]}) = SumOver(g, Items[v])
    BY ONLY <2>5, <2>6, <2>7, SumImage
  <2>9. \A i \in Items[v] : g[i] = i["subtotal"]
    BY <2>2
  <2>10. FieldTotal("subtotal", Items[v]) = SumOver(g, Items[v])
    BY ONLY <2>7, <2>9, FieldSum
  <2>11. Total[v] = FieldTotal("subtotal", Items[v])
    BY SaleAssumption DEF FieldTotal, MapThenSumSet, MapThenFoldSet
  <2>. QED
    BY <2>3, <2>8, <2>10, <2>11
<1>2. PICK key : key = [l \in LinesOf(S) |-> l.sale]
  OBVIOUS
<1>3. \A v \in S : {l \in LinesOf(S) : key[l] = v} = {l \in LinesOf(S) : l.sale = v}
  BY <1>2
<1>4. \A l \in LinesOf(S) : f[l] \in Int /\ key[l] \in S
  BY <1>2, LinesOK
<1>5. \A v \in S : Total[v] = SumOver(f, {l \in LinesOf(S) : key[l] = v})
  BY <1>1, <1>3
<1>6. ByKey(f, Total, key, LinesOf(S), S)
  BY <1>4, <1>5 DEF ByKey
<1>7. IsFiniteSet(LinesOf(S))
  BY LinesOK
<1>. QED
  BY ONLY IsFiniteSet(S), <1>6, <1>7, SumByKey

\* A column of the rows adds up a field of the lines that have the row's key.
ColumnOf(rows, column, field, key, L) ==
    /\ DOMAIN rows = {key[l] : l \in L}
    /\ \A l \in L : l.item[field] \in Int
    /\ \A k \in DOMAIN rows : rows[k][column] = LineTotal(field, {l \in L : key[l] = k})

\* A column of the report, over the rows of any grouping, is the sum of the lines.
LEMMA Column ==
    ASSUME NEW L, IsFiniteSet(L), NEW key, NEW rows, NEW column, NEW field,
           ColumnOf(rows, column, field, key, L)
    PROVE  RowTotal(rows, column, DOMAIN rows) = LineTotal(field, L)
<1> DEFINE K == DOMAIN rows
<1>0. /\ K = {key[l] : l \in L}
      /\ \A l \in L : l.item[field] \in Int
      /\ \A k \in K : rows[k][column] = LineTotal(field, {l \in L : key[l] = k})
  BY DEF ColumnOf
<1>1. IsFiniteSet(K)
  BY <1>0, FiniteImage
<1>2. PICK f : f = [l \in L |-> l.item[field]]
  OBVIOUS
<1>3. PICK g : g = [k \in K |-> rows[k][column]]
  OBVIOUS
<1>4. \A l \in L : f[l] = l.item[field] /\ f[l] \in Int /\ key[l] \in K
  BY <1>0, <1>2
<1>5. ASSUME NEW k \in K
      PROVE  g[k] = SumOver(f, {l \in L : key[l] = k})
  <2> DEFINE At == {l \in L : key[l] = k}
  <2>1. IsFiniteSet(At) /\ \A l \in At : f[l] = l.item[field]
    BY <1>4, FS_Subset
  <2>2. g[k] = LineTotal(field, At)
    BY <1>0, <1>3
  <2> HIDE DEF At
  <2>3. LineTotal(field, At) = SumOver(f, At)
    BY ONLY <2>1, LineSum
  <2>. QED
    BY <2>2, <2>3 DEF At
<1>6. ByKey(f, g, key, L, K)
  BY <1>4, <1>5 DEF ByKey
<1>7. \A k \in K : g[k] = rows[k][column]
  BY <1>3
<1> HIDE DEF K
<1>8. SumOver(f, L) = SumOver(g, K)
  BY ONLY IsFiniteSet(L), <1>1, <1>6, SumByKey
<1>9. RowTotal(rows, column, K) = SumOver(g, K)
  BY ONLY <1>1, <1>7, RowSum
<1>10. LineTotal(field, L) = SumOver(f, L)
  BY ONLY IsFiniteSet(L), <1>4, LineSum
<1>. QED
  BY <1>8, <1>9, <1>10 DEF K

\* The lines a report adds up.
ReportLines(start, end) == LinesOf(Filtered([NoFilter EXCEPT !.start = start, !.end = end]))

\* The totals of the report do not depend on its grouping.
LEMMA AnyGrouping ==
    ASSUME BInv, NEW start, NEW end, NEW groupBy \in {"sale", "customer", "product"}
    PROVE  ProfitTotals(start, end, groupBy) =
             [quantity |-> LineTotal("quantity", ReportLines(start, end)),
              revenue |-> LineTotal("subtotal", ReportLines(start, end)),
              profit |-> LineTotal("profit", ReportLines(start, end))]
<1>0. PICK L : L = ReportLines(start, end)
  OBVIOUS
<1>1. PICK S : S = Filtered([NoFilter EXCEPT !.start = start, !.end = end])
  OBVIOUS
<1>2. S \subseteq Sales /\ IsFiniteSet(S)
  BY <1>1, FS_Subset DEF BInv, HInv, IInv, TypeOK, BookOK, Filtered
<1>3. PICK rows : rows = ProfitRows(S, groupBy)
  OBVIOUS
<1>4. PICK key : key = [l \in L |-> Key(groupBy, l)]
  OBVIOUS
<1>5. IsFiniteSet(L) /\ \A l \in L : /\ l.item["subtotal"] \in Int /\ l.item["quantity"] \in Int
                                     /\ l.item["profit"] \in Int
  BY <1>0, <1>1, <1>2, LinesOK DEF ReportLines
<1>6. DOMAIN rows = {key[l] : l \in L}
  BY <1>0, <1>1, <1>3, <1>4 DEF ProfitRows, ReportLines
<1>7. ASSUME NEW k \in DOMAIN rows
      PROVE  /\ rows[k]["quantity"] = LineTotal("quantity", {l \in L : key[l] = k})
             /\ rows[k]["revenue"] = LineTotal("subtotal", {l \in L : key[l] = k})
             /\ rows[k]["profit"] = LineTotal("profit", {l \in L : key[l] = k})
  <2> DEFINE At == {l \in L : Key(groupBy, l) = k}
  <2>1. {l \in L : key[l] = k} = At
    BY <1>4
  <2>2. rows[k] = [quantity |-> MapThenSumSet(LAMBDA l : l.item.quantity, At),
                   revenue |-> MapThenSumSet(LAMBDA l : l.item.subtotal, At),
                   profit |-> MapThenSumSet(LAMBDA l : l.item.profit, At)]
    BY <1>0, <1>1, <1>3, <1>7 DEF ReportLines, ProfitRows, MapThenSumSet, MapThenFoldSet
  <2> HIDE DEF At
  <2>3. rows[k] = [quantity |-> LineTotal("quantity", At),
                   revenue |-> LineTotal("subtotal", At),
                   profit |-> LineTotal("profit", At)]
    BY <2>2 DEF LineTotal, MapThenSumSet, MapThenFoldSet
  <2>. QED
    BY <2>1, <2>3
<1>8. /\ RowTotal(rows, "quantity", DOMAIN rows) = LineTotal("quantity", L)
      /\ RowTotal(rows, "revenue", DOMAIN rows) = LineTotal("subtotal", L)
      /\ RowTotal(rows, "profit", DOMAIN rows) = LineTotal("profit", L)
  <2>1. /\ ColumnOf(rows, "quantity", "quantity", key, L)
        /\ ColumnOf(rows, "revenue", "subtotal", key, L)
        /\ ColumnOf(rows, "profit", "profit", key, L)
    BY <1>5, <1>6, <1>7 DEF ColumnOf
  <2>. QED
    BY ONLY <1>5, <2>1, Column
<1>9. ProfitTotals(start, end, groupBy) =
        [quantity |-> RowTotal(rows, "quantity", DOMAIN rows),
         revenue |-> RowTotal(rows, "revenue", DOMAIN rows),
         profit |-> RowTotal(rows, "profit", DOMAIN rows)]
  BY <1>1, <1>3 DEF ProfitTotals, RowTotal, MapThenSumSet, MapThenFoldSet
<1>. QED
  BY <1>0, <1>8, <1>9

\* The groupings of a report add up to the same, and its revenue to the sales.
LEMMA Reports ==
    ASSUME BInv, NEW start \in Dates, NEW end \in Dates
    PROVE  ReportsAddUp(start, end)
<1>1. PICK filter : filter = [NoFilter EXCEPT !.start = start, !.end = end]
  OBVIOUS
<1>2. PICK S : S = Filtered(filter)
  OBVIOUS
<1>3. S \subseteq Sales /\ IsFiniteSet(S) /\ Existing \subseteq Sales
  BY <1>2, FS_Subset DEF BInv, HInv, IInv, TypeOK, BookOK, Filtered
<1>4. PICK L : L = LinesOf(S)
  OBVIOUS
<1>5. PICK f : f = [l \in L |-> l.item["subtotal"]]
  OBVIOUS
<1>6. \A groupBy \in {"sale", "customer", "product"} :
         ProfitTotals(start, end, groupBy) = [quantity |-> LineTotal("quantity", L),
                                              revenue |-> LineTotal("subtotal", L),
                                              profit |-> LineTotal("profit", L)]
  <2>1. L = ReportLines(start, end)
    BY <1>1, <1>2, <1>4 DEF ReportLines
  <2>. QED
    BY ONLY BInv, <2>1, AnyGrouping
<1>7. LineTotal("subtotal", L) = SumOver(Total, S)
  <2>1. IsFiniteSet(L) /\ \A l \in L : f[l] = l.item["subtotal"]
    BY <1>3, <1>4, <1>5, LinesOK
  <2>2. LineTotal("subtotal", L) = SumOver(f, L)
    BY ONLY <2>1, LineSum
  <2>3. SumOver(f, L) = SumOver(Total, S)
    BY <1>3, <1>4, <2>1, LinesTotal
  <2>. QED
    BY <2>2, <2>3
<1>8. S = {v \in Existing : SoldOn[v] \in start .. end}
  <2>1. /\ filter.customer = Unset /\ filter.product = Unset /\ filter.pending = Unset
        /\ filter.start = start /\ filter.end = end
    BY <1>1 DEF NoFilter
  <2>2. S = {v \in Existing : SoldOn[v] >= start /\ SoldOn[v] <= end}
    <3>1. start # Unset /\ end # Unset
      BY SaleAssumption, CashAssumption
    <3>. QED
      BY <1>2, <2>1, <3>1 DEF Filtered
  <2>3. \A v \in Existing : SoldOn[v] \in Nat /\ start \in Nat /\ end \in Nat
    BY <1>3, SaleAssumption, CashAssumption
  <2>. QED
    BY <2>2, <2>3
<1>9. SumTotal(filter) = SumOver(Total, S) /\ SalesThisMonth(start, end) = SumOver(Total, S)
  BY <1>2, <1>8 DEF SumTotal, SalesThisMonth, TotalOf, SumOver
<1>. QED
  BY <1>1, <1>6, <1>7, <1>9 DEF ReportsAddUp

\* What is owed by product adds up to what is owed.
LEMMA OwedByProduct ==
    ASSUME BInv
    PROVE  PendingPayments.total = MapThenSumSet(Receivable, Products)
<1>1. PICK S : S = {v \in Existing : pending[v]}
  OBVIOUS
<1>2. S \subseteq Sales /\ IsFiniteSet(S)
  BY <1>1, FS_Subset DEF BInv, HInv, IInv, TypeOK, BookOK
<1>3. PICK L : L = LinesOf(S)
  OBVIOUS
<1>4. PICK f : f = [l \in L |-> l.item["subtotal"]]
  OBVIOUS
<1>5. PICK key : key = [l \in L |-> l.item.product]
  OBVIOUS
<1>6. PICK owed : owed = [p \in Products |-> Receivable(p)]
  OBVIOUS
<1>7. IsFiniteSet(L) /\ \A l \in L : /\ f[l] = l.item["subtotal"] /\ f[l] \in Int
                                     /\ key[l] = l.item.product /\ key[l] \in Products
  <2>1. IsFiniteSet(L) /\ \A l \in L : /\ l.sale \in Sales /\ l.item \in Items[l.sale]
                                       /\ l.item.subtotal \in Int
    BY <1>2, <1>3, LinesOK
  <2>2. \A l \in L : l.item.product \in Products
    BY <2>1 DEF Products
  <2>. QED
    BY <1>4, <1>5, <2>1, <2>2
<1>8. ASSUME NEW p \in Products
      PROVE  owed[p] = SumOver(f, {l \in L : key[l] = p})
  <2> DEFINE At == {l \in L : l.item.product = p}
  <2>1. {l \in L : key[l] = p} = At
    BY <1>7
  <2>2. owed[p] = LineTotal("subtotal", At)
    BY <1>1, <1>3, <1>6 DEF Receivable, LineTotal, MapThenSumSet, MapThenFoldSet
  <2>3. IsFiniteSet(At) /\ \A l \in At : f[l] = l.item["subtotal"]
    BY <1>7, FS_Subset
  <2> HIDE DEF At
  <2>4. LineTotal("subtotal", At) = SumOver(f, At)
    BY ONLY <2>3, LineSum
  <2>. QED
    BY <2>1, <2>2, <2>4
<1>9. ByKey(f, owed, key, L, Products)
  BY <1>7, <1>8 DEF ByKey
<1>10. IsFiniteSet(Products)
  BY SaleAssumption
<1>11. SumOver(f, L) = SumOver(owed, Products)
  BY ONLY <1>7, <1>9, <1>10, SumByKey
<1>12. SumOver(f, L) = SumOver(Total, S)
  BY <1>2, <1>3, <1>7, LinesTotal
<1>13. MapThenSumSet(Receivable, Products) = SumOver(owed, Products)
  BY <1>6, <1>10, ReceivableSum
<1>14. PendingPayments.total = SumOver(Total, S)
  BY <1>1, TwoFilters DEF PendingPayments, SumTotal, TotalOf, SumOver
<1>. QED
  BY <1>11, <1>12, <1>13, <1>14

----------------------------------------------------------------------------
(* Orders and pages. *)

\* The rows of a part of the book, in the order of the book.
LEMMA RowsInOrder ==
    ASSUME BInv, NEW S, S \subseteq Book, NEW q, q = InOrder(S), NEW n, n = Cardinality(S)
    PROVE  /\ n \in Nat /\ q \in [1 .. n -> S]
           /\ \A m \in S : \E i \in 1 .. n : m = q[i]
           /\ \A i, j \in 1 .. n : i < j => Before(q[i], q[j])
           /\ \A m, k \in Book : Before(m, k) => ~Before(k, m) /\ m.date <= k.date
<1> DEFINE R == {p \in S \X S : Before(p[1], p[2])}
<1>1. IsFiniteSet(S) /\ n \in Nat
  BY BookTypes, FS_Subset, FS_CardinalityType
<1>2. \A e \in entradas : e.id \in Nat
  BY DEF BInv, HInv, IInv, TypeOK, Entrada
<1>3. \A m \in Book : m.id \in Int /\ m.date \in Int
  <2>1. \A m \in Book : m.date \in Int
    <3>1. \A m \in Book : m.date \in Dates
      BY BookTypes
    <3>2. Dates \subseteq Int
      BY CashAssumption
    <3>. QED
      BY ONLY <3>1, <3>2
  <2>2. \A e \in entradas : Cobro(e).id \in Int
    BY <1>2 DEF Cobro
  <2>. QED
    BY <2>1, <2>2, CashAssumption DEF Book
<1>4. \A m, k \in Book : m.id = k.id => m = k
  <2>1. \A e \in entradas : Cobro(e).id = e.id
    BY DEF Cobro
  <2>2. \A e, f \in entradas : e.id = f.id => e = f
    BY DEF BInv, BookOK
  <2>. QED
    BY <1>2, <2>1, <2>2, CashAssumption DEF Book
<1>5. \A m, k \in Book : Before(m, k) => ~Before(k, m) /\ m.date <= k.date
  BY <1>3 DEF Before
<1>6. \A m, k \in Book : m # k => Before(m, k) \/ Before(k, m)
  BY <1>3, <1>4 DEF Before
<1>7. \A m, k, l \in Book : Before(m, k) /\ Before(k, l) => Before(m, l)
  BY <1>3 DEF Before
<1>8. \A m, k \in S : <<m, k>> \in R <=> Before(m, k)
  OBVIOUS
<1> HIDE DEF R
<1>9. TotalOrder(R, S)
  BY <1>5, <1>6, <1>7, <1>8 DEF TotalOrder
<1>10. Enumerates(q, R, S)
  BY <1>1, <1>9, OrderedIs DEF InOrder, R
<1>11. /\ q \in [1 .. n -> S]
       /\ \A m \in S : \E i \in 1 .. n : m = q[i]
       /\ \A i, j \in 1 .. n : i < j => <<q[i], q[j]>> \in R
  BY <1>10 DEF Enumerates
<1>12. \A i, j \in 1 .. n : i < j => Before(q[i], q[j])
  BY <1>8, <1>11
<1>. QED
  BY <1>1, <1>5, <1>11, <1>12

\* The balance of a row: what the rows up to it add up to.
Folded(s) == FoldSeq(LAMBDA m, b : b + Signed(m), 0, s)

\* A fold over rows is a sum over their places.
LEMMA FoldIs ==
    ASSUME NEW s, NEW D, D = DOMAIN s, IsFiniteSet(D),
           NEW f, \A i \in D : f[i] = Signed(s[i]) /\ f[i] \in Int
    PROVE  Folded(s) = SumOver(f, D)
<1> DEFINE Table(g) == g = [d \in SUBSET D |->
                               IF d = {} THEN 0 ELSE g[d \ {Pick(d)}] + Signed(s[Pick(d)])]
<1>1. PICK h : SumTable(h, f, D)
  BY Exist
<1>2. \A d \in SUBSET D : h[d] \in Int
  <2> SUFFICES ASSUME NEW d \in SUBSET D PROVE h[d] \in Int
    OBVIOUS
  <2>1. IsFiniteSet(d) /\ \A i \in d : f[i] \in Int
    BY FS_Subset
  <2>2. SumOver(f, d) \in Int
    BY <2>1, SumType
  <2>3. SumOver(f, d) = h[d]
    BY <1>1, SumOf
  <2>. QED
    BY <2>2, <2>3
<1>3. \A d \in SUBSET D : d # {} => Pick(d) \in D /\ d \ {Pick(d)} \in SUBSET D
  BY PickIn
<1>4. Table(h)
  <2>1. \A d \in SUBSET D : h[d] = IF d = {} THEN 0 ELSE f[Pick(d)] + h[d \ {Pick(d)}]
    BY <1>1 DEF SumTable
  <2>2. \A d \in SUBSET D :
           h[d] = IF d = {} THEN 0 ELSE h[d \ {Pick(d)}] + Signed(s[Pick(d)])
    <3> TAKE d \in SUBSET D
    <3>1. CASE d = {}
      BY <2>1, <3>1
    <3>2. CASE d # {}
      <4>1. Pick(d) \in D /\ d \ {Pick(d)} \in SUBSET D
        BY <1>3, <3>2
      <4>2. h[d] = f[Pick(d)] + h[d \ {Pick(d)}]
        BY <2>1, <3>2
      <4>3. h[d \ {Pick(d)}] \in Int /\ f[Pick(d)] \in Int /\ f[Pick(d)] = Signed(s[Pick(d)])
        BY <1>2, <4>1
      <4>. QED
        BY <3>2, <4>2, <4>3
    <3>. QED
      BY <3>1, <3>2
  <2>3. h = [d \in SUBSET D |-> h[d]]
    BY <1>1 DEF SumTable
  <2>. QED
    BY <2>2, <2>3
<1>5. PICK g : g = CHOOSE k : Table(k)
  OBVIOUS
<1>6. Table(g)
  BY <1>4, <1>5
<1>7. Folded(s) = g[D]
  BY <1>5 DEF Folded, FoldSeq, FoldFunction, FoldFunctionOnSet, MapThenFoldSet, Pick
<1>8. g[D] = h[D]
  <2>1. \A d \in SUBSET D : g[d] = IF d = {} THEN 0 ELSE g[d \ {Pick(d)}] + Signed(s[Pick(d)])
    BY <1>6
  <2>2. \A d \in SUBSET D : h[d] = IF d = {} THEN 0 ELSE h[d \ {Pick(d)}] + Signed(s[Pick(d)])
    BY <1>4
  <2> DEFINE B == {d \in SUBSET D : g[d] # h[d]}
  <2> SUFFICES ASSUME B # {} PROVE FALSE
    OBVIOUS
  <2>3. PICK d \in B : \A e \in B : e \subseteq d => e = d
    <3>1. B # {} /\ B \subseteq SUBSET D
      OBVIOUS
    <3>2. IsFiniteSet(D)
      OBVIOUS
    <3> HIDE DEF B
    <3>. QED
      BY ONLY <3>1, <3>2, Smallest
  <2>4. d # {}
    BY <2>1, <2>2
  <2>5. Pick(d) \in d /\ d \ {Pick(d)} \notin B
    BY <2>3, <2>4, PickIn
  <2>. QED
    BY <2>1, <2>2, <2>4, <2>5
<1>9. SumOver(f, D) = h[D]
  BY <1>1, SumOf
<1>. QED
  BY <1>7, <1>8, <1>9

\* n pages cut x, each from where the one before ends.
CutInto(seqs, x, cut, n) ==
    /\ Len(seqs) = n /\ cut[0] = 0
    /\ \A k \in 0 .. n : cut[k] \in 0 .. Len(x)
    /\ \A k \in 1 .. n : /\ cut[k - 1] <= cut[k]
                         /\ seqs[k] = [j \in 1 .. cut[k] - cut[k - 1] |-> x[cut[k - 1] + j]]

\* Glued, the pages are x up to the last cut.
LEMMA Glued ==
    ASSUME NEW X, NEW x \in Seq(X), NEW n \in Nat \ {0}, NEW seqs, NEW cut,
           CutInto(seqs, x, cut, n)
    PROVE  FlattenSeq(seqs) = [j \in 1 .. cut[n] |-> x[j]]
<1> DEFINE Table(g) == g = [i \in 1 .. n |-> IF i = 1 THEN seqs[i] ELSE g[i - 1] \o seqs[i]]
           h == [i \in 1 .. n |-> [j \in 1 .. cut[i] |-> x[j]]]
<1>1. /\ Len(seqs) = n /\ cut[0] = 0
      /\ \A k \in 0 .. n : cut[k] \in 0 .. Len(x)
      /\ \A k \in 1 .. n : /\ cut[k - 1] <= cut[k]
                           /\ seqs[k] = [j \in 1 .. cut[k] - cut[k - 1] |-> x[cut[k - 1] + j]]
  BY DEF CutInto
<1>2. Len(x) \in Nat /\ \A j \in 1 .. Len(x) : x[j] \in X
  BY LenProperties
<1>3. \A i \in 1 .. n : h[i] = [j \in 1 .. cut[i] |-> x[j]] /\ h[i] \in Seq(X) /\ Len(h[i]) = cut[i]
  <2> TAKE i \in 1 .. n
  <2>1. PICK c : c = cut[i]
    OBVIOUS
  <2>2. c \in 0 .. Len(x) /\ \A j \in 1 .. c : x[j] \in X
    BY <1>1, <1>2, <2>1
  <2>3. h[i] = [j \in 1 .. c |-> x[j]]
    BY <2>1
  <2> HIDE DEF h
  <2>4. h[i] \in Seq(X) /\ Len(h[i]) = c
    BY <1>2, <2>2, <2>3
  <2>. QED
    BY <2>1, <2>3, <2>4
<1>4. ASSUME NEW i \in 1 .. n
      PROVE  h[i] = IF i = 1 THEN seqs[i] ELSE h[i - 1] \o seqs[i]
  <2>1. CASE i = 1
    <3>1. cut[1] \in Nat /\ cut[1 - 1] = 0 /\ 1 \in 1 .. n
      BY <1>1, <1>2
    <3>2. seqs[1] = [j \in 1 .. cut[1] - cut[1 - 1] |-> x[cut[1 - 1] + j]]
      BY <1>1, <3>1
    <3>3. seqs[1] = [j \in 1 .. cut[1] |-> x[j]]
      BY <3>1, <3>2
    <3>. QED
      BY <2>1, <3>3
  <2>2. CASE i # 1
    <3> DEFINE a == cut[i - 1]
               b == cut[i]
    <3>1. i - 1 \in 1 .. n /\ a \in 0 .. Len(x) /\ b \in 0 .. Len(x) /\ a <= b
      BY <1>1, <2>2
    <3>2. seqs[i] = [j \in 1 .. b - a |-> x[a + j]]
      BY <1>1
    <3>3. h[i - 1] = [j \in 1 .. a |-> x[j]] /\ h[i] = [j \in 1 .. b |-> x[j]]
      BY <3>1
    <3> HIDE DEF a, b, h
    <3>4. /\ seqs[i] \in Seq(X) /\ Len(seqs[i]) = b - a
          /\ h[i - 1] \in Seq(X) /\ Len(h[i - 1]) = a
          /\ h[i] \in Seq(X) /\ Len(h[i]) = b
      BY <1>2, <3>1, <3>2, <3>3
    <3>5. /\ h[i - 1] \o seqs[i] \in Seq(X) /\ Len(h[i - 1] \o seqs[i]) = b
          /\ \A j \in 1 .. b : (h[i - 1] \o seqs[i])[j] =
                                 IF j <= a THEN h[i - 1][j] ELSE seqs[i][j - a]
      <4>1. a + (b - a) = b
        BY <1>2, <3>1
      <4>2. PICK s, t : s = h[i - 1] /\ t = seqs[i]
        OBVIOUS
      <4>3. /\ s \o t \in Seq(X) /\ Len(s \o t) = Len(s) + Len(t)
            /\ \A j \in 1 .. Len(s) + Len(t) :
                  (s \o t)[j] = IF j <= Len(s) THEN s[j] ELSE t[j - Len(s)]
        BY <3>4, <4>2, ConcatProperties
      <4>. QED
        BY <3>4, <4>1, <4>2, <4>3
    <3>6. \A j \in 1 .. b : h[i][j] = (h[i - 1] \o seqs[i])[j]
      BY <1>2, <3>1, <3>2, <3>3, <3>5
    <3>7. h[i] = h[i - 1] \o seqs[i]
      BY <3>4, <3>5, <3>6, SeqEqual
    <3>. QED
      BY <2>2, <3>7
  <2>. QED
    BY <2>1, <2>2
<1>5. Table(h)
  <2>1. h = [i \in 1 .. n |-> h[i]]
    OBVIOUS
  <2> HIDE DEF h
  <2>. QED
    BY <1>4, <2>1
<1>6. PICK g : g = CHOOSE k : Table(k)
  OBVIOUS
<1>7. Table(g)
  <2> HIDE DEF h
  <2>. QED
    BY <1>5, <1>6
<1>8. FlattenSeq(seqs) = g[n]
  BY <1>1, <1>6 DEF FlattenSeq
<1>9. \A i \in 1 .. n : g[i] = IF i = 1 THEN seqs[i] ELSE g[i - 1] \o seqs[i]
  BY <1>7
<1> HIDE DEF Table, h
<1>10. \A i \in 1 .. n : g[i] = h[i]
  <2> DEFINE B == {i \in 1 .. n : g[i] # h[i]}
             R == {p \in (1 .. n) \X (1 .. n) : p[1] > p[2]}
  <2> SUFFICES ASSUME B # {} PROVE FALSE
    OBVIOUS
  <2>1. IsFiniteSet(B)
    BY FS_Interval, FS_Subset
  <2>2. \A i, j \in 1 .. n : <<i, j>> \in R <=> i > j
    OBVIOUS
  <2>3. TotalOrder(R, B)
    <3> HIDE DEF R
    <3>. QED
      BY <2>2 DEF TotalOrder
  <2>4. PICK i \in B : \A j \in B : j # i => <<j, i>> \in R
    <3> HIDE DEF B, R
    <3>. QED
      BY <2>1, <2>3, LastOf
  <2>5. i - 1 \notin B
    <3>1. ~(i - 1 > i) /\ i - 1 # i
      OBVIOUS
    <3>. QED
      BY <2>4, <3>1
  <2>. QED
    BY <1>4, <1>9, <2>5
<1>. QED
  BY <1>3, <1>8, <1>10

----------------------------------------------------------------------------
(* The readers of the cash book. *)

\* A balance of the period, added up row by row, is that of the window less
\* what there was before; the last one is the cash of the last day.
LEMMA Balances ==
    ASSUME BInv, NEW start \in Dates, NEW end \in Dates,
           NEW W, W = Within(start, end), NEW q, q = InOrder(W),
           NEW n, n = Cardinality(W), NEW k \in 1 .. n
    PROVE  /\ Window(q[k], W) = Folded(SubSeq(q, 1, k)) + RunningBalance(start - 1)
           /\ k = n => Window(q[k], W) = RunningBalance(end)
<1> DEFINE P == {m \in W : m = q[k] \/ Before(m, q[k])}
           Q == {m \in Book : m = q[k] \/ Before(m, q[k])}
           A == {m \in Book : m.date <= start - 1}
<1>1. IsFiniteSet(Book) /\ W \subseteq Book /\ start \in Int /\ end \in Int
  BY BookTypes, CashAssumption DEF Within
<1>2. /\ n \in Nat /\ q \in [1 .. n -> W]
      /\ \A m \in W : \E i \in 1 .. n : m = q[i]
      /\ \A i, j \in 1 .. n : i < j => Before(q[i], q[j])
      /\ \A m, j \in Book : Before(m, j) => ~Before(j, m) /\ m.date <= j.date
  BY <1>1, RowsInOrder
<1>3. \A m \in Book : m.date \in Int /\ (m \in W <=> start <= m.date /\ m.date <= end)
  <2>1. \A m \in Book : m.date \in Dates
    BY BookTypes
  <2>2. Dates \subseteq Int
    BY CashAssumption
  <2>. QED
    BY <2>1, <2>2 DEF Within
<1>4. /\ q[k] \in W /\ q[k] \in Book
      /\ q[k].date \in Int /\ start <= q[k].date /\ q[k].date <= end
  <2>1. q[k] \in W /\ q[k] \in Book
    BY <1>1, <1>2
  <2>. QED
    BY <1>3, <2>1
<1>5. PICK f : f = [m \in Book |-> Signed(m)]
  OBVIOUS
<1>6. \A m \in Book : f[m] = Signed(m) /\ f[m] \in Int
  BY <1>5, BookTypes
<1>7. \A i, j \in 1 .. n : Before(q[i], q[j]) => i < j
  <2> SUFFICES ASSUME NEW i \in 1 .. n, NEW j \in 1 .. n, Before(q[i], q[j]) PROVE i < j
    OBVIOUS
  <2>1. q[i] \in Book /\ q[j] \in Book
    BY <1>1, <1>2
  <2>2. ~Before(q[j], q[i])
    BY <1>2, <2>1
  <2>3. ~(j < i) /\ i # j
    BY <1>2, <2>2
  <2>. QED
    BY <2>3
<1>8. P = {q[j] : j \in 1 .. k}
  <2>1. ASSUME NEW m \in P PROVE \E j \in 1 .. k : m = q[j]
    <3>1. PICK j \in 1 .. n : m = q[j]
      BY <1>2
    <3>2. j <= k \/ m = q[k]
      BY <1>2, <1>7, <3>1
    <3>. QED
      BY <1>2, <3>1, <3>2
  <2>2. ASSUME NEW j \in 1 .. k PROVE q[j] \in P
    <3>1. j \in 1 .. n /\ (j = k \/ j < k)
      BY <1>2
    <3>. QED
      BY <1>2, <3>1
  <2>. QED
    BY <2>1, <2>2
<1>9. Folded(SubSeq(q, 1, k)) = SumOver(f, P)
  <2>1. PICK s : s = SubSeq(q, 1, k)
    OBVIOUS
  <2>2. PICK g : g = [j \in 1 .. k |-> f[q[j]]]
    OBVIOUS
  <2>3. \A j \in 1 .. k : j \in 1 .. n /\ q[j] \in W /\ q[j] \in Book
    BY <1>1, <1>2
  <2>4. DOMAIN s = 1 .. k /\ \A j \in 1 .. k : s[j] = q[j]
    <3>1. /\ s \in Seq(W) /\ Len(s) = k /\ \A j \in 1 .. k - 1 + 1 : s[j] = q[1 + j - 1]
      BY <1>2, <2>1, <2>3, SubSeqProperties
    <3>. QED
      BY <1>2, <3>1
  <2>5. IsFiniteSet(1 .. k)
    BY <1>2, FS_Interval
  <2>6. \A j \in 1 .. k : g[j] = Signed(s[j]) /\ g[j] \in Int /\ f[q[j]] = g[j]
    BY <1>6, <2>2, <2>3, <2>4
  <2>7. Folded(s) = SumOver(g, 1 .. k)
    BY <2>4, <2>5, <2>6, FoldIs
  <2>8. \A i, j \in 1 .. k : q[i] = q[j] => i = j
    <3> SUFFICES ASSUME NEW i \in 1 .. k, NEW j \in 1 .. k, i < j PROVE q[i] # q[j]
      BY <1>2
    <3>1. Before(q[i], q[j]) /\ ~(j < j)
      BY <1>2, <2>3
    <3>. QED
      BY <1>7, <2>3, <3>1
  <2>9. SumOver(f, {q[j] : j \in 1 .. k}) = SumOver(g, 1 .. k)
    BY ONLY <2>5, <2>6, <2>8, SumImage
  <2>. QED
    BY <1>8, <2>1, <2>7, <2>9
<1>10. Q = A \cup P /\ A \cap P = {}
  <2>1. ASSUME NEW m \in A PROVE m \in Q /\ m \notin W
    <3>1. m.date < q[k].date /\ ~(start <= m.date)
      BY <1>1, <1>3, <1>4
    <3>. QED
      BY <1>3, <3>1 DEF Before
  <2>2. ASSUME NEW m \in Q, m \notin W PROVE m \in A
    <3>1. m \in Book /\ m.date <= q[k].date /\ m.date \in Int
      BY <1>2, <1>3, <1>4
    <3>2. m.date <= end
      BY <1>1, <1>4, <3>1
    <3>3. ~(start <= m.date)
      BY <1>3, <2>2, <3>1, <3>2
    <3>. QED
      BY <1>1, <3>1, <3>3
  <2>. QED
    BY <1>1, <2>1, <2>2
<1>11. IsFiniteSet(P) /\ IsFiniteSet(Q) /\ IsFiniteSet(A) /\ P \subseteq Book /\ A \subseteq Book
  BY <1>1, FS_Subset
<1>12. Window(q[k], W) = SumOver(f, Q)
  <2>1. Window(q[k], W) = Sum(Q)
    BY DEF Window
  <2>2. \A m \in Q : f[m] = Signed(m)
    BY <1>6
  <2> HIDE DEF Q
  <2>. QED
    BY <1>11, <2>1, <2>2, SignedSum
<1>13. RunningBalance(start - 1) = SumOver(f, A)
  <2>1. RunningBalance(start - 1) = Sum(A)
    BY DEF RunningBalance
  <2>2. \A m \in A : f[m] = Signed(m)
    BY <1>6
  <2> HIDE DEF A
  <2>. QED
    BY <1>11, <2>1, <2>2, SignedSum
<1>14. \A m \in A \cup P : f[m] \in Int
  BY <1>6, <1>11
<1>15. SumOver(f, Q) = SumOver(f, A) + SumOver(f, P)
  <2> HIDE DEF A, P, Q
  <2>1. SumOver(f, A \cup P) = SumOver(f, A) + SumOver(f, P)
    BY ONLY <1>10, <1>11, <1>14, SumUnion
  <2>. QED
    BY ONLY <1>10, <2>1, Zenon
<1>16. SumOver(f, A) \in Int /\ SumOver(f, P) \in Int
  <2>1. (\A m \in A : f[m] \in Int) /\ \A m \in P : f[m] \in Int
    BY <1>14
  <2> HIDE DEF A, P
  <2>. QED
    BY ONLY <1>11, <2>1, SumType
<1>17. k = n => Window(q[k], W) = RunningBalance(end)
  <2> SUFFICES ASSUME k = n PROVE Window(q[k], W) = RunningBalance(end)
    OBVIOUS
  <2>1. {m \in Book : m.date <= end} = Q
    <3>1. ASSUME NEW m \in Book, m.date <= end PROVE m \in Q
      <4>1. CASE m \in W
        <5>1. PICK j \in 1 .. n : m = q[j]
          BY <1>2, <4>1
        <5>. QED
          BY <1>2, <5>1
      <4>2. CASE m \notin W
        <5>1. m.date < q[k].date
          <6>1. m.date \in Int /\ ~(start <= m.date)
            BY <1>3, <3>1, <4>2
          <6>. QED
            BY <1>1, <1>4, <6>1
        <5>. QED
          BY <5>1 DEF Before
      <4>. QED
        BY <4>1, <4>2
    <3>2. ASSUME NEW m \in Q PROVE m.date <= end
      <4>1. m \in Book /\ m.date <= q[k].date /\ m.date \in Int
        BY <1>2, <1>3, <1>4
      <4>. QED
        BY <1>1, <1>4, <4>1
    <3>. QED
      BY <3>1, <3>2
  <2>. QED
    BY <2>1 DEF Window, RunningBalance
<1> HIDE DEF A, P, Q
<1>. QED
  BY <1>9, <1>12, <1>13, <1>15, <1>16, <1>17

\* The period with its balances, newest first.
Newest(start, end) ==
    LET W == Within(start, end)
        n == Cardinality(W)
        q == InOrder(W)
    IN  [i \in 1 .. n |-> [row |-> q[n - i + 1], balance |-> Window(q[n - i + 1], W)]]

\* The part of x after one place, up to another.
Piece(x, from, to) == [j \in 1 .. to - from |-> x[from + j]]

\* A page is a part of that.
LEMMA RecentIs ==
    ASSUME BInv, NEW start \in Dates, NEW end \in Dates, NEW limit \in Nat, NEW offset \in Nat
    PROVE  Recent(start, end, limit, offset) =
             Piece(Newest(start, end), offset,
                   Least(Cardinality(Within(start, end)), offset + limit))
<1>0. PICK x, to : /\ x = Newest(start, end)
                   /\ to = Least(Cardinality(Within(start, end)), offset + limit)
  OBVIOUS
<1>1. PICK W : W = Within(start, end)
  OBVIOUS
<1>2. PICK q : q = InOrder(W)
  OBVIOUS
<1>3. PICK n : n = Cardinality(W)
  OBVIOUS
<1>4. n \in Nat /\ q \in [1 .. n -> W]
  <2>1. W \subseteq Book
    BY <1>1 DEF Within
  <2>. QED
    BY <1>2, <1>3, <2>1, RowsInOrder
<1>5. x = [i \in 1 .. n |-> [row |-> q[n - i + 1], balance |-> Window(q[n - i + 1], W)]]
  BY <1>0, <1>1, <1>2, <1>3 DEF Newest
<1>6. PICK newest : newest = Reverse(q)
  OBVIOUS
<1>7. /\ Len(newest) = n /\ \A i \in 1 .. n : newest[i] = q[n - i + 1] /\ newest[i] \in W
  <2>1. Len(q) = n
    BY <1>4
  <2>2. newest = [i \in 1 .. n |-> q[(n - i) + 1]]
    BY <1>6, <2>1 DEF Reverse
  <2>3. \A i \in 1 .. n : n - i + 1 \in 1 .. n
    BY <1>4
  <2>. QED
    BY <1>4, <2>2, <2>3
<1>8. to \in Nat /\ to <= n /\ to = Min({Len(newest), offset + limit})
  <2>1. to = Least(n, offset + limit)
    BY <1>0, <1>1, <1>3
  <2>2. Min({n, offset + limit}) = Least(n, offset + limit)
    BY <1>4, MinIs
  <2>. QED
    BY <1>4, <1>7, <2>1, <2>2 DEF Least
<1>9. PICK page : page = SubSeq(newest, offset + 1, to)
  OBVIOUS
<1>10. DOMAIN page = 1 .. to - offset /\ \A j \in 1 .. to - offset : page[j] = newest[offset + j]
  <2>1. \A i \in offset + 1 .. to : newest[i] \in W
    BY <1>7, <1>8
  <2>2. /\ page \in Seq(W)
        /\ Len(page) = IF offset + 1 <= to THEN to - (offset + 1) + 1 ELSE 0
        /\ \A j \in 1 .. to - (offset + 1) + 1 : page[j] = newest[offset + 1 + j - 1]
    <3>1. PICK from \in Int : from = offset + 1
      OBVIOUS
    <3>2. page = SubSeq(newest, from, to) /\ \A i \in from .. to : newest[i] \in W
      BY <1>9, <2>1, <3>1
    <3>3. to \in Int
      BY <1>8
    <3>4. /\ page \in Seq(W)
          /\ Len(page) = IF from <= to THEN to - from + 1 ELSE 0
          /\ \A j \in 1 .. to - from + 1 : page[j] = newest[from + j - 1]
      BY ONLY <3>2, <3>3, from \in Int, SubSeqProperties
    <3>. QED
      BY <3>1, <3>4
  <2>3. to - (offset + 1) + 1 = to - offset
    BY <1>8
  <2>4. \A j \in 1 .. to - offset : offset + 1 + j - 1 = offset + j
    BY <1>8
  <2>5. DOMAIN page = 1 .. to - offset
    <3>1. DOMAIN page = 1 .. Len(page)
      BY <2>2, LenProperties
    <3>2. CASE offset + 1 <= to
      BY <2>2, <2>3, <3>1, <3>2
    <3>3. CASE ~(offset + 1 <= to)
      <4>1. 1 .. to - offset = {} /\ 1 .. 0 = {}
        BY <1>8, <3>3
      <4>. QED
        BY <2>2, <3>1, <3>3, <4>1
    <3>. QED
      BY <3>2, <3>3
  <2>. QED
    BY <2>2, <2>3, <2>4, <2>5
<1>11. Recent(start, end, limit, offset) =
         [j \in DOMAIN page |-> [row |-> page[j], balance |-> Window(page[j], W)]]
  BY <1>1, <1>2, <1>6, <1>8, <1>9 DEF Recent
<1>12. \A j \in 1 .. to - offset : /\ offset + j \in 1 .. n
                                   /\ [row |-> page[j], balance |-> Window(page[j], W)] = x[offset + j]
  <2> TAKE j \in 1 .. to - offset
  <2>1. offset + j \in 1 .. n
    BY <1>4, <1>8
  <2>. QED
    BY <1>5, <1>7, <1>10, <2>1
<1>. QED
  BY <1>0, <1>10, <1>11, <1>12 DEF Piece

\* The pages, glued, are all of it.
LEMMA PagesAre ==
    ASSUME BInv, NEW start \in Dates, NEW end \in Dates
    PROVE  Pages(start, end, 2) = Newest(start, end)
<1>1. PICK n : n = Count(start, end)
  OBVIOUS
<1>2. n \in Nat /\ n = Cardinality(Within(start, end))
  <2>1. Within(start, end) \subseteq Book
    BY DEF Within
  <2>. QED
    BY <1>1, <2>1, RowsInOrder DEF Count
<1>3. PICK x : x = Newest(start, end)
  OBVIOUS
<1>4. DOMAIN x = 1 .. n
  BY <1>2, <1>3 DEF Newest
<1>5. PICK X : x \in Seq(X) /\ Len(x) = n
  <2>1. x \in [1 .. n -> {x[i] : i \in 1 .. n}]
    BY <1>3, <1>4 DEF Newest
  <2>2. x \in Seq({x[i] : i \in 1 .. n}) /\ Len(x) = n
    BY <1>2, <2>1
  <2>. QED
    BY <2>2
<1>6. PICK last : last = n \div 2 + 1
  OBVIOUS
<1>7. last \in Nat \ {0} /\ 2 * (last - 1) <= n /\ n < 2 * last
  BY <1>2, <1>6
<1>8. PICK cut : cut = [k \in 0 .. last |-> Least(n, 2 * k)]
  OBVIOUS
<1>9. PICK seqs : seqs = [k \in 1 .. last |-> Recent(start, end, 2, (k - 1) * 2)]
  OBVIOUS
<1>10. cut[0] = 0 /\ cut[last] = n /\ \A k \in 0 .. last : cut[k] \in 0 .. n
  BY <1>2, <1>7, <1>8 DEF Least
<1>11. ASSUME NEW k \in 1 .. last
       PROVE  /\ cut[k - 1] <= cut[k]
              /\ seqs[k] = [j \in 1 .. cut[k] - cut[k - 1] |-> x[cut[k - 1] + j]]
  <2>1. PICK a : a = (k - 1) * 2
    OBVIOUS
  <2>2. a \in Nat /\ a <= n /\ cut[k - 1] = a
    BY <1>2, <1>7, <1>8, <2>1 DEF Least
  <2>3. cut[k] = Least(n, a + 2) /\ a + 2 \in Nat
    BY <1>7, <1>8, <2>1, <2>2
  <2>4. seqs[k] = Recent(start, end, 2, a)
    BY <1>9, <2>1
  <2>5. Recent(start, end, 2, a) = [j \in 1 .. cut[k] - a |-> x[a + j]]
    <3>1. Recent(start, end, 2, a) =
            Piece(Newest(start, end), a, Least(Cardinality(Within(start, end)), a + 2))
      BY <2>2, RecentIs
    <3>. QED
      BY <1>2, <1>3, <2>3, <3>1 DEF Piece
  <2>6. a <= cut[k]
    BY <1>2, <2>2, <2>3 DEF Least
  <2>. QED
    BY <2>2, <2>4, <2>5, <2>6
<1>12. CutInto(seqs, x, cut, last)
  <2>1. Len(seqs) = last
    BY <1>7, <1>9
  <2>. QED
    BY <1>5, <1>10, <1>11, <2>1 DEF CutInto
<1>13. FlattenSeq(seqs) = [j \in 1 .. cut[last] |-> x[j]]
  BY ONLY <1>5, <1>7, <1>12, Glued
<1>14. Pages(start, end, 2) = FlattenSeq(seqs)
  BY <1>1, <1>6, <1>9 DEF Pages
<1>15. x = [j \in 1 .. n |-> x[j]]
  BY <1>3, <1>4 DEF Newest
<1>. QED
  BY <1>3, <1>10, <1>13, <1>14, <1>15

\* The agent's list, moved up by what there was before, is the same.
LEMMA ConsultaIs ==
    ASSUME BInv, NEW start \in Dates, NEW end \in Dates, Count(start, end) <= LedgerLimit,
           NEW n, n = Count(start, end)
    PROVE  /\ n \in Nat
           /\ Shifted(Consulta(start, end, 0), RunningBalance(start - 1)) = Newest(start, end)
           /\ Shifted(Consulta(start, end, 2), RunningBalance(start - 1))
                = Piece(Newest(start, end), 0, Least(n, 2))
           /\ n > 0 => Newest(start, end)[1].balance = RunningBalance(end)
<1>1. PICK W : W = Within(start, end)
  OBVIOUS
<1>2. PICK q : q = InOrder(W)
  OBVIOUS
<1>3. n = Cardinality(W) /\ W \subseteq Book
  BY <1>1 DEF Count, Within
<1>4. n \in Nat /\ q \in [1 .. n -> W] /\ n <= LedgerLimit /\ LedgerLimit \in Nat
  BY <1>2, <1>3, RowsInOrder, CashAssumption
<1>5. PICK before : before = RunningBalance(start - 1)
  OBVIOUS
<1>6. PICK x : x = Newest(start, end)
  OBVIOUS
<1>7. x = [i \in 1 .. n |-> [row |-> q[n - i + 1], balance |-> Window(q[n - i + 1], W)]]
  BY <1>1, <1>2, <1>3, <1>6 DEF Newest
<1>8. \A k \in 1 .. n : /\ Window(q[k], W) = Folded(SubSeq(q, 1, k)) + before
                        /\ k = n => Window(q[k], W) = RunningBalance(end)
  BY <1>1, <1>2, <1>3, <1>5, Balances
<1>9. PICK ledger : ledger = Ledger(start, end)
  OBVIOUS
<1>10. ledger = [i \in 1 .. n |-> [row |-> q[i], balance |-> Folded(SubSeq(q, 1, i))]]
  <2>1. Len(q) = n /\ q \in Seq(W)
    BY <1>4
  <2>2. Min({Len(q), LedgerLimit}) = n
    BY <1>4, <2>1, MinIs DEF Least
  <2>3. PICK listed : listed = SubSeq(q, 1, n)
    OBVIOUS
  <2>4. listed = q
    BY <1>4, <2>1, <2>3
  <2>5. Ledger(start, end) =
          LET rows == InOrder(Within(start, end))
              shown == SubSeq(rows, 1, Min({Len(rows), LedgerLimit}))
          IN  [i \in DOMAIN shown |->
                  [row |-> shown[i], balance |-> Folded(SubSeq(shown, 1, i))]]
    BY DEF Ledger, Folded
  <2>6. ledger = [i \in DOMAIN listed |->
                     [row |-> listed[i], balance |-> Folded(SubSeq(listed, 1, i))]]
    BY <1>1, <1>2, <1>9, <2>2, <2>3, <2>5
  <2>7. DOMAIN q = 1 .. n
    BY <1>4
  <2>. QED
    BY <2>4, <2>6, <2>7
<1>11. PICK entries : entries = Reverse(ledger)
  OBVIOUS
<1>12. /\ DOMAIN entries = 1 .. n /\ Len(entries) = n
       /\ \A i \in 1 .. n : entries[i] = [row |-> q[n - i + 1],
                                          balance |-> Folded(SubSeq(q, 1, n - i + 1))]
  <2>1. Len(ledger) = n
    BY <1>4, <1>10
  <2>2. entries = [i \in 1 .. n |-> ledger[(n - i) + 1]]
    BY <1>11, <2>1 DEF Reverse
  <2>3. \A i \in 1 .. n : n - i + 1 \in 1 .. n
    BY <1>4
  <2>. QED
    BY <1>4, <1>10, <2>2, <2>3
<1>13. \A i \in 1 .. n : [entries[i] EXCEPT !.balance = @ + before] = x[i]
  <2> TAKE i \in 1 .. n
  <2>1. n - i + 1 \in 1 .. n
    BY <1>4
  <2>2. PICK m, b : m = q[n - i + 1] /\ b = Folded(SubSeq(q, 1, n - i + 1))
    OBVIOUS
  <2>3. Window(m, W) = b + before
    BY <1>8, <2>1, <2>2
  <2>4. entries[i] = [row |-> m, balance |-> b]
    BY <1>12, <2>2
  <2>5. x[i] = [row |-> m, balance |-> b + before]
    BY <1>7, <2>2, <2>3
  <2>. QED
    BY <2>4, <2>5
<1>14. Shifted(Consulta(start, end, 0), before) = x
  <2>1. Consulta(start, end, 0) = entries
    BY <1>9, <1>11 DEF Consulta
  <2>2. Shifted(entries, before) = [i \in 1 .. n |-> [entries[i] EXCEPT !.balance = @ + before]]
    BY <1>12 DEF Shifted
  <2>3. Shifted(entries, before) = [i \in 1 .. n |-> x[i]]
    BY <1>13, <2>2
  <2>4. x = [i \in 1 .. n |-> x[i]]
    BY <1>7
  <2>. QED
    BY <2>1, <2>3, <2>4
<1>15. Shifted(Consulta(start, end, 2), before) = Piece(x, 0, Least(n, 2))
  <2>1. PICK k : k = Least(n, 2)
    OBVIOUS
  <2>2. k \in Nat /\ k <= n /\ Min({Len(entries), 2}) = k
    BY <1>4, <1>12, <2>1, MinIs DEF Least
  <2>3. PICK page : page = SubSeq(entries, 1, k)
    OBVIOUS
  <2>4. Consulta(start, end, 2) = page
    <3>1. Consulta(start, end, 2) = SubSeq(entries, 1, Min({Len(entries), 2}))
      BY <1>9, <1>11 DEF Consulta
    <3>. QED
      BY <2>2, <2>3, <3>1
  <2>5. DOMAIN page = 1 .. k /\ \A i \in 1 .. k : i \in 1 .. n /\ page[i] = entries[i]
    BY <1>4, <2>2, <2>3
  <2>6. Shifted(page, before) = [i \in 1 .. k |-> [page[i] EXCEPT !.balance = @ + before]]
    BY <2>5 DEF Shifted
  <2>7. Shifted(page, before) = [i \in 1 .. k |-> x[i]]
    BY <1>13, <2>5, <2>6
  <2>8. Piece(x, 0, k) = [i \in 1 .. k |-> x[i]]
    BY <2>2 DEF Piece
  <2>. QED
    BY <2>1, <2>4, <2>7, <2>8
<1>16. n > 0 => x[1].balance = RunningBalance(end)
  <2> SUFFICES ASSUME n > 0 PROVE x[1].balance = RunningBalance(end)
    OBVIOUS
  <2>1. 1 \in 1 .. n /\ n \in 1 .. n /\ n - 1 + 1 = n
    BY <1>4
  <2>2. x[1].balance = Window(q[n], W)
    BY <1>7, <2>1
  <2>. QED
    BY <1>8, <2>1, <2>2
<1>. QED
  BY <1>4, <1>5, <1>6, <1>14, <1>15, <1>16

\* The panel's pages, the agent's list and the sum up to a day agree on every
\* book that can be reached.
THEOREM ReadersOfTheBook == HSpec => []ReadersAgree
<1>1. ASSUME BInv PROVE ReadersAgree
  <2> SUFFICES ASSUME NEW start \in Dates, NEW end \in Dates, Count(start, end) <= LedgerLimit
               PROVE  LET before == RunningBalance(start - 1)
                          all == Pages(start, end, 2)
                      IN  /\ all = Shifted(Consulta(start, end, 0), before)
                          /\ Shifted(Consulta(start, end, 2), before) = Recent(start, end, 2, 0)
                          /\ all # <<>> => all[1].balance = RunningBalance(end)
    BY DEF ReadersAgree
  <2>1. PICK n : n = Count(start, end)
    OBVIOUS
  <2>2. /\ n \in Nat
        /\ Shifted(Consulta(start, end, 0), RunningBalance(start - 1)) = Newest(start, end)
        /\ Shifted(Consulta(start, end, 2), RunningBalance(start - 1))
             = Piece(Newest(start, end), 0, Least(n, 2))
        /\ n > 0 => Newest(start, end)[1].balance = RunningBalance(end)
    BY <1>1, <2>1, ConsultaIs
  <2>3. Pages(start, end, 2) = Newest(start, end)
    BY <1>1, PagesAre
  <2>4. Recent(start, end, 2, 0) = Piece(Newest(start, end), 0, Least(n, 2))
    <3>1. Recent(start, end, 2, 0) =
            Piece(Newest(start, end), 0, Least(Cardinality(Within(start, end)), 0 + 2))
      BY <1>1, RecentIs
    <3>. QED
      BY <2>1, <3>1 DEF Count
  <2>5. Newest(start, end) # <<>> => n > 0
    <3>1. DOMAIN Newest(start, end) = 1 .. n
      BY <2>1 DEF Newest, Count
    <3>2. Newest(start, end) = [i \in 1 .. n |-> Newest(start, end)[i]]
      BY <2>1 DEF Newest, Count
    <3>3. n = 0 => Newest(start, end) = <<>>
      BY <3>1, <3>2
    <3>. QED
      BY <2>2, <3>3
  <2>. QED
    BY <2>2, <2>3, <2>4, <2>5
<1>. QED
  BY <1>1, BInvariance, PTL

----------------------------------------------------------------------------
(* The lists of the sales. *)

\* A sale, and a page of one sale, as the agent sees them.
Shown(v, today) == [id |-> v, daysPending |-> IF pending[v] THEN today - SoldOn[v] ELSE Unset]
PageOf(f, k, today) == ConsultarVentas(f, 1, k - 1, today)

\* The pages show the sales of q one by one, and there is more until the last.
OneByOne(q, f, N, today) ==
    /\ q \in [1 .. N -> Filtered(f)]
    /\ \A v \in Filtered(f) : \E i \in 1 .. N : v = q[i]
    /\ \A k \in 1 .. N + 1 :
          /\ PageOf(f, k, today).hayMas <=> k < N
          /\ k = N + 1 => PageOf(f, k, today).ventas = <<>>
          /\ k <= N => PageOf(f, k, today).ventas = [j \in 1 .. 1 |-> Shown(q[k], today)]

\* The agent's pages of one sale show them one by one.
LEMMA OnePage ==
    ASSUME BInv, NEW f, NEW today \in Int
    PROVE  CountSales(f) \in Nat /\ \E q : OneByOne(q, f, CountSales(f), today)
<1>0. PICK N : N = CountSales(f)
  OBVIOUS
<1>1. PICK S : S = Filtered(f)
  OBVIOUS
<1>2. S \subseteq Sales /\ IsFiniteSet(S) /\ N = Cardinality(S) /\ N \in Nat
  BY <1>0, <1>1, FS_Subset, FS_CardinalityType
     DEF BInv, HInv, IInv, TypeOK, BookOK, Filtered, CountSales
<1>3. PICK R : R = {p \in S \X S : CreatedAt[p[1]] > CreatedAt[p[2]]}
  OBVIOUS
<1>4. \A v, w \in S : <<v, w>> \in R <=> CreatedAt[v] > CreatedAt[w]
  BY <1>3
<1>5. \A v, w \in S : /\ CreatedAt[v] \in Nat
                      /\ CreatedAt[v] = CreatedAt[w] => v = w
  BY <1>2, SaleAssumption
<1>6. TotalOrder(R, S)
  BY <1>4, <1>5 DEF TotalOrder
<1>7. PICK q : q = Ordered(S, R)
  OBVIOUS
<1>8. /\ q \in [1 .. N -> S]
      /\ \A v \in S : \E i \in 1 .. N : v = q[i]
  BY <1>2, <1>6, <1>7, OrderedIs DEF Enumerates
<1>9. ASSUME NEW k \in 1 .. N + 1
      PROVE  /\ PageOf(f, k, today).hayMas <=> k < N
             /\ k = N + 1 => PageOf(f, k, today).ventas = <<>>
             /\ k <= N => PageOf(f, k, today).ventas = [j \in 1 .. 1 |-> Shown(q[k], today)]
  <2>1. PICK sales : sales = GetAll(f, 1, k - 1)
    OBVIOUS
  <2>2. sales = SubSeq(q, k, Least(N, k))
    <3>1. Len(q) = N /\ k - 1 + 1 = k
      BY <1>2, <1>8
    <3>2. sales = SubSeq(q, k - 1 + 1, Min({Len(q), k - 1 + 1}))
      BY <1>1, <1>3, <1>7, <2>1 DEF GetAll
    <3>3. Min({N, k}) = Least(N, k)
      BY <1>2, MinIs
    <3>. QED
      BY <3>1, <3>2, <3>3
  <2>3. /\ PageOf(f, k, today).hayMas <=> k - 1 + Len(sales) < N
        /\ PageOf(f, k, today).ventas = [j \in DOMAIN sales |-> Shown(sales[j], today)]
    BY <1>0, <2>1 DEF ConsultarVentas, PageOf, Shown
  <2>4. CASE k = N + 1
    <3>1. sales = <<>>
      <4>1. Least(N, k) = N /\ N < k
        BY <1>2, <2>4 DEF Least
      <4>. QED
        BY <1>2, <2>2, <4>1, SubSeqEmpty
    <3>2. DOMAIN sales = 1 .. 0 /\ Len(sales) = 0
      BY <3>1
    <3>3. PageOf(f, k, today).ventas = <<>>
      BY <2>3, <3>2
    <3>. QED
      BY <1>2, <2>3, <2>4, <3>2, <3>3
  <2>5. CASE k <= N
    <3>1. Least(N, k) = k /\ k \in 1 .. N
      BY <1>2, <2>5 DEF Least
    <3>2. Len(sales) = 1 /\ DOMAIN sales = 1 .. 1 /\ sales[1] = q[k]
      BY <1>2, <1>8, <2>2, <3>1
    <3>3. \A j \in 1 .. 1 : sales[j] = q[k]
      BY <3>2
    <3>4. PageOf(f, k, today).ventas = [j \in 1 .. 1 |-> Shown(q[k], today)]
      BY <2>3, <3>2, <3>3
    <3>. QED
      BY <1>2, <2>3, <2>5, <3>1, <3>2, <3>4
  <2>. QED
    BY <1>2, <2>4, <2>5
<1>10. OneByOne(q, f, N, today)
  BY <1>1, <1>8, <1>9 DEF OneByOne
<1>. QED
  BY <1>0, <1>2, <1>10

\* What the agent reads page by page is every sale of the filter once.
LEMMA AgentPages ==
    ASSUME BInv, NEW f, NEW today \in Int
    PROVE  PagesMakeTheList(f, today)
<1> DEFINE page(k) == PageOf(f, k, today)
<1>1. PICK N : N = CountSales(f)
  OBVIOUS
<1>2. PICK q : /\ q \in [1 .. N -> Filtered(f)]
               /\ \A v \in Filtered(f) : \E i \in 1 .. N : v = q[i]
               /\ \A k \in 1 .. N + 1 :
                     /\ page(k).hayMas <=> k < N
                     /\ k = N + 1 => page(k).ventas = <<>>
                     /\ k <= N => page(k).ventas = [j \in 1 .. 1 |-> Shown(q[k], today)]
  <2>1. PICK q : OneByOne(q, f, N, today)
    BY <1>1, OnePage
  <2>. QED
    BY <2>1 DEF OneByOne
<1>3. N \in Nat
  BY <1>1, OnePage
<1>4. PICK last : last = CHOOSE k \in 1 .. CountSales(f) + 1 :
                            ~page(k).hayMas /\ \A j \in 1 .. k - 1 : page(j).hayMas
  OBVIOUS
<1>5. PICK seqs : seqs = [k \in 1 .. last |-> page(k).ventas]
  OBVIOUS
<1>6. PICK read : read = FlattenSeq(seqs)
  OBVIOUS
<1>7. PagesMakeTheList(f, today) <=>
        /\ {read[k].id : k \in DOMAIN read} = Filtered(f)
        /\ Len(read) = ListSales(f, 1, 0).total
        /\ page(1).montoTotal = TotalOf({read[k].id : k \in DOMAIN read})
        /\ \A k \in DOMAIN read : (read[k].daysPending # Unset) <=> pending[read[k].id]
  BY <1>4, <1>5, <1>6 DEF PagesMakeTheList, PageOf
<1>8. page(1).montoTotal = SumTotal(f) /\ ListSales(f, 1, 0).total = N
  BY <1>1 DEF PageOf, ConsultarVentas, ListSales
<1> HIDE DEF page
<1>9. last \in 1 .. N + 1 /\ last = IF N = 0 THEN 1 ELSE N
  <2> DEFINE ends(k) == ~page(k).hayMas /\ \A j \in 1 .. k - 1 : page(j).hayMas
  <2>1. \A k \in 1 .. N + 1 : page(k).hayMas <=> k < N
    BY <1>2
  <2>2. PICK m \in 1 .. N + 1 : m = IF N = 0 THEN 1 ELSE N
    BY <1>3
  <2>3. ends(m)
    BY <1>3, <2>1, <2>2
  <2>4. ASSUME NEW k \in 1 .. N + 1, ends(k) PROVE k = m
    <3>1. ~(k < N) /\ (k > 1 => k - 1 < N)
      BY <1>3, <2>1, <2>4
    <3>. QED
      BY <1>3, <2>2, <3>1
  <2> HIDE DEF ends
  <2>5. last = CHOOSE k \in 1 .. N + 1 : ends(k)
    BY <1>1, <1>4 DEF ends
  <2>. QED
    BY <2>2, <2>3, <2>4, <2>5
<1>10. PICK x : x = [k \in 1 .. N |-> Shown(q[k], today)]
  OBVIOUS
<1>11. PICK X : x \in Seq(X) /\ Len(x) = N
  <2>1. x \in [1 .. N -> {x[i] : i \in 1 .. N}]
    BY <1>10
  <2>2. x \in Seq({x[i] : i \in 1 .. N}) /\ Len(x) = N
    BY <1>3, <2>1
  <2>. QED
    BY <2>2
<1>12. PICK cut : cut = [k \in 0 .. last |-> Least(N, k)]
  OBVIOUS
<1>13. cut[0] = 0 /\ cut[last] = N /\ \A k \in 0 .. last : cut[k] \in 0 .. N
  BY <1>3, <1>9, <1>12 DEF Least
<1>14. ASSUME NEW k \in 1 .. last
       PROVE  /\ cut[k - 1] <= cut[k]
              /\ seqs[k] = [j \in 1 .. cut[k] - cut[k - 1] |-> x[cut[k - 1] + j]]
  <2>1. seqs[k] = page(k).ventas /\ k \in 1 .. N + 1 /\ cut[k - 1] = k - 1
    BY <1>3, <1>5, <1>9, <1>12 DEF Least
  <2>2. CASE k <= N
    <3>1. cut[k] = k /\ k \in 1 .. N
      BY <1>3, <1>12, <2>1, <2>2 DEF Least
    <3>2. seqs[k] = [j \in 1 .. 1 |-> x[k]]
      BY <1>2, <1>10, <2>1, <2>2, <3>1
    <3>3. k - (k - 1) = 1 /\ k - 1 + 1 = k
      OBVIOUS
    <3>4. [j \in 1 .. k - (k - 1) |-> x[k - 1 + j]] = [j \in 1 .. 1 |-> x[k]]
      BY <3>3
    <3>. QED
      BY <2>1, <3>1, <3>2, <3>4
  <2>3. CASE ~(k <= N)
    <3>1. k = N + 1 /\ cut[k] = N
      BY <1>3, <1>12, <2>1, <2>3 DEF Least
    <3>2. seqs[k] = <<>>
      BY <1>2, <2>1, <3>1
    <3>3. 1 .. N - N = {}
      BY <1>3
    <3>. QED
      BY <1>3, <2>1, <3>1, <3>2, <3>3
  <2>. QED
    BY <2>2, <2>3
<1>15. CutInto(seqs, x, cut, last)
  <2>1. Len(seqs) = last
    BY <1>5, <1>9
  <2>. QED
    BY <1>11, <1>13, <1>14, <2>1 DEF CutInto
<1>16. read = [k \in 1 .. N |-> x[k]]
  <2>1. last \in Nat \ {0}
    BY <1>3, <1>9
  <2>2. FlattenSeq(seqs) = [j \in 1 .. cut[last] |-> x[j]]
    BY ONLY <1>11, <1>15, <2>1, Glued
  <2>. QED
    BY <1>6, <1>13, <2>2
<1>17. /\ DOMAIN read = 1 .. N /\ Len(read) = N
       /\ \A k \in 1 .. N : /\ read[k].id = q[k]
                            /\ read[k].daysPending = IF pending[q[k]] THEN today - SoldOn[q[k]]
                                                                      ELSE Unset
  BY <1>3, <1>10, <1>16 DEF Shown
<1>18. {read[k].id : k \in DOMAIN read} = Filtered(f)
  BY <1>2, <1>17
<1>19. \A k \in 1 .. N : today - SoldOn[q[k]] \in Int
  <2>1. \A v \in Filtered(f) : v \in Sales
    BY DEF BInv, HInv, IInv, TypeOK, Filtered
  <2>2. \A v \in Sales : SoldOn[v] \in Int
    BY SaleAssumption, CashAssumption
  <2>. QED
    BY <1>2, <2>1, <2>2
<1>20. \A k \in DOMAIN read : (read[k].daysPending # Unset) <=> pending[read[k].id]
  BY <1>17, <1>19, SaleAssumption
<1>. QED
  BY <1>7, <1>8, <1>17, <1>18, <1>20 DEF SumTotal

\* The money of the sales, however it is read, is collected or owed.
THEOREM SoldIsRead == HSpec => []SoldIsCollectedOrOwed
<1>1. ASSUME BInv PROVE SoldIsCollectedOrOwed
  <2>1. \A f \in {NoFilter, Owed} : PagesMakeTheList(f, Max(Dates))
    <3>1. Max(Dates) \in Int
      <4>1. Dates \subseteq Int /\ IsFiniteSet(Dates) /\ Dates # {}
        BY CashAssumption
      <4>2. Max(Dates) \in Dates
        BY ONLY <4>1, Extremes
      <4>3. \A d \in Dates : d \in Int
        BY ONLY <4>1
      <4>. QED
        BY ONLY <4>2, <4>3, Zenon
    <3>. QED
      BY <1>1, <3>1, AgentPages
  <2>2. \A start, end \in Dates : ReportsAddUp(start, end)
    BY <1>1, Reports
  <2>3. CashIsWhatWasCollected
    BY <1>1, CashOnTheDay
  <2>. QED
    BY <1>1, <2>1, <2>2, <2>3, SoldIsBoth, OwedByProduct DEF SoldIsCollectedOrOwed
<1>. QED
  BY <1>1, BInvariance, PTL
=============================================================================
