--------------------------- MODULE MCSalePayment ---------------------------
(* A sale of two products and a gift, two sessions, and a book with an     *)
(* opening balance, what the owner put in and took out, and an expense.    *)
EXTENDS SaleLists, TLC

CONSTANTS s1, s2, v1, v2, c1, c2, p1, p2

MCSales == {v1, v2}
MCTotal == v1 :> 3 @@ v2 :> 0
MCZero == {v2}
MCDates == 1..2
MCCustomer == v1 :> c1 @@ v2 :> c2
MCSoldOn == v1 :> 1 @@ v2 :> 2
MCCreatedAt == v1 :> 2 @@ v2 :> 1
MCItems ==
    v1 :> {[line |-> 1, product |-> p1, quantity |-> 1, subtotal |-> 1, profit |-> 1],
           [line |-> 2, product |-> p2, quantity |-> 2, subtotal |-> 2, profit |-> -1]}
    @@ v2 :> {[line |-> 1, product |-> p2, quantity |-> 1, subtotal |-> 0, profit |-> -2]}
MCSessions == {s1, s2}
MCNone == {}
MCLoose == {1}
MCStanding ==
    {[id |-> -4, type |-> "saldo_inicial", date |-> 1, amount |-> 5],
     [id |-> -3, type |-> "aporte_socio", date |-> 1, amount |-> 4],
     [id |-> -2, type |-> "salida", date |-> 2, amount |-> 2],
     [id |-> -1, type |-> "retiro_socio", date |-> 1, amount |-> 1]}

Symmetry == Permutations(MCSessions)
=============================================================================
