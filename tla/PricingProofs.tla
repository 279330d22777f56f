--------------------------- MODULE PricingProofs ---------------------------
(***************************************************************************)
(* What the habitual margin can be, and what one discount does to it, for  *)
(* any margins; and when the next purchase is projected, and what an old   *)
(* gap weighs in it, for any dates.                                        *)
(***************************************************************************)
EXTENDS Pricing, Projection, Sums, TLAPS

\* A third, rounded, is within a third of the exact one.
LEMMA ThirdIsClose ==
    ASSUME NEW n \in Int
    PROVE  /\ HalfUp(n, 3) \in Int
           /\ 3 * HalfUp(n, 3) <= n + 1
           /\ 3 * HalfUp(n, 3) >= n - 1
<1>1. CASE n >= 0
  <2>1. HalfUp(n, 3) = (2 * n + 3) \div 6
    BY <1>1 DEF HalfUp
  <2> DEFINE q == (2 * n + 3) \div 6
  <2>2. q \in Int /\ 6 * q <= 2 * n + 3 /\ 2 * n + 3 < 6 * q + 6
    BY SMT
  <2>. QED
    BY <2>1, <2>2
<1>2. CASE n < 0
  <2>1. HalfUp(n, 3) = -((3 - 2 * n) \div 6)
    BY <1>2 DEF HalfUp
  <2> DEFINE q == (3 - 2 * n) \div 6
  <2>2. q \in Int /\ 6 * q <= 3 - 2 * n /\ 3 - 2 * n < 6 * q + 6
    BY SMT
  <2>. QED
    BY <2>1, <2>2
<1>. QED
  BY <1>1, <1>2

\* The average of three margins is an integer between two of them.
LEMMA AverageBetween ==
    ASSUME NEW m, m[1] \in Int, m[2] \in Int, m[3] \in Int
    PROVE  /\ Average(m) \in Int
           /\ \E i \in 1..3 : m[i] <= Average(m)
           /\ \E i \in 1..3 : Average(m) <= m[i]
<1> DEFINE n == m[1] + m[2] + m[3]
<1>1. n \in Int
  OBVIOUS
<1>2. Average(m) = HalfUp(n, 3)
  BY DEF Average
<1>3. Average(m) \in Int /\ 3 * Average(m) <= n + 1 /\ 3 * Average(m) >= n - 1
  BY <1>1, <1>2, ThirdIsClose
<1>4. m[1] <= Average(m) \/ m[2] <= Average(m) \/ m[3] <= Average(m)
  BY <1>3
<1>5. Average(m) <= m[1] \/ Average(m) <= m[2] \/ Average(m) <= m[3]
  BY <1>3
<1>6. 1 \in 1..3 /\ 2 \in 1..3 /\ 3 \in 1..3
  OBVIOUS
<1>. QED
  BY <1>3, <1>4, <1>5, <1>6

LEMMA FirstThree ==
    ASSUME NEW m \in Seq(Int), Len(m) >= 3
    PROVE  m[1] \in Int /\ m[2] \in Int /\ m[3] \in Int
<1>1. 1 \in 1..Len(m) /\ 2 \in 1..Len(m) /\ 3 \in 1..Len(m)
  OBVIOUS
<1>. QED
  BY <1>1

\* The habitual margin of a customer (detect_habitual_margin) is not the
\* standard one, and is no further from any of the three margins it comes
\* from than these may be from each other.
THEOREM HabitualIsCustomary ==
    ASSUME NEW observed \in Seq(Int), NEW base \in Int,
           DetectHabitualMargin(observed, base) # None
    PROVE  LET h == DetectHabitualMargin(observed, base)
           IN  /\ h \in Int /\ h # base
               /\ \A i \in 1..3 : h - observed[i] <= Tolerance /\ observed[i] - h <= Tolerance
<1> DEFINE h == Average(observed)
<1>1. Len(observed) >= 3 /\ Consistent(observed) /\ h # base
  BY DEF DetectHabitualMargin, MinSalesForPattern
<1>2. DetectHabitualMargin(observed, base) = h
  BY <1>1 DEF DetectHabitualMargin, MinSalesForPattern
<1>3. observed[1] \in Int /\ observed[2] \in Int /\ observed[3] \in Int
  BY <1>1, FirstThree
<1>4. /\ h \in Int
      /\ \E i \in 1..3 : observed[i] <= h
      /\ \E i \in 1..3 : h <= observed[i]
  BY <1>3, AverageBetween
<1>5. ASSUME NEW i \in 1..3
      PROVE  h - observed[i] <= Tolerance /\ observed[i] - h <= Tolerance
  <2>1. observed[i] \in Int
    BY <1>3
  <2>2. PICK j \in 1..3 : h <= observed[j]
    BY <1>4
  <2>3. PICK k \in 1..3 : observed[k] <= h
    BY <1>4
  <2>4. observed[j] \in Int /\ observed[k] \in Int
    BY <1>3
  <2>5. observed[j] - observed[i] <= Tolerance /\ observed[i] - observed[k] <= Tolerance
    BY <1>1 DEF Consistent
  <2>. QED
    BY <1>4, <2>1, <2>2, <2>3, <2>4, <2>5 DEF Tolerance
<1>. QED
  BY <1>1, <1>2, <1>4, <1>5

\* The margins after a sale in which nothing was asked for.
Charged(h, m) == <<h, m[1], m[2]>>

\* Charging the habitual margin keeps the pattern: with it as the newest of
\* the three, they are still within the tolerance of each other.
THEOREM PatternSustainsItself ==
    ASSUME NEW observed \in Seq(Int), NEW base \in Int,
           DetectHabitualMargin(observed, base) # None
    PROVE  Consistent(Charged(DetectHabitualMargin(observed, base), observed))
<1> DEFINE h == DetectHabitualMargin(observed, base)
           w == Charged(h, observed)
<1>1. /\ h \in Int
      /\ \A i \in 1..3 : h - observed[i] <= Tolerance /\ observed[i] - h <= Tolerance
  BY HabitualIsCustomary
<1>2. Len(observed) >= 3 /\ Consistent(observed)
  BY DEF DetectHabitualMargin, MinSalesForPattern
<1>3. observed[1] \in Int /\ observed[2] \in Int
  BY <1>2, FirstThree
<1>4. w[1] = h /\ w[2] = observed[1] /\ w[3] = observed[2]
  BY DEF Charged
<1>5. /\ h - observed[1] <= Tolerance /\ observed[1] - h <= Tolerance
      /\ h - observed[2] <= Tolerance /\ observed[2] - h <= Tolerance
  BY <1>1
<1>6. observed[1] - observed[2] <= Tolerance /\ observed[2] - observed[1] <= Tolerance
  BY <1>2 DEF Consistent
<1>7. h - h <= Tolerance /\ observed[1] - observed[1] <= Tolerance
        /\ observed[2] - observed[2] <= Tolerance
  BY <1>1, <1>3 DEF Tolerance
<1>8. \A i, j \in 1..3 : w[i] - w[j] <= Tolerance
  <2> SUFFICES ASSUME NEW i \in 1..3, NEW j \in 1..3 PROVE w[i] - w[j] <= Tolerance
    OBVIOUS
  <2> HIDE DEF w, h
  <2>. QED
    BY <1>4, <1>5, <1>6, <1>7
<1>. QED
  BY <1>8 DEF Consistent

\* The margins of a customer who paid the standard one and then was given
\* one discount.
OneDiscount(base, d) == <<base - d, base, base>>

\* One discount above the tolerance is no pattern, as the docstring of
\* detect_habitual_margin says of any.
THEOREM LargeDiscountIsNoPattern ==
    ASSUME NEW base \in Int, NEW d \in Int, d > Tolerance
    PROVE  DetectHabitualMargin(OneDiscount(base, d), base) = None
<1> DEFINE m == OneDiscount(base, d)
<1>1. m[1] = base - d /\ m[2] = base
  BY DEF OneDiscount
<1>2. m[2] - m[1] > Tolerance /\ 1 \in 1..3 /\ 2 \in 1..3
  BY <1>1 DEF Tolerance
<1>3. m[2] - m[1] \in Int
  BY <1>1
<1>4. ~Consistent(m)
  BY <1>2, <1>3 DEF Consistent, Tolerance
<1>. QED
  BY <1>4 DEF DetectHabitualMargin

\* But one discount within the tolerance is: two standard prices and a
\* discount of two cents to two quetzales give a habitual margin below the
\* standard one, which the code offers from then on.
THEOREM SmallDiscountBecomesThePattern ==
    ASSUME NEW base \in Int, NEW d \in 2..Tolerance
    PROVE  LET h == DetectHabitualMargin(OneDiscount(base, d), base)
           IN  h \in Int /\ h < base
<1> DEFINE m == OneDiscount(base, d)
           h == Average(m)
<1>1. m[1] = base - d /\ m[2] = base /\ m[3] = base /\ Len(m) = 3 /\ d \in Int
  BY DEF OneDiscount
<1>2. d >= 2 /\ d <= 200
  BY DEF Tolerance
<1>3. Consistent(m)
  <2> SUFFICES ASSUME NEW i \in 1..3, NEW j \in 1..3 PROVE m[i] - m[j] <= Tolerance
    BY DEF Consistent
  <2> HIDE DEF m
  <2>. QED
    BY <1>1, <1>2 DEF Tolerance
<1>4. m[1] + m[2] + m[3] = 3 * base - d
  BY <1>1
<1>5. h \in Int /\ 3 * h <= 3 * base - d + 1
  <2>1. h = HalfUp(3 * base - d, 3)
    BY <1>4 DEF Average
  <2>2. 3 * base - d \in Int
    BY <1>1
  <2> HIDE DEF h, m
  <2>. QED
    BY <2>1, <2>2, ThirdIsClose
<1>6. h < base
  BY <1>1, <1>2, <1>5
<1>7. DetectHabitualMargin(m, base) = h
  BY <1>1, <1>3, <1>5, <1>6 DEF DetectHabitualMargin, MinSalesForPattern
<1>. QED
  BY <1>5, <1>6, <1>7

\* And it stays: once the three last margins are below the standard one and
\* within the tolerance, the next sale without a price is charged a habitual
\* margin below it, and leaves three margins of the same kind.
THEOREM DiscountLasts ==
    ASSUME NEW m \in Seq(Int), NEW base \in Int, Len(m) >= 3, Consistent(m),
           \A i \in 1..3 : m[i] < base
    PROVE  LET h == DetectHabitualMargin(m, base)
           IN  /\ h \in Int /\ h < base
               /\ Charged(h, m) \in Seq(Int) /\ Consistent(Charged(h, m))
               /\ \A i \in 1..3 : Charged(h, m)[i] < base
<1> DEFINE h == Average(m)
<1>1. m[1] \in Int /\ m[2] \in Int /\ m[3] \in Int
  BY FirstThree
<1>2. h \in Int /\ \E i \in 1..3 : h <= m[i]
  BY <1>1, AverageBetween
<1>3. h < base
  BY <1>1, <1>2
<1>4. DetectHabitualMargin(m, base) = h
  BY <1>2, <1>3 DEF DetectHabitualMargin, MinSalesForPattern
<1>5. h # None
  BY <1>2, NoneAssumption
<1>6. Consistent(Charged(h, m))
  BY <1>4, <1>5, PatternSustainsItself
<1>7. Charged(h, m) \in Seq(Int)
  BY <1>1, <1>2 DEF Charged
<1>8. ASSUME NEW i \in 1..3 PROVE Charged(h, m)[i] < base
  <2>1. /\ Charged(h, m)[1] = h /\ Charged(h, m)[2] = m[1] /\ Charged(h, m)[3] = m[2]
    BY DEF Charged
  <2>2. m[1] < base /\ m[2] < base
    OBVIOUS
  <2> HIDE DEF h
  <2>. QED
    BY <1>3, <2>1, <2>2
<1>. QED
  BY <1>2, <1>3, <1>4, <1>6, <1>7, <1>8

\* A price of the customer's own above the standard one, shown by the preview
\* when nothing was asked for, is refused when it is typed back without a
\* reason: a typed price is compared with the standard one
\* (_resolve_sale_item_pricing).
THEOREM ShownPriceNeedsAReason ==
    ASSUME NEW p, NEW cost \in Int, NEW items, NEW asked, NEW typed,
           BaseMargin(p, cost) \in Int,
           NothingAsked(asked),
           Habitual(p, cost, asked, items) \in Int,
           Habitual(p, cost, asked, items) > BaseMargin(p, cost),
           typed = [price |-> Suggested(p, cost, asked, items), percent |-> None,
                    amount |-> None, reason |-> FALSE]
    PROVE  ResolvePricing(p, cost, typed, items) = Refused
<1> DEFINE shown == Suggested(p, cost, asked, items)
<1>1. shown = cost + Habitual(p, cost, asked, items)
  BY NoneAssumption DEF Suggested
<1>2. shown \in Int /\ shown > cost + BaseMargin(p, cost)
  BY <1>1
<1>3. typed.price = shown /\ typed.price # None /\ ~typed.reason
  BY <1>2, NoneAssumption
<1>4. Suggested(p, cost, typed, items) = cost + BaseMargin(p, cost)
  BY <1>3 DEF Suggested, Habitual, NothingAsked, SuggestedUnitPrice
<1>5. Refuses(Suggested(p, cost, typed, items), typed)
  BY <1>2, <1>3, <1>4 DEF Refuses
<1>. QED
  BY <1>5 DEF ResolvePricing

----------------------------------------------------------------------------
(* The next purchase.                                                      *)

\* A part of a range has a first one.
LEMMA FirstOf ==
    ASSUME NEW N \in Nat, NEW B, B \subseteq 0 .. N, B # {}
    PROVE  \E k \in B : \A j \in B : k <= j
<1>1. B \subseteq Int /\ B \subseteq 0 .. N /\ IsFiniteSet(0 .. N) /\ B # {}
  BY FS_Interval
<1>2. IsFiniteSet(B)
  BY ONLY <1>1, FS_Subset
<1>. QED
  BY ONLY <1>1, <1>2, Extremes

\* g holds the estimates after each of the first N intervals.
Estimates(g, x, N) ==
    g = [n \in 1 .. N |->
            IF n = 1 THEN [amount |-> x[1], parts |-> 1]
            ELSE LET previous == g[n - 1]
                 IN  [amount |-> 3 * previous.parts * x[n] + 7 * previous.amount,
                      parts |-> 10 * previous.parts]]

\* There are such estimates.
LEMMA EstimatesExist ==
    ASSUME NEW x, NEW N \in Nat
    PROVE  \E g : Estimates(g, x, N)
<1> DEFINE B == {k \in 0 .. N : ~ \E g : Estimates(g, x, k)}
<1> SUFFICES ASSUME B # {} PROVE FALSE
  OBVIOUS
<1>1. B \subseteq 0 .. N /\ \A k \in 0 .. N : k \notin B => \E g : Estimates(g, x, k)
  OBVIOUS
<1>2. \A k \in B : ~ \E g : Estimates(g, x, k)
  OBVIOUS
<1>3. B # {}
  OBVIOUS
<1> HIDE DEF B
<1>4. PICK k \in B : \A j \in B : k <= j
  BY <1>1, <1>3, FirstOf
<1>5. k # 0
  <2>1. Estimates([n \in 1 .. 0 |-> 0], x, 0)
    BY DEF Estimates
  <2>. QED
    BY <1>2, <1>4, <2>1
<1>6. k \in 1 .. N /\ k - 1 \in 0 .. N /\ k - 1 \notin B
  BY <1>1, <1>4, <1>5
<1>7. PICK g : Estimates(g, x, k - 1)
  BY <1>1, <1>6
<1> DEFINE next(y, n) == [amount |-> 3 * y.parts * x[n] + 7 * y.amount, parts |-> 10 * y.parts]
           h == [n \in 1 .. k |-> IF n < k THEN g[n]
                                  ELSE IF n = 1 THEN [amount |-> x[1], parts |-> 1]
                                       ELSE next(g[n - 1], n)]
<1>8. \A n \in 1 .. k - 1 : g[n] = IF n = 1 THEN [amount |-> x[1], parts |-> 1]
                                   ELSE next(g[n - 1], n)
  BY <1>7 DEF Estimates
<1> HIDE DEF next
<1>9. \A n \in 1 .. k : n # 1 => h[n - 1] = g[n - 1]
  BY <1>6
<1>10. \A n \in 1 .. k : h[n] = IF n = 1 THEN [amount |-> x[1], parts |-> 1]
                                ELSE next(h[n - 1], n)
  BY <1>6, <1>8, <1>9
<1>11. h = [n \in 1 .. k |-> h[n]]
  OBVIOUS
<1> HIDE DEF h
<1>12. h = [n \in 1 .. k |-> IF n = 1 THEN [amount |-> x[1], parts |-> 1]
                             ELSE next(h[n - 1], n)]
  BY <1>10, <1>11
<1>13. Estimates(h, x, k)
  BY <1>12 DEF Estimates, next
<1>. QED
  BY <1>2, <1>4, <1>13

\* ewma_interval gives the last of them.
LEMMA EwmaIs ==
    ASSUME NEW x, Len(x) \in Nat
    PROVE  \E g : Estimates(g, x, Len(x)) /\ EwmaInterval(x) = g[Len(x)]
<1> DEFINE g == CHOOSE g : Estimates(g, x, Len(x))
<1>1. Estimates(g, x, Len(x))
  BY EstimatesExist
<1>2. EwmaInterval(x) = g[Len(x)]
  BY DEF EwmaInterval, Estimates
<1>. QED
  BY <1>1, <1>2

LEMMA EstimateStep ==
    ASSUME NEW g, NEW x, NEW N \in Nat, Estimates(g, x, N)
    PROVE  /\ N >= 1 => g[1] = [amount |-> x[1], parts |-> 1]
           /\ \A n \in 2 .. N :
                 /\ g[n].amount = 3 * g[n - 1].parts * x[n] + 7 * g[n - 1].amount
                 /\ g[n].parts = 10 * g[n - 1].parts
BY DEF Estimates

LEMMA TimesGrows ==
    ASSUME NEW a \in Int, NEW b \in Int, a <= b, NEW p \in Nat
    PROVE  p * a \in Int /\ p * b \in Int /\ p * a <= p * b
OBVIOUS

\* A fraction between two integers is rounded to between them.
LEMMA RoundBetween ==
    ASSUME NEW n \in Nat, NEW d \in Nat \ {0}, NEW lo \in Int, NEW hi \in Int,
           d * lo <= n, n <= d * hi
    PROVE  HalfUp(n, d) \in lo .. hi
<1> DEFINE q == (2 * n + d) \div (2 * d)
<1>1. HalfUp(n, d) = q
  BY DEF HalfUp
<1>2. q \in Int /\ (2 * d) * q <= 2 * n + d /\ 2 * n + d < (2 * d) * q + 2 * d
  BY SMT
<1> HIDE DEF q
<1>3. lo <= q
  <2> SUFFICES ASSUME q + 1 <= lo PROVE FALSE
    BY <1>2
  <2>1. (2 * d) * (q + 1) <= (2 * d) * lo
    BY <1>2, TimesGrows
  <2>2. (2 * d) * (q + 1) = (2 * d) * q + 2 * d /\ (2 * d) * lo = 2 * (d * lo)
    BY <1>2
  <2>. QED
    BY <1>2, <2>1, <2>2
<1>4. q <= hi
  <2> SUFFICES ASSUME hi + 1 <= q PROVE FALSE
    BY <1>2
  <2>1. (2 * d) * (hi + 1) <= (2 * d) * q
    BY <1>2, TimesGrows
  <2>2. (2 * d) * (hi + 1) = 2 * (d * hi) + 2 * d
    BY <1>2
  <2>. QED
    BY <1>2, <2>1, <2>2
<1>. QED
  BY <1>1, <1>2, <1>3, <1>4

\* An estimate is between any bounds of the intervals it comes from.
LEMMA EstimateBetween ==
    ASSUME NEW N \in Nat, NEW x \in [1 .. N -> Int], NEW g, Estimates(g, x, N),
           NEW lo \in Int, NEW hi \in Int, \A n \in 1 .. N : lo <= x[n] /\ x[n] <= hi,
           NEW n \in 1 .. N
    PROVE  /\ g[n].parts \in Nat \ {0} /\ g[n].amount \in Int
           /\ g[n].parts * lo <= g[n].amount
           /\ g[n].amount <= g[n].parts * hi
<1> DEFINE OK(k) == /\ g[k].parts \in Nat \ {0} /\ g[k].amount \in Int
                    /\ g[k].parts * lo <= g[k].amount
                    /\ g[k].amount <= g[k].parts * hi
           B == {k \in 1 .. N : ~OK(k)}
<1> SUFFICES ASSUME B # {} PROVE FALSE
  OBVIOUS
<1>1. B # {} /\ B \subseteq 1 .. N /\ \A k \in 1 .. N : k \in B <=> ~OK(k)
  OBVIOUS
<1> HIDE DEF B, OK
<1>2. PICK k \in B : \A j \in B : k <= j
  <2>1. B \subseteq 0 .. N
    BY <1>1
  <2>. QED
    BY <1>1, <2>1, FirstOf
<1>3. k \in 1 .. N /\ x[k] \in Int /\ lo <= x[k] /\ x[k] <= hi
  BY <1>1, <1>2
<1>4. k # 1
  <2> SUFFICES ASSUME k = 1 PROVE OK(k)
    BY <1>1, <1>2
  <2>1. g[1] = [amount |-> x[1], parts |-> 1]
    BY EstimateStep
  <2>. QED
    BY <1>3, <2>1 DEF OK
<1>5. k \in 2 .. N /\ k - 1 \in 1 .. N /\ OK(k - 1)
  BY <1>1, <1>2, <1>3, <1>4
<1> DEFINE p == g[k - 1].parts
           a == g[k - 1].amount
<1>6. /\ p \in Nat \ {0} /\ a \in Int /\ p * lo <= a /\ a <= p * hi
      /\ g[k].parts = 10 * p /\ g[k].amount = 3 * p * x[k] + 7 * a
  BY <1>5, EstimateStep DEF OK
<1> HIDE DEF p, a
<1>7. p * x[k] \in Int /\ p * lo <= p * x[k] /\ p * x[k] <= p * hi
  BY <1>3, <1>6, TimesGrows
<1>8. 3 * p * x[k] = 3 * (p * x[k]) /\ 10 * p * lo = 10 * (p * lo) /\ 10 * p * hi = 10 * (p * hi)
  BY <1>3, <1>6
<1>9. p * lo \in Int /\ p * hi \in Int
  BY <1>6
<1>10. OK(k)
  BY <1>6, <1>7, <1>8, <1>9 DEF OK
<1>. QED
  BY <1>1, <1>2, <1>10

\* The dates in order, and the intervals between them.
LEMMA IntervalsAre ==
    ASSUME NEW S, S \subseteq Int, IsFiniteSet(S)
    PROVE  /\ Cardinality(S) \in Nat
           /\ Intervals(S) \in [1 .. Cardinality(S) - 1 -> Nat \ {0}]
<1> DEFINE R == {p \in S \X S : p[1] < p[2]}
<1>1. \A x, y \in S : <<x, y>> \in R <=> x < y
  OBVIOUS
<1>2. Sorted(S) = Ordered(S, R)
  BY DEF Sorted
<1> HIDE DEF R
<1>3. TotalOrder(R, S)
  BY <1>1 DEF TotalOrder
<1>4. Enumerates(Sorted(S), R, S)
  BY <1>2, <1>3, OrderedIs
<1>5. PICK n \in Nat : n = Cardinality(S)
  BY FS_CardinalityType
<1>6. /\ Sorted(S) \in [1 .. n -> S]
      /\ \A i, j \in 1 .. n : i < j => <<Sorted(S)[i], Sorted(S)[j]>> \in R
  BY <1>4, <1>5 DEF Enumerates
<1>7. ASSUME NEW i \in 1 .. n - 1 PROVE Sorted(S)[i + 1] - Sorted(S)[i] \in Nat \ {0}
  <2>1. i \in 1 .. n /\ i + 1 \in 1 .. n /\ i < i + 1
    BY <1>5
  <2>2. Sorted(S)[i] \in S /\ Sorted(S)[i + 1] \in S /\ Sorted(S)[i] < Sorted(S)[i + 1]
    BY <1>1, <1>6, <2>1
  <2>3. \A a, b \in Int : a < b => b - a \in Nat \ {0}
    OBVIOUS
  <2>. QED
    BY ONLY S \subseteq Int, <2>2, <2>3
<1>. QED
  BY <1>5, <1>7 DEF Intervals

\* A pair is projected as soon as it has two dates; the next purchase is after
\* the last one, neither sooner nor later after it than purchases have ever
\* been from each other, whatever the two roundings do.
THEOREM NextIsPlausible ==
    ASSUME NEW S, S \subseteq Int, IsFiniteSet(S)
    PROVE  LET p == Project(S)
               gaps == Range(Intervals(S))
           IN  /\ p.projected <=> Cardinality(S) >= 2
               /\ p.projected => /\ p.next - Max(S) \in Min(gaps) .. Max(gaps)
                                 /\ p.next > Max(S)
<1> DEFINE n == Cardinality(S)
           x == Intervals(S)
           gaps == Range(x)
<1>1. n \in Nat /\ x \in [1 .. n - 1 -> Nat \ {0}]
  BY IntervalsAre
<1>2. Project(S).projected <=> n >= 2
  BY <1>1 DEF Project
<1>3. ASSUME n >= 2
      PROVE  /\ Project(S).next - Max(S) \in Min(gaps) .. Max(gaps)
             /\ Project(S).next > Max(S)
  <2> DEFINE lo == Min(gaps)
             hi == Max(gaps)
             estimate == EwmaInterval(x)
             stored == HalfUp(estimate.amount * 10000, estimate.parts)
  <2>1. Project(S).next = Max(S) + HalfUp(stored, 10000)
    BY <1>1, <1>3 DEF Project
  <2> HIDE DEF n, x
  <2>2. Len(x) = n - 1 /\ n - 1 \in 1 .. n - 1
    BY <1>1, <1>3
  <2>3. gaps = {x[i] : i \in 1 .. n - 1}
    BY <1>1 DEF Range
  <2> HIDE DEF gaps
  <2>4. gaps \subseteq Int /\ IsFiniteSet(gaps) /\ gaps # {}
    <3>1. IsFiniteSet(1 .. n - 1)
      BY <1>1, FS_Interval
    <3>2. IsFiniteSet(gaps)
      BY ONLY <2>3, <3>1, FiniteImage
    <3>. QED
      BY <1>1, <2>2, <2>3, <3>2
  <2>5. lo \in gaps /\ hi \in gaps /\ \A d \in gaps : lo <= d /\ d <= hi
    BY ONLY <2>4, Extremes
  <2> HIDE DEF lo, hi
  <2>6. lo \in Nat \ {0} /\ hi \in Nat /\ \A i \in 1 .. n - 1 : lo <= x[i] /\ x[i] <= hi
    BY <1>1, <2>3, <2>5
  <2>7. PICK g : Estimates(g, x, n - 1) /\ estimate = g[n - 1]
    BY <1>1, <2>2, EwmaIs
  <2> DEFINE d == estimate.parts
             a == estimate.amount
  <2>8. d \in Nat \ {0} /\ a \in Int /\ d * lo <= a /\ a <= d * hi
    <3>1. n - 1 \in Nat /\ x \in [1 .. n - 1 -> Int]
      BY <1>1, <2>2
    <3>. QED
      BY <2>2, <2>6, <2>7, <3>1, EstimateBetween
  <2>9. stored = HalfUp(a * 10000, d)
    OBVIOUS
  <2> HIDE DEF d, a, estimate, stored
  <2>10. a \in Nat
    BY <2>6, <2>8
  <2>11. stored \in 10000 * lo .. 10000 * hi
    <3>1. a * 10000 \in Nat /\ 10000 * lo \in Int /\ 10000 * hi \in Int
      BY <2>6, <2>10
    <3>2. d * (10000 * lo) = 10000 * (d * lo) /\ d * (10000 * hi) = 10000 * (d * hi)
      BY <2>6, <2>8
    <3>3. d * (10000 * lo) <= a * 10000 /\ a * 10000 <= d * (10000 * hi)
      BY <2>6, <2>8, <3>2
    <3>. QED
      BY <2>8, <2>9, <3>1, <3>3, RoundBetween
  <2>12. stored \in Nat /\ 10000 * lo <= stored /\ stored <= 10000 * hi
    BY <2>6, <2>11
  <2>13. HalfUp(stored, 10000) \in lo .. hi
    BY <2>6, <2>12, RoundBetween
  <2>14. Max(S) \in Int
    <3>1. S # {}
      BY <1>1, <1>3, FS_EmptySet DEF n
    <3>. QED
      BY <3>1, Extremes
  <2>15. /\ Project(S).next - Max(S) = HalfUp(stored, 10000)
         /\ Project(S).next > Max(S)
    BY <2>1, <2>6, <2>13, <2>14
  <2>16. Project(S).next - Max(S) \in lo .. hi
    BY ONLY <2>13, <2>15
  <2>. QED
    BY <2>15, <2>16 DEF lo, hi
<1>. QED
  BY <1>2, <1>3

\* What the first interval weighs (d) in an estimate of q parts, after k of
\* them.
Weighs(k, q, d, e) ==
    /\ q > 0
    /\ k = 1 => q = e /\ d = e
    /\ k = 2 => q = 10 * e /\ d = 7 * e
    /\ k = 3 => q = 100 * e /\ d = 49 * e
    /\ k = 4 => q = 1000 * e /\ d = 343 * e
    /\ k >= 5 => 10000 * d <= 2401 * q

LEMMA WeighsLess ==
    ASSUME NEW e \in Int, e > 0, NEW k \in Nat, k >= 2, NEW q \in Int, NEW d \in Int,
           Weighs(k - 1, q, d, e)
    PROVE  Weighs(k, 10 * q, 7 * d, e)
<1>1. CASE k \in 2 .. 4
  BY <1>1 DEF Weighs
<1>2. CASE k >= 5
  <2>1. 10 * q > 0 /\ 10000 * (7 * d) <= 2401 * (10 * q)
    <3>1. CASE k = 5
      <4>1. q = 1000 * e /\ d = 343 * e
        BY <3>1 DEF Weighs
      <4>. QED
        BY <4>1
    <3>2. CASE k > 5
      <4>1. q > 0 /\ 10000 * d <= 2401 * q
        BY <3>2 DEF Weighs
      <4>. QED
        BY <4>1
    <3>. QED
      BY <1>2, <3>1, <3>2
  <2>. QED
    BY <1>2, <2>1 DEF Weighs
<1>. QED
  BY <1>1, <1>2

LEMMA WeighsMore ==
    ASSUME NEW e \in Int, e > 0, NEW k \in Nat, k >= 2, NEW q \in Int, NEW d \in Int,
           Weighs(k, q, d, e)
    PROVE  10 * d > 3 * q <=> k < 5
<1>1. CASE k \in 2 .. 4
  BY <1>1 DEF Weighs
<1>2. CASE k >= 5
  <2>1. q > 0 /\ 10000 * d <= 2401 * q
    BY <1>2 DEF Weighs
  <2>2. ~(10 * d > 3 * q)
    BY <2>1
  <2>. QED
    BY <1>2, <2>2
<1>. QED
  BY <1>1, <1>2

\* The first interval loses three tenths of its weight with each purchase: it
\* is below the three tenths of the last one from the fifth interval on.
LEMMA Decays ==
    ASSUME NEW N \in Nat, NEW e \in Int, e > 0, NEW q \in [1 .. N -> Int],
           NEW d \in [1 .. N -> Int], N >= 1 => q[1] = e /\ d[1] = e,
           \A k \in 2 .. N : q[k] = 10 * q[k - 1] /\ d[k] = 7 * d[k - 1]
    PROVE  \A k \in 2 .. N : 10 * d[k] > 3 * q[k] <=> k < 5
<1> DEFINE OK(k) == Weighs(k, q[k], d[k], e)
           B == {k \in 1 .. N : ~OK(k)}
<1>1. ASSUME B # {} PROVE FALSE
  <2>1. B \subseteq 1 .. N /\ \A k \in 1 .. N : k \in B <=> ~OK(k)
    OBVIOUS
  <2> HIDE DEF B, OK
  <2>2. PICK k \in B : \A j \in B : k <= j
    <3>1. B \subseteq 0 .. N
      BY <2>1
    <3>. QED
      BY <1>1, <3>1, FirstOf
  <2>3. k \in 1 .. N
    BY <2>1, <2>2
  <2>4. k # 1
    <3>1. ASSUME k = 1 PROVE OK(k)
      BY <2>3, <3>1 DEF OK, Weighs
    <3>. QED
      BY <2>1, <2>2, <3>1
  <2>5. k \in 2 .. N /\ k - 1 \in 1 .. N /\ OK(k - 1)
    BY <2>1, <2>2, <2>3, <2>4
  <2>6. /\ q[k] = 10 * q[k - 1] /\ d[k] = 7 * d[k - 1]
        /\ q[k - 1] \in Int /\ d[k - 1] \in Int
    BY <2>5
  <2>7. Weighs(k, 10 * q[k - 1], 7 * d[k - 1], e)
    BY <2>5, <2>6, WeighsLess DEF OK
  <2>8. OK(k)
    BY <2>6, <2>7 DEF OK
  <2>. QED
    BY <2>1, <2>2, <2>8
<1>2. ASSUME NEW k \in 2 .. N PROVE 10 * d[k] > 3 * q[k] <=> k < 5
  <2>1. OK(k) /\ q[k] \in Int /\ d[k] \in Int
    <3>1. k \in 1 .. N
      OBVIOUS
    <3> HIDE DEF OK
    <3>2. OK(k)
      BY <1>1, <3>1
    <3>. QED
      BY <3>1, <3>2
  <2>2. k \in Nat /\ k >= 2
    OBVIOUS
  <2>3. Weighs(k, q[k], d[k], e)
    BY <2>1 DEF OK
  <2> HIDE DEF B, OK
  <2>. QED
    BY ONLY <2>1, <2>2, <2>3, e \in Int, e > 0, WeighsMore
<1>. QED
  BY <1>2

\* The estimates of intervals that are all alike but one of them.
LEMMA AllAlike ==
    ASSUME NEW N \in Nat, NEW a \in Int, NEW x \in [1 .. N -> Int], NEW g, Estimates(g, x, N),
           NEW y \in [1 .. N -> Int], NEW f, Estimates(f, y, N),
           \A k \in 1 .. N - 1 : x[k] = a, NEW n \in 1 .. N
    PROVE  /\ g[n].parts \in Int /\ f[n].parts = g[n].parts
           /\ f[n].amount \in Int /\ g[n].amount \in Int
           /\ n < N => g[n].amount = g[n].parts * a
<1> DEFINE OK(k) == /\ g[k].parts \in Int /\ f[k].parts = g[k].parts
                    /\ f[k].amount \in Int /\ g[k].amount \in Int
                    /\ k < N => g[k].amount = g[k].parts * a
           B == {k \in 1 .. N : ~OK(k)}
<1> SUFFICES ASSUME B # {} PROVE FALSE
  OBVIOUS
<1>1. B # {} /\ B \subseteq 1 .. N /\ \A k \in 1 .. N : k \in B <=> ~OK(k)
  OBVIOUS
<1> HIDE DEF B, OK
<1>2. PICK k \in B : \A j \in B : k <= j
  <2>1. B \subseteq 0 .. N
    BY <1>1
  <2>. QED
    BY <1>1, <2>1, FirstOf
<1>3. k \in 1 .. N /\ x[k] \in Int /\ y[k] \in Int /\ (k < N => x[k] = a)
  BY <1>1, <1>2
<1>4. k # 1
  <2> SUFFICES ASSUME k = 1 PROVE OK(k)
    BY <1>1, <1>2
  <2>1. g[1] = [amount |-> x[1], parts |-> 1] /\ f[1] = [amount |-> y[1], parts |-> 1]
    BY EstimateStep
  <2>. QED
    BY <1>3, <2>1 DEF OK
<1>5. k \in 2 .. N /\ k - 1 \in 1 .. N /\ k - 1 < N /\ OK(k - 1)
  BY <1>1, <1>2, <1>3, <1>4
<1>6. /\ g[k].parts = 10 * g[k - 1].parts
      /\ g[k].amount = 3 * g[k - 1].parts * x[k] + 7 * g[k - 1].amount
      /\ f[k].parts = 10 * f[k - 1].parts
      /\ f[k].amount = 3 * f[k - 1].parts * y[k] + 7 * f[k - 1].amount
  BY <1>5, EstimateStep
<1>7. PICK p \in Int, v \in Int, w \in Int :
         /\ g[k - 1].parts = p /\ f[k - 1].parts = p /\ g[k - 1].amount = v
         /\ f[k - 1].amount = w /\ v = p * a
  BY <1>5 DEF OK
<1>8. /\ g[k].parts = 10 * p /\ g[k].amount = 3 * p * x[k] + 7 * v
      /\ f[k].parts = 10 * p /\ f[k].amount = 3 * p * y[k] + 7 * w
  BY <1>6, <1>7
<1>9. 10 * p \in Int /\ 3 * p * x[k] + 7 * v \in Int /\ 3 * p * y[k] + 7 * w \in Int
  BY <1>3
<1>10. x[k] = a => 3 * p * x[k] + 7 * v = (10 * p) * a
  <2>1. 3 * p * a + 7 * (p * a) = (10 * p) * a
    OBVIOUS
  <2>. QED
    BY <1>7, <2>1
<1>11. OK(k)
  BY <1>3, <1>8, <1>9, <1>10 DEF OK
<1>. QED
  BY <1>1, <1>2, <1>11

\* projection.py means a gap of long ago to weigh less than the last one.  The
\* first interval is never discounted by the three tenths of the others: as
\* the only large gap it moves the estimate more than the last interval would,
\* exactly while there are fewer than five.
THEOREM OldGapWeighs ==
    ASSUME NEW n \in Nat, n >= 2, NEW a \in Int, NEW b \in Int, a < b
    PROVE  LET gapAt(k) == [i \in 1 .. n |-> IF i = k THEN b ELSE a]
               first == EwmaInterval(gapAt(1))
               last == EwmaInterval(gapAt(n))
           IN  /\ first.parts = last.parts
               /\ first.amount > last.amount <=> n < 5
<1> DEFINE x == [i \in 1 .. n |-> IF i = n THEN b ELSE a]
           y == [i \in 1 .. n |-> IF i = 1 THEN b ELSE a]
<1>1. /\ x \in [1 .. n -> Int] /\ y \in [1 .. n -> Int] /\ Len(x) = n /\ Len(y) = n
      /\ \A k \in 1 .. n - 1 : x[k] = a
      /\ \A k \in 2 .. n : y[k] = a
      /\ x[n] = b /\ y[1] = b
  OBVIOUS
<1>2. PICK g : Estimates(g, x, n) /\ EwmaInterval(x) = g[n]
  <2>1. \E g : Estimates(g, x, Len(x)) /\ EwmaInterval(x) = g[Len(x)]
    BY <1>1, EwmaIs
  <2>. QED
    BY <1>1, <2>1
<1>3. PICK f : Estimates(f, y, n) /\ EwmaInterval(y) = f[n]
  <2>1. \E f : Estimates(f, y, Len(y)) /\ EwmaInterval(y) = f[Len(y)]
    BY <1>1, EwmaIs
  <2>. QED
    BY <1>1, <2>1
<1> HIDE DEF x, y
<1>4. \A k \in 1 .. n : /\ g[k].parts \in Int /\ f[k].parts = g[k].parts
                        /\ f[k].amount \in Int /\ g[k].amount \in Int
                        /\ k < n => g[k].amount = g[k].parts * a
  BY <1>1, <1>2, <1>3, AllAlike
<1>5. /\ f[1] = [amount |-> b, parts |-> 1]
      /\ \A k \in 2 .. n : /\ f[k].parts = 10 * f[k - 1].parts
                           /\ f[k].amount = 3 * f[k - 1].parts * a + 7 * f[k - 1].amount
      /\ g[n].amount = 3 * g[n - 1].parts * b + 7 * g[n - 1].amount
  <2>1. /\ f[1] = [amount |-> y[1], parts |-> 1]
        /\ \A k \in 2 .. n : /\ f[k].parts = 10 * f[k - 1].parts
                             /\ f[k].amount = 3 * f[k - 1].parts * y[k] + 7 * f[k - 1].amount
    BY <1>3, EstimateStep
  <2>2. \A k \in 2 .. n : g[k].amount = 3 * g[k - 1].parts * x[k] + 7 * g[k - 1].amount
    BY <1>2, EstimateStep
  <2>. QED
    BY <1>1, <2>1, <2>2
<1> DEFINE e == b - a
           q == [k \in 1 .. n |-> f[k].parts * e]
           d == [k \in 1 .. n |-> f[k].amount - f[k].parts * a]
<1>6. q \in [1 .. n -> Int] /\ d \in [1 .. n -> Int] /\ q[1] = e /\ d[1] = e
  <2>1. q \in [1 .. n -> Int] /\ d \in [1 .. n -> Int]
    <3>1. \A p, v \in Int : p * e \in Int /\ v - p * a \in Int
      OBVIOUS
    <3> HIDE DEF e
    <3>. QED
      BY <1>4, <3>1
  <2>2. f[1].parts = 1 /\ f[1].amount = b /\ 1 * e = e /\ b - 1 * a = e
    BY <1>5
  <2>3. q[1] = f[1].parts * e /\ d[1] = f[1].amount - f[1].parts * a
    OBVIOUS
  <2> HIDE DEF q, d, e
  <2>. QED
    BY <2>1, <2>2, <2>3
<1>7. ASSUME NEW k \in 2 .. n PROVE q[k] = 10 * q[k - 1] /\ d[k] = 7 * d[k - 1]
  <2>1. PICK p \in Int, v \in Int : p = f[k - 1].parts /\ v = f[k - 1].amount
    BY <1>4
  <2>2. f[k].parts = 10 * p /\ f[k].amount = 3 * p * a + 7 * v /\ k \in 1 .. n /\ k - 1 \in 1 .. n
    BY <1>5, <2>1
  <2>3. q[k] = (10 * p) * e /\ q[k - 1] = p * e
    BY <2>1, <2>2
  <2>4. d[k] = 3 * p * a + 7 * v - (10 * p) * a /\ d[k - 1] = v - p * a
    BY <2>1, <2>2
  <2>. QED
    BY <2>3, <2>4
<1>8. 10 * d[n] > 3 * q[n] <=> n < 5
  <2>1. e \in Int /\ e > 0 /\ n \in 2 .. n
    OBVIOUS
  <2> HIDE DEF e, q, d
  <2>. QED
    BY <1>6, <1>7, <2>1, Decays
<1>9. f[n].amount > g[n].amount <=> 10 * d[n] > 3 * q[n]
  <2>1. PICK p \in Int : p = g[n - 1].parts
    BY <1>4
  <2>2. g[n].amount = 3 * p * b + 7 * (p * a) /\ f[n].parts = 10 * p
    BY <1>4, <1>5, <2>1
  <2>3. d[n] = f[n].amount - (10 * p) * a /\ q[n] = (10 * p) * e
    BY <2>2
  <2>4. (10 * p) * e = 10 * (p * b) - 10 * (p * a) /\ (10 * p) * a = 10 * (p * a)
    OBVIOUS
  <2>5. f[n].amount \in Int /\ p * a \in Int /\ p * b \in Int /\ 3 * p * b = 3 * (p * b)
    BY <1>4
  <2> HIDE DEF q, d, e
  <2>. QED
    BY <2>2, <2>3, <2>4, <2>5
<1>. QED
  BY <1>2, <1>3, <1>4, <1>8, <1>9 DEF x, y
=============================================================================
