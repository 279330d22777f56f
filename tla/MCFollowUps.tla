---------------------------- MODULE MCFollowUps ----------------------------
(* One customer who buys; two sessions; three days of sales.  Another      *)
(* customer has one follow-up past and one to come, a third has no         *)
(* projection yet.                                                         *)
EXTENDS FollowUpLists, Projection

CONSTANTS s1, s2, c1, c2, c3, p1, p2

MCSessions == {s1, s2}
MCOneCustomer == {c1}
MCOneProduct == {p1}
MCDates == 1..3

MCOtherOpen == {[customer |-> c2, product |-> p1, days |-> 8],
                [customer |-> c2, product |-> p2, days |-> -2]}
MCOtherCycles == {[customer |-> c2, projected |-> TRUE],
                  [customer |-> c3, projected |-> FALSE]}
\* Both sides of each limit.
MCDaysUntil == {-2, -1, 0, 7, 8, 14, 15, 30, 31}

MCPurchaseDays == {S \in SUBSET (1..9) : Cardinality(S) \in 0..5}

\* A pair is projected as soon as it has two dates, as the cycles of the
\* model are; the next purchase is after the last one, and neither sooner
\* nor later after it than purchases have ever been from each other.
ASSUME ProjectionIsPlausible ==
    \A S \in MCPurchaseDays :
        LET p == Project(S)
            gaps == Range(Intervals(S))
        IN  /\ p.projected <=> Cardinality(S) >= 2
            /\ p.projected => p.next - Max(S) \in Min(gaps)..Max(gaps)

\* ewma_interval means a gap of long ago to weigh less than the last one.  It
\* does so from five intervals on: the first one is never discounted by the
\* three tenths of the others, so that up to four it weighs more than the last.
ASSUME OneGapOfLongAgo ==
    \A n \in 2..5 :
        LET gapAt(k) == [i \in 1..n |-> IF i = k THEN 9 ELSE 1]
        IN  EwmaInterval(gapAt(1)).amount > EwmaInterval(gapAt(n)).amount <=> n < 5

SessionSymmetry == Permutations(MCSessions)
=============================================================================
