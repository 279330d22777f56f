----------------------------- MODULE Projection -----------------------------
(***************************************************************************)
(* The next purchase of a pair, from the dates of its sales: an average of *)
(* the intervals in which each new one weighs three tenths.                *)
(***************************************************************************)
EXTENDS Rounding, Ordering, Sequences, SequencesExt

Sorted(dates) == Ordered(dates, {p \in dates \X dates : p[1] < p[2]})

Intervals(dates) ==
    [i \in 1 .. Cardinality(dates) - 1 |-> Sorted(dates)[i + 1] - Sorted(dates)[i]]

\* ewma_interval: the first interval is the first estimate.  A decimal is an
\* amount of parts of a day.  Those of the code keep 28 digits, which are all
\* of them up to some two dozen intervals; the model keeps them all.
EwmaInterval(intervals) ==
    LET estimate[n \in 1 .. Len(intervals)] ==
            IF n = 1 THEN [amount |-> intervals[1], parts |-> 1]
            ELSE LET previous == estimate[n - 1]
                 IN  [amount |-> 3 * previous.parts * intervals[n] + 7 * previous.amount,
                      parts |-> 10 * previous.parts]
    IN  estimate[Len(intervals)]

ConfidenceFor(purchases) ==
    CASE purchases < 2 -> "insufficient"
      [] purchases \in 2..3 -> "low"
      [] purchases \in 4..7 -> "medium"
      [] OTHER -> "high"

\* project: the estimate is rounded to four places, and what is stored of it
\* to days.
Project(dates) ==
    LET estimate == EwmaInterval(Intervals(dates))
        stored == HalfUp(estimate.amount * 10000, estimate.parts)
    IN  IF Cardinality(dates) < 2
          THEN [projected |-> FALSE, confidence |-> ConfidenceFor(Cardinality(dates))]
          ELSE [projected |-> TRUE, confidence |-> ConfidenceFor(Cardinality(dates)),
                interval |-> stored, next |-> Max(dates) + HalfUp(stored, 10000)]
=============================================================================
