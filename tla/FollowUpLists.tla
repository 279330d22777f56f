--------------------------- MODULE FollowUpLists ---------------------------
(***************************************************************************)
(* The readers of the follow-ups: the list of customers to call, the tiles *)
(* of the panel and the calendar page.  The list runs two statements, the  *)
(* cycles and then the open follow-ups; a sale, a postponement or a        *)
(* dismissal may commit between them.                                      *)
(*                                                                         *)
(* What a reader takes from a follow-up is its customer, its product and   *)
(* how many days there are until its due date.  The rows of FollowUps have *)
(* no due date: the readers are functions of any days the rows may have.   *)
(* The follow-ups and the cycles of other customers stay as they are.      *)
(***************************************************************************)
EXTENDS FollowUps, Integers

CONSTANTS
    OtherOpen,      \* open follow-ups of other customers, with their days
    OtherCycles,    \* and the cycles of those
    DaysUntil       \* due_date - today: negative once it is past

ASSUME ListAssumption ==
    /\ DaysUntil \subseteq Int /\ IsFiniteSet(DaysUntil) /\ DaysUntil # {}
    /\ IsFiniteSet(OtherOpen)
    /\ \A f \in OtherOpen : f.customer \notin Customers /\ f.days \in DaysUntil
    /\ \A k \in OtherCycles : k.customer \notin Customers /\ k.projected \in BOOLEAN

VARIABLE
    reading   \* the cycles a session has read for its list, and for the
              \* property the customers who had one by then

listVars == <<vars, reading>>

NotReading == [started |-> FALSE, cycles |-> {}, known |-> {}]

----------------------------------------------------------------------------
(* The two statements. *)

PairCycles ==
    {[customer |-> cp[1], projected |-> cycle[cp].projected] :
        cp \in {x \in Customers \X Products : cycle[x].exists}}

\* Mutant of CyclesToFollow: the cycles with an estimated date.
WithEstimation == {k \in PairCycles \cup OtherCycles : k.projected}

\* get_all_for_follow_ups: with a projection and without.
CyclesToFollow == PairCycles \cup OtherCycles

OpenRows == {i \in DOMAIN rows : IsOpen(i)}

\* get_open_with_relations.
OpenFollowUps(days) ==
    {[customer |-> rows[i].customer, product |-> rows[i].product, days |-> days[i]] :
        i \in OpenRows} \cup OtherOpen

----------------------------------------------------------------------------
(* get_follow_ups. *)

Filters == {"all", "overdue", "7_days", "14_days", "30_days"}
Within(filter) == CASE filter = "overdue" -> -1 [] filter = "7_days" -> 7
                    [] filter = "14_days" -> 14 [] filter = "30_days" -> 30

DueItems(c, open) == {f \in open : f.customer = c}

\* The customers with cycles, no projection and nothing due.  One whose
\* follow-ups were dismissed has a projection and does not come back here.
NeedEstimate(cycles, open) ==
    {c \in {k.customer : k \in cycles} :
        /\ DueItems(c, open) = {}
        /\ \A k \in cycles : k.customer = c => ~k.projected}

Worst(c, open) == Min({f.days : f \in DueItems(c, open)})

Status(days) ==
    CASE days < 0 -> "overdue"
      [] days \in 0..7 -> "urgent"
      [] days \in 8..14 -> "upcoming"
      [] OTHER -> "normal"

Entry(c, open) ==
    [customer |-> c, status |-> Status(Worst(c, open)), worst |-> Worst(c, open)]

\* Who is in the list.  No filter but "all" takes who has nothing due.
Entries(filter, cycles, open) ==
    LET due == {Entry(f.customer, open) : f \in open}
        estimate == {[customer |-> c, status |-> "needs_estimate", worst |-> 9999] :
                        c \in NeedEstimate(cycles, open)}
    IN  IF filter = "all" THEN due \cup estimate
                          ELSE {e \in due : e.worst <= Within(filter)}

\* The worst first; those alike come in the order of the statement, which
\* gives none.
ByUrgency(S) ==
    CHOOSE list \in SetToSeqs(S) :
        \A i, j \in DOMAIN list : i < j => list[i].worst <= list[j].worst

\* A page of it.
GetFollowUps(filter, limit, offset, cycles, open) ==
    LET list == ByUrgency(Entries(filter, cycles, open))
    IN  [data |-> SubSeq(list, offset + 1, Min({Len(list), offset + limit})),
         total |-> Len(list)]

----------------------------------------------------------------------------
(* get_follow_up_metrics, get_calendar_events and the summary of the panel.*)

CustomersDue(open) == {f.customer : f \in open}

\* Mutant of NextDays: the tile without its lower bound.
UpToDays(n, open) == Cardinality({c \in CustomersDue(open) : Worst(c, open) <= n})
NextDays(n, open) == Cardinality({c \in CustomersDue(open) : Worst(c, open) \in 0..n})

Metrics(open) ==
    [overdue |-> Cardinality({c \in CustomersDue(open) : Worst(c, open) < 0}),
     next7Days |-> NextDays(7, open),
     next14Days |-> NextDays(14, open),
     next30Days |-> NextDays(30, open)]

\* The events of a period, day by day from today, and its summary.
CalendarEvents(start, end, open) ==
    LET events == {f \in open : f.days \in start..end}
    IN  [dates |-> [d \in start..end |-> {f \in events : f.days = d}],
         upcoming |-> Cardinality({f \in events : f.days >= 0}),
         overdue |-> Cardinality({f \in events : f.days < 0})]

Summary(cycles, open) ==
    [pendingFollowUps |-> Metrics(open).overdue,
     upcomingPurchases7Days |-> Metrics(open).next7Days,
     priorityCustomers |-> GetFollowUps("7_days", 100, 0, cycles, open).data]

----------------------------------------------------------------------------
(* A session that answers the list. *)

BeginList(s) ==
    /\ pc[s] = "idle" /\ ~reading[s].started
    /\ reading' = [reading EXCEPT ![s] =
                      [started |-> TRUE, cycles |-> CyclesToFollow,
                       known |-> {k.customer : k \in PairCycles}]]
    /\ UNCHANGED vars

AnswerList(s) ==
    /\ reading[s].started
    /\ reading' = [reading EXCEPT ![s] = NotReading]
    /\ UNCHANGED vars

Work(s) ==
    /\ ~reading[s].started
    /\ BeginSale(s) \/ BeginByHand(s) \/ Step(s) \/ RefreshFails(s) \/ Fail(s)
    /\ UNCHANGED reading

ListInit == Init /\ reading = [s \in Sessions |-> NotReading]

ListNext ==
    \/ EditSale /\ UNCHANGED reading
    \/ \E s \in Sessions : Work(s) \/ BeginList(s) \/ AnswerList(s)

ListSpec == ListInit /\ [][ListNext]_listVars

----------------------------------------------------------------------------

Answered(s, days) ==
    LET list == GetFollowUps("all", 100, 0, reading[s].cycles, OpenFollowUps(days))
    IN  {list.data[i].customer : i \in DOMAIN list.data}

Latest(c, p) ==
    LET ofPair == {i \in DOMAIN rows : rows[i].customer = c /\ rows[i].product = p}
    IN  IF ofPair = {} THEN "none" ELSE rows[Max(ofPair)].closeReason

\* Whoever has bought stays in the list of customers to call, also when
\* sales, postponements and dismissals commit between the two reads of the
\* list, unless a person dismissed what was due, or a sale closed it after
\* edited dates took the projection away.  For if the follow-ups were read
\* first, a first projection in between would hide the customer.
NobodyIsForgotten ==
    [][\A s \in Sessions : AnswerList(s) =>
          \A days \in [OpenRows -> DaysUntil] :
             \A c \in reading[s].known \ Answered(s, days) :
                /\ \A p \in Products : cycle[<<c, p>>].projected => Latest(c, p) = "dismissed"
                /\ \E p \in Products :
                      \/ Latest(c, p) = "dismissed"
                      \/ Latest(c, p) = "sale" /\ ~cycle[<<c, p>>].projected]_listVars

\* The panel's numbers agree with the lists they open, for any due dates: a
\* tile of the next days and the overdue tile make up the filter of those
\* days, and no customer is in both; the customers of a filter are those
\* with an event in the calendar up to that day, and each follow-up is in
\* one day of it; the two numbers of the summary count its own list.  Only the
\* tables matter: it is enough to look while no session runs.
TilesMatchFilters ==
    (\A s \in Sessions : pc[s] = "idle" /\ ~reading[s].started) =>
        \A days \in [OpenRows -> DaysUntil] :
        LET open == OpenFollowUps(days)
            total(filter) == GetFollowUps(filter, 1, 0, CyclesToFollow, open).total
            tiles == Metrics(open)
            summary == Summary(CyclesToFollow, open)
            page(n) == CalendarEvents(Min(DaysUntil), n, open)
            callers(n) == {f.customer : f \in UNION {page(n).dates[d] : d \in Min(DaysUntil)..n}}
        IN  /\ total("overdue") = tiles.overdue
            /\ total("7_days") = tiles.overdue + tiles.next7Days
            /\ total("14_days") = tiles.overdue + tiles.next14Days
            /\ total("30_days") = tiles.overdue + tiles.next30Days
            /\ \A f \in Filters \ {"all"} :
                  {e.customer : e \in Entries(f, CyclesToFollow, open)} = callers(Within(f))
            /\ page(Max(DaysUntil)).upcoming + page(Max(DaysUntil)).overdue = Cardinality(open)
            /\ Len(summary.priorityCustomers)
                  = summary.pendingFollowUps + summary.upcomingPurchases7Days
=============================================================================
