--------------------------- MODULE CalendarMirror --------------------------
(***************************************************************************)
(* The mirror of the follow-ups in Google Calendar: the sessions of        *)
(* FollowUps, the one calendar-sync thread of the process and the calendar *)
(* of one business.  The thread clears the wake signal, lists the rows to  *)
(* sync and takes them one by one: a call to Google, then an UPDATE that   *)
(* only matches if the row still has the status the call was made for.     *)
(* With nothing failed it sleeps without a timer until it is woken.  A     *)
(* crash of the process takes the sessions and the thread with it.         *)
(* Nobody edits the calendar by hand here.                                 *)
(***************************************************************************)
EXTENDS FollowUps

CONSTANTS MaxCrashes   \* bound on the restarts of the process

ASSUME CrashAssumption == MaxCrashes \in Nat

VARIABLES
    events,    \* the follow-ups with a live event in the calendar
    at,        \* the next statement of the thread
    queue,     \* the rows of get_to_sync it has not taken yet
    current,   \* the row in hand, or 0
    seen,      \* seen_status = 'open' of that row
    outcome,   \* what the call to Google came to
    failed,    \* whether anything failed in this pass
    crashes

worker == <<at, queue, current, seen, outcome, failed>>
allVars == <<vars, events, worker, crashes>>

Unsynced == {i \in DOMAIN rows : rows[i].sync # "synced"}

MirrorTypeOK ==
    /\ TypeOK
    /\ events \subseteq DOMAIN rows
    /\ at \in {"clear", "list", "take", "call", "write", "sleep"}
    /\ queue \subseteq DOMAIN rows
    /\ current \in {0} \cup DOMAIN rows
    /\ seen \in BOOLEAN
    /\ outcome \in {"synced", "failed"}
    /\ failed \in BOOLEAN
    /\ crashes \in 0..MaxCrashes

Awake ==
    /\ at = "clear" /\ queue = {} /\ current = 0
    /\ seen = FALSE /\ outcome = "synced" /\ failed = FALSE

MirrorInit == Init /\ Awake /\ events = {} /\ crashes = 0

----------------------------------------------------------------------------
(* The thread: _run, sync_pass, sync_pending_follow_ups.                   *)

Clear ==
    /\ at = "clear"
    /\ wake' = FALSE
    /\ failed' = FALSE
    /\ at' = "list"
    /\ UNCHANGED <<tables, session, events, queue, current, seen, outcome, crashes>>

EndPass ==
    /\ at' = "sleep"
    /\ current' = 0
    /\ queue' = {}
    /\ seen' = FALSE
    /\ outcome' = "synced"

TakeFrom(rest) ==
    /\ at' = "call"
    /\ \E i \in rest :
          /\ current' = i
          /\ seen' = IsOpen(i)
          /\ queue' = rest \ {i}
    /\ UNCHANGED outcome

Listing == IF Unsynced = {} THEN EndPass ELSE TakeFrom(Unsynced)

\* get_to_sync.  The first row in hand still has the status it was listed
\* with: the others are read again, each commit having expired them.  Their
\* order, by updated_at, is any order.
List ==
    /\ at = "list"
    /\ Listing
    /\ UNCHANGED <<vars, events, failed, crashes>>

\* Mutant of Take: the signal is cleared after the pass.
ClearAtEnd ==
    /\ at = "take"
    /\ IF queue = {} THEN EndPass /\ wake' = FALSE
                    ELSE TakeFrom(queue) /\ UNCHANGED wake
    /\ UNCHANGED <<tables, session, events, failed, crashes>>

Take ==
    /\ at = "take"
    /\ IF queue = {} THEN EndPass ELSE TakeFrom(queue)
    /\ UNCHANGED <<vars, events, failed, crashes>>

\* insert, and patch when the id exists; delete, for which a missing event
\* is a success.
Mirrored == IF seen THEN events \cup {current} ELSE events \ {current}

CallOk ==
    /\ at = "call"
    /\ events' = Mirrored
    /\ outcome' = "synced"
    /\ at' = "write"
    /\ UNCHANGED <<vars, queue, current, seen, failed, crashes>>

\* Google refuses, or answers too late: the call may have had its effect.
CallFails ==
    /\ at = "call"
    /\ events' \in {events, Mirrored}
    /\ outcome' = "failed"
    /\ failed' = TRUE
    /\ at' = "write"
    /\ UNCHANGED <<vars, queue, current, seen, crashes>>

\* Mutant of StillSeen: the UPDATE is by id alone.
ById == TRUE
\* WHERE id = ... AND status = seen_status.
StillSeen == IsOpen(current) = seen

\* The UPDATE waits for a session that holds the row, and then looks again.
Write ==
    /\ at = "write"
    /\ \A s \in Sessions : current \notin heldRows[s]
    /\ rows' = IF StillSeen THEN [rows EXCEPT ![current].sync = outcome] ELSE rows
    /\ at' = "take"
    /\ current' = 0 /\ seen' = FALSE /\ outcome' = "synced"
    /\ UNCHANGED <<sales, cycle, wake, session, events, queue, failed, crashes>>

\* The database or the credentials fail: it counts as a failure.
PassFails ==
    /\ at \in {"list", "take", "write"}
    /\ EndPass
    /\ failed' = TRUE
    /\ UNCHANGED <<vars, events, crashes>>

\* Mutant of MayWake: a failed pass is not retried.
OnlyWoken == wake
\* wait(timeout = None) or, after a failure, wait(timeout = 900).
MayWake == wake \/ failed

Wake ==
    /\ at = "sleep"
    /\ MayWake
    /\ at' = "clear"
    /\ UNCHANGED <<vars, events, queue, current, seen, outcome, failed, crashes>>

Thread == Clear \/ List \/ Take \/ CallOk \/ CallFails \/ Write \/ PassFails \/ Wake

----------------------------------------------------------------------------

\* The process dies and starts again; its first pass needs no signal.
Crash ==
    /\ crashes < MaxCrashes
    /\ crashes' = crashes + 1
    /\ wake' = FALSE
    /\ op' = [s \in Sessions |-> NoOp]
    /\ pc' = [s \in Sessions |-> "idle"]
    /\ heldProducts' = [s \in Sessions |-> {}]
    /\ heldRows' = [s \in Sessions |-> {}]
    /\ left' = [s \in Sessions |-> {}]
    /\ product' = [s \in Sessions |-> NoProduct]
    /\ mine' = [s \in Sessions |-> [p \in Products |-> NoCycle]]
    /\ found' = [s \in Sessions |-> 0]
    /\ asPending' = [s \in Sessions |-> {}]
    /\ opening' = [s \in Sessions |-> {}]
    /\ at' = "clear" /\ queue' = {} /\ current' = 0
    /\ seen' = FALSE /\ outcome' = "synced" /\ failed' = FALSE
    /\ UNCHANGED <<tables, events>>

MirrorNext ==
    \/ Next /\ UNCHANGED <<events, worker, crashes>>
    \/ Thread
    \/ Crash

MirrorSpec == MirrorInit /\ [][MirrorNext]_allVars

\* The thread is scheduled and its timer fires; PostgreSQL serves a
\* statement that waits for a row sooner or later; outages end.
OutagesEnd == <>[][~CallFails /\ ~PassFails]_allVars
FairMirrorSpec ==
    /\ MirrorSpec
    /\ WF_allVars(Thread) /\ SF_allVars(Write)
    /\ \A s \in Sessions : SF_allVars(Step(s) /\ UNCHANGED <<events, worker, crashes>>)
    /\ OutagesEnd

----------------------------------------------------------------------------

\* No wake-up is lost: while the thread sleeps without a timer and nobody
\* has woken it, every row left to mirror has a session that committed and
\* is about to request the pass.
NoLostWakeup ==
    at = "sleep" /\ ~wake /\ ~failed /\ Unsynced # {} =>
        \E s \in Sessions : pc[s] = "notify"

\* The calendar shows what the row says: a row marked as synced has an event
\* if and only if it is open.
SyncedMeansMirrored ==
    \A i \in DOMAIN rows : rows[i].sync = "synced" => (IsOpen(i) <=> i \in events)

\* So it does whatever crosses the calls of the thread, except for the row
\* that a sale closed.
HandledRowsAreMirrored ==
    \A i \in DOMAIN rows :
        rows[i].sync = "synced" /\ rows[i].closeReason # "sale" =>
            (IsOpen(i) <=> i \in events)

\* The mirror catches up with every follow-up.
MirrorCatchesUp ==
    \A i \in 1..(MaxRows + Cardinality(Sessions)) :
        i \in Unsynced ~> i \in DOMAIN rows \ Unsynced
=============================================================================
