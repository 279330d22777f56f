-------------------------- MODULE MCCalendarMirror -------------------------
(* One customer and one product; one session and the thread, with restarts. *)
(* The interleavings of several sessions are those of MCFollowUps: the      *)
(* thread writes nothing that a session decides on, but for sync_status.    *)
EXTENDS CalendarMirror

CONSTANTS s1, c1, p1

MCSessions == {s1}
MCCustomers == {c1}
MCProducts == {p1}
MCDates == 1..3
=============================================================================
