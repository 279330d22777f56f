------------------------- MODULE ConversationProofs -------------------------
(***************************************************************************)
(* The properties of Conversation, for any requests and any number of tool *)
(* calls.                                                                  *)
(***************************************************************************)
EXTENDS Conversation, TLAPS

Running == \E r \in Requests : pc[r] = "running"

\* Only a run works on tasks and has something to tell, and while there is
\* one the stream has not been closed.
OnlyARunWorks ==
    /\ working # {} \/ interrupted => Running
    /\ Running => closing = "none"

\* What a run has in hand: every task of the step without a result or a card
\* of its own, the flag up exactly if it saved a card, and a conversation it
\* found valid before its last answer.
InHand ==
    Running =>
        /\ \A c \in Tasks : status[c] = "todo" => c \in working
        /\ interrupted <=> \E c \in Tasks \ working : status[c] = "card"
        /\ next = "end" => orphans = {}

\* A request that passed the check asks for something.
Passed == \A r \in Requests : pc[r] \in {"checked", "ready"} => req[r].kind # "neither"

\* Between runs a step that did not end can be answered, or was cut.
LeftBehind == ~Running => Tasks = {} \/ Pending # {} \/ Tasks \subseteq cutShort

IInv ==
    /\ TypeOK
    /\ RegistryIsExact
    /\ CheckStillHolds
    /\ OnlyACutKills
    /\ ClosingEventIsTrue
    /\ OnlyARunWorks
    /\ InHand
    /\ Passed
    /\ LeftBehind

LEMMA InvStart == Init => IInv
<1> SUFFICES ASSUME Init PROVE IInv
  OBVIOUS
<1>1. TypeOK
  <2>1. Tasks = {} /\ status \in [Tasks -> Statuses]
    BY DEF Init, Tasks
  <2>2. NoBody \in Bodies
    BY DEF NoBody, Bodies
  <2>3. asked \in 0..MaxCalls
    BY ConversationAssumption DEF Init
  <2>. QED
    BY <2>1, <2>2, <2>3 DEF Init, TypeOK
<1>2. RegistryIsExact
  BY DEF Init, RegistryIsExact, Holding
<1>3. ~Running /\ Tasks = {}
  BY DEF Init, Running, Tasks
<1>4. CheckStillHolds /\ OnlyACutKills /\ ClosingEventIsTrue
  BY DEF Init, CheckStillHolds, OnlyACutKills, ClosingEventIsTrue
<1>5. OnlyARunWorks /\ InHand /\ LeftBehind /\ Passed
  BY <1>3 DEF Init, OnlyARunWorks, InHand, LeftBehind, Passed
<1>. QED
  BY <1>1, <1>2, <1>4, <1>5 DEF IInv

----------------------------------------------------------------------------
(* The registry.                                                           *)

\* The request whose run is under way is the only one that holds the thread.
LEMMA OneHolder ==
    ASSUME RegistryIsExact, NEW r \in Requests, Holding(r), NEW s \in Requests, s # r
    PROVE  ~Holding(s)
BY DEF RegistryIsExact

\* A request that keeps its hold, or its lack of one, leaves the registry exact.
LEMMA SameHolders ==
    ASSUME RegistryIsExact, reserved' = reserved,
           \A r \in Requests : Holding(r)' <=> Holding(r)
    PROVE  RegistryIsExact'
BY DEF RegistryIsExact

\* The callback frees the thread exactly when the request that ends held it.
LEMMA FinishKeepsRegistry ==
    ASSUME TypeOK, RegistryIsExact, NEW r \in Requests, Finish(r)
    PROVE  RegistryIsExact'
<1>1. /\ \A s \in Requests \ {r} : Holding(s)' <=> Holding(s)
      /\ ~Holding(r)'
  BY DEF TypeOK, Finish, Goto, Holding
<1>2. reserved' <=> reserved /\ ~Holding(r)
  BY DEF Finish, Released, Holding
<1>. QED
  BY <1>1, <1>2 DEF RegistryIsExact

LEMMA FinishKeepsTypes ==
    ASSUME TypeOK, NEW r \in Requests, Finish(r)
    PROVE  /\ reserved' \in BOOLEAN
           /\ pc' \in [Requests -> {"idle", "received", "reserved", "checked", "ready", "running"}]
           /\ req' \in [Requests -> Bodies]
           /\ loaded' \in [Requests -> {"default", "message", "person", NoRow}]
           /\ \A s \in Requests \ {r} : pc'[s] = pc[s] /\ req'[s] = req[s]
           /\ pc'[r] = "idle"
BY DEF TypeOK, Finish, Goto, Released, NoBody, Bodies

----------------------------------------------------------------------------
(* The steps that leave the checkpoint and the run alone.                  *)

\* Such a step breaks nothing that is said of them, unless a request passes
\* the check.
LEMMA Aside ==
    ASSUME IInv, UNCHANGED <<checkpoint, run, cutShort>>,
           \A r \in Requests : pc'[r] = "running" <=> pc[r] = "running",
           \A r \in Requests : pc'[r] \in {"checked", "ready"} =>
               pc[r] \in {"checked", "ready"} /\ req'[r] = req[r]
    PROVE  /\ CheckStillHolds' /\ OnlyACutKills' /\ ClosingEventIsTrue'
           /\ OnlyARunWorks' /\ InHand' /\ LeftBehind' /\ Passed'
<1>1. Running' <=> Running
  BY DEF Running
<1>2. /\ UNCHANGED <<next, status, orphans, working, interrupted, closing, cutShort>>
      /\ Tasks' = Tasks /\ Pending' = Pending
  BY DEF checkpoint, run, Tasks, Pending
<1>3. CheckStillHolds' /\ Passed'
  BY <1>2 DEF IInv, CheckStillHolds, Passed
<1>4. OnlyACutKills' /\ ClosingEventIsTrue'
  BY <1>2 DEF IInv, OnlyACutKills, ClosingEventIsTrue, ConfirmacionesPendientes, Ended,
     ValidHistory
<1>5. OnlyARunWorks' /\ InHand' /\ LeftBehind'
  BY <1>1, <1>2 DEF IInv, OnlyARunWorks, InHand, LeftBehind
<1>. QED
  BY <1>3, <1>4, <1>5

LEMMA AsideTypes ==
    ASSUME TypeOK, UNCHANGED <<checkpoint, run, cutShort>>,
           title' \in {"default", "message", "person", NoRow},
           available' = available, reserved' \in BOOLEAN,
           pc' \in [Requests -> {"idle", "received", "reserved", "checked", "ready", "running"}],
           req' \in [Requests -> Bodies],
           loaded' \in [Requests -> {"default", "message", "person", NoRow}]
    PROVE  TypeOK'
BY DEF TypeOK, checkpoint, run, Tasks, Ended

LEMMA RowStep ==
    ASSUME IInv, RenameThread \/ DeleteThread \/ UNCHANGED vars
    PROVE  IInv'
<1>1. /\ UNCHANGED <<available, checkpoint, reserved, requests, run, cutShort>>
      /\ title' \in {"default", "message", "person", NoRow}
  BY DEF RenameThread, DeleteThread, vars, IInv, TypeOK
<1>2. TypeOK'
  BY <1>1, AsideTypes DEF IInv, TypeOK, requests
<1>3. RegistryIsExact'
  BY <1>1, SameHolders DEF IInv, requests, Holding
<1>4. \A r \in Requests : pc'[r] = pc[r] /\ req'[r] = req[r]
  BY <1>1 DEF requests
<1>5. /\ CheckStillHolds' /\ OnlyACutKills' /\ ClosingEventIsTrue'
      /\ OnlyARunWorks' /\ InHand' /\ LeftBehind' /\ Passed'
  BY <1>1, <1>4, Aside
<1>. QED
  BY <1>2, <1>3, <1>5 DEF IInv

\* A request that ends before its run, whatever it ends in.
LEMMA EndsBeforeItsRun ==
    ASSUME IInv, NEW r \in Requests, pc[r] # "running", Finish(r),
           UNCHANGED <<title, available, checkpoint, run, cutShort>>
    PROVE  IInv'
<1>1. /\ \A s \in Requests \ {r} : pc'[s] = pc[s] /\ req'[s] = req[s]
      /\ pc'[r] = "idle"
  BY FinishKeepsTypes DEF IInv
<1>2. TypeOK'
  BY FinishKeepsTypes, AsideTypes DEF IInv, TypeOK
<1>3. RegistryIsExact'
  BY FinishKeepsRegistry DEF IInv
<1>4. /\ CheckStillHolds' /\ OnlyACutKills' /\ ClosingEventIsTrue'
      /\ OnlyARunWorks' /\ InHand' /\ LeftBehind' /\ Passed'
  BY <1>1, Aside
<1>. QED
  BY <1>2, <1>3, <1>4 DEF IInv

LEMMA ReceiveStep ==
    ASSUME IInv, NEW r \in Requests, Receive(r)
    PROVE  IInv'
<1>1. /\ \A s \in Requests \ {r} : pc'[s] = pc[s] /\ req'[s] = req[s]
      /\ pc[r] = "idle" /\ pc'[r] = "received" /\ reserved' = reserved
  BY DEF Receive, Goto, IInv, TypeOK
<1>2. TypeOK'
  BY AsideTypes DEF Receive, Goto, IInv, TypeOK
<1>3. RegistryIsExact'
  BY <1>1, SameHolders DEF IInv, Holding
<1>4. /\ CheckStillHolds' /\ OnlyACutKills' /\ ClosingEventIsTrue'
      /\ OnlyARunWorks' /\ InHand' /\ LeftBehind' /\ Passed'
  BY <1>1, Aside DEF Receive
<1>. QED
  BY <1>2, <1>3, <1>4 DEF IInv

LEMMA ReserveStep ==
    ASSUME IInv, NEW r \in Requests, Reserve(r)
    PROVE  IInv'
<1>1. /\ \A s \in Requests \ {r} : pc'[s] = pc[s]
      /\ \A s \in Requests : req'[s] = req[s]
      /\ pc[r] = "received" /\ pc'[r] = "reserved" /\ ~reserved /\ reserved' = TRUE
  BY DEF Reserve, Goto, IInv, TypeOK
<1>2. TypeOK'
  BY AsideTypes DEF Reserve, Goto, IInv, TypeOK
<1>3. RegistryIsExact'
  BY <1>1 DEF IInv, RegistryIsExact, Holding
<1>4. /\ CheckStillHolds' /\ OnlyACutKills' /\ ClosingEventIsTrue'
      /\ OnlyARunWorks' /\ InHand' /\ LeftBehind' /\ Passed'
  BY <1>1, Aside DEF Reserve
<1>. QED
  BY <1>2, <1>3, <1>4 DEF IInv

\* No run is under way when the one request that holds the thread checks the
\* checkpoint: nothing works on its tasks.
LEMMA CheckStep ==
    ASSUME IInv, NEW r \in Requests, Check(r)
    PROVE  IInv'
<1>1. CASE ~Valid(req[r])
  <2>1. /\ Finish(r) /\ pc[r] # "running"
        /\ UNCHANGED <<title, available, checkpoint, run, cutShort>>
    BY <1>1 DEF Check
  <2>. QED
    BY <2>1, EndsBeforeItsRun
<1>2. CASE Valid(req[r])
  <2>1. /\ \A s \in Requests \ {r} : pc'[s] = pc[s]
        /\ pc[r] = "reserved" /\ pc'[r] = "checked"
        /\ reserved' = reserved /\ req' = req /\ loaded' = loaded
        /\ UNCHANGED <<title, available, checkpoint, run, cutShort>>
    BY <1>2 DEF Check, Goto, IInv, TypeOK
  <2>2. TypeOK'
    BY <1>2, AsideTypes DEF Check, Goto, IInv, TypeOK
  <2>3. RegistryIsExact'
    BY <2>1, SameHolders DEF IInv, Holding
  <2>4. \A s \in Requests \ {r} : ~Holding(s)
    BY <2>1, OneHolder DEF IInv, Holding
  <2>5. ~Running /\ ~Running'
    BY <2>1, <2>4 DEF Running, Holding
  <2>6. /\ UNCHANGED <<next, status, orphans, working, interrupted, closing, cutShort>>
        /\ Tasks' = Tasks /\ Pending' = Pending
    BY <2>1 DEF checkpoint, run, Tasks, Pending
  <2>7. working = {}
    BY <2>5 DEF IInv, OnlyARunWorks
  <2>8. CheckStillHolds' /\ Passed'
    BY <1>2, <2>1, <2>4, <2>6, <2>7 DEF CheckStillHolds, Passed, Holding, Valid, Pending
  <2>9. OnlyACutKills' /\ ClosingEventIsTrue'
    BY <2>6 DEF IInv, OnlyACutKills, ClosingEventIsTrue, ConfirmacionesPendientes, Ended,
       ValidHistory
  <2>10. OnlyARunWorks' /\ InHand' /\ LeftBehind'
    BY <2>5, <2>6 DEF IInv, OnlyARunWorks, InHand, LeftBehind
  <2>. QED
    BY <2>2, <2>3, <2>8, <2>9, <2>10 DEF IInv
<1>. QED
  BY <1>1, <1>2

LEMMA NameStep ==
    ASSUME IInv, NEW r \in Requests, Name(r)
    PROVE  IInv'
<1>1. /\ \A s \in Requests \ {r} : pc'[s] = pc[s]
      /\ \A s \in Requests : req'[s] = req[s]
      /\ pc[r] = "checked" /\ pc'[r] = "ready" /\ reserved' = reserved
  BY DEF Name, Goto, IInv, TypeOK
<1>2. TypeOK'
  BY AsideTypes DEF Name, Goto, IInv, TypeOK
<1>3. RegistryIsExact'
  BY <1>1, SameHolders DEF IInv, Holding
<1>4. /\ CheckStillHolds' /\ OnlyACutKills' /\ ClosingEventIsTrue'
      /\ OnlyARunWorks' /\ InHand' /\ LeftBehind' /\ Passed'
  BY <1>1, Aside DEF Name
<1>. QED
  BY <1>2, <1>3, <1>4 DEF IInv

----------------------------------------------------------------------------
(* The run.                                                                *)

\* While a run is under way nobody else holds the thread, so no request is
\* between its check and its run.
LEMMA NobodyWaits ==
    ASSUME IInv, NEW r \in Requests, pc[r] \in {"ready", "running"}
    PROVE  \A s \in Requests \ {r} : pc[s] \notin {"reserved", "checked", "ready", "running"}
BY OneHolder DEF IInv, Holding

\* A step of the run moves no request: the thread stays its own, and there is
\* nothing to say of a request between its check and its run.
LEMMA RunMoves ==
    ASSUME IInv, NEW r \in Requests, pc[r] = "running", UNCHANGED <<reserved, requests>>
    PROVE  /\ RegistryIsExact' /\ CheckStillHolds' /\ Passed' /\ Running' /\ Running
           /\ closing = "none"
<1>1. pc' = pc /\ req' = req /\ reserved' = reserved
  BY DEF requests
<1>2. \A s \in Requests : pc'[s] \notin {"checked", "ready"}
  BY <1>1, NobodyWaits
<1>3. RegistryIsExact'
  BY <1>1, SameHolders DEF IInv, Holding
<1>4. CheckStillHolds' /\ Passed'
  BY <1>2 DEF CheckStillHolds, Passed
<1>. QED
  BY <1>1, <1>3, <1>4 DEF Running, IInv, OnlyARunWorks

\* What follows for a run that leaves the conversation and the history of
\* runs as they are, once its tasks are known to be in hand.
LEMMA RunGoesOn ==
    ASSUME IInv, NEW r \in Requests, pc[r] = "running", UNCHANGED <<reserved, requests>>,
           UNCHANGED <<orphans, closing, cutShort>>, TypeOK', InHand'
    PROVE  IInv'
<1>1. /\ RegistryIsExact' /\ CheckStillHolds' /\ Passed' /\ Running' /\ Running
      /\ closing = "none"
  BY RunMoves
<1>2. OnlyACutKills' /\ ClosingEventIsTrue'
  BY <1>1 DEF IInv, OnlyACutKills, ClosingEventIsTrue
<1>3. OnlyARunWorks' /\ LeftBehind'
  BY <1>1 DEF OnlyARunWorks, LeftBehind
<1>. QED
  BY <1>1, <1>2, <1>3 DEF IInv

LEMMA ModelAnswersStep ==
    ASSUME IInv, NEW r \in Requests, ModelAnswers(r)
    PROVE  IInv'
<1>1. /\ UNCHANGED <<reserved, requests, orphans, closing, cutShort>>
      /\ pc[r] = "running" /\ status' = status /\ Tasks = {} /\ Tasks' = {}
  BY DEF ModelAnswers, run, IInv, TypeOK, Tasks
<1>2. TypeOK'
  BY <1>1 DEF ModelAnswers, run, requests, IInv, TypeOK, Tasks, Ended
<1>3. Running
  BY <1>1 DEF Running
<1>4. InHand'
  BY <1>1, <1>3 DEF ModelAnswers, run, ValidHistory, IInv, InHand
<1>. QED
  BY <1>1, <1>2, <1>4, RunGoesOn

LEMMA ModelAsksStep ==
    ASSUME IInv, NEW r \in Requests, ModelAsks(r)
    PROVE  IInv'
<1>1. /\ UNCHANGED <<reserved, requests, orphans, closing, cutShort>>
      /\ pc[r] = "running" /\ Tasks = {}
  BY DEF ModelAsks, IInv, TypeOK
<1>2. PICK n \in 1..2 : /\ asked + n <= MaxCalls /\ asked' = asked + n
                        /\ status' = [c \in asked + 1 .. asked + n |-> "todo"]
                        /\ working' = asked + 1 .. asked + n
  BY DEF ModelAsks
<1>3. /\ Tasks' = asked + 1 .. asked + n /\ working' = Tasks'
      /\ \A c \in Tasks' : status'[c] = "todo"
  BY <1>2 DEF Tasks
<1>4. asked \in Nat /\ MaxCalls \in Nat /\ n \in Nat /\ asked' \in 0..MaxCalls
  BY <1>2, ConversationAssumption DEF IInv, TypeOK
<1>5. Tasks' \subseteq Calls
  BY <1>2, <1>3, <1>4 DEF Calls
<1>6. Tasks' # {}
  <2>1. asked + 1 \in Tasks'
    BY <1>2, <1>3, <1>4
  <2>. QED
    BY <2>1
<1>7. status' \in [Tasks' -> Statuses]
  BY <1>2, <1>3 DEF Statuses
<1>8. TypeOK'
  BY <1>1, <1>3, <1>4, <1>5, <1>6, <1>7 DEF ModelAsks, requests, IInv, TypeOK, Ended
<1>9. Running /\ next = "model" /\ interrupted' = interrupted /\ next' = "tools"
  BY <1>1 DEF ModelAsks, Running
<1>10. InHand'
  BY <1>1, <1>3, <1>9 DEF IInv, InHand
<1>. QED
  BY <1>1, <1>8, <1>10, RunGoesOn

LEMMA ToolReturnsStep ==
    ASSUME IInv, NEW r \in Requests, NEW c \in working, ToolReturns(r, c)
    PROVE  IInv'
<1>1. /\ UNCHANGED <<reserved, requests, orphans, closing, cutShort, next>>
      /\ pc[r] = "running" /\ working' = working \ {c} /\ interrupted' = interrupted
      /\ status' = [status EXCEPT ![c] = IF @ = "card" THEN "answered" ELSE "returned"]
  BY DEF ToolReturns, AfterUpdate
<1>2. c \in Tasks /\ status \in [Tasks -> Statuses]
  BY DEF IInv, TypeOK
<1>3. /\ Tasks' = Tasks /\ status' \in [Tasks -> Statuses]
      /\ status'[c] \in {"answered", "returned"}
      /\ \A d \in Tasks \ {c} : status'[d] = status[d]
  BY <1>1, <1>2 DEF Tasks, Statuses
<1>4. TypeOK'
  BY <1>1, <1>2, <1>3 DEF ToolReturns, requests, IInv, TypeOK, Ended
<1>5. Running
  BY <1>1 DEF Running
<1>6. InHand'
  BY <1>1, <1>2, <1>3, <1>5 DEF IInv, InHand
<1>. QED
  BY <1>1, <1>4, <1>6, RunGoesOn

LEMMA ToolPausesStep ==
    ASSUME IInv, NEW r \in Requests, NEW c \in working, ToolPauses(r, c)
    PROVE  IInv'
<1>1. /\ UNCHANGED <<reserved, requests, orphans, closing, cutShort, next>>
      /\ pc[r] = "running" /\ working' = working \ {c} /\ interrupted' = TRUE
      /\ status' = [status EXCEPT ![c] = "card"]
  BY DEF ToolPauses
<1>2. c \in Tasks /\ status \in [Tasks -> Statuses]
  BY DEF IInv, TypeOK
<1>3. /\ Tasks' = Tasks /\ status' \in [Tasks -> Statuses]
      /\ status'[c] = "card"
      /\ \A d \in Tasks \ {c} : status'[d] = status[d]
  BY <1>1, <1>2 DEF Tasks, Statuses
<1>4. TypeOK'
  BY <1>1, <1>2, <1>3 DEF ToolPauses, requests, IInv, TypeOK, Ended
<1>5. Running
  BY <1>1 DEF Running
<1>6. InHand'
  BY <1>1, <1>2, <1>3, <1>5 DEF IInv, InHand
<1>. QED
  BY <1>1, <1>4, <1>6, RunGoesOn

LEMMA StepEndsStep ==
    ASSUME IInv, NEW r \in Requests, StepEnds(r)
    PROVE  IInv'
<1>1. /\ UNCHANGED <<reserved, requests, orphans, closing, cutShort, working, interrupted>>
      /\ pc[r] = "running" /\ next' = "model"
      /\ \A c \in Tasks : Ended(c)
  BY DEF StepEnds, run
<1>2. Tasks' = {} /\ status' \in [Tasks' -> Statuses]
  BY DEF StepEnds, NoTasks, Tasks
<1>3. working = {}
  BY <1>1 DEF IInv, TypeOK
<1>4. TypeOK'
  BY <1>1, <1>2, <1>3 DEF StepEnds, requests, IInv, TypeOK
<1>5. Running /\ ~\E c \in Tasks : status[c] = "card"
  BY <1>1 DEF Running, Ended
<1>6. InHand'
  BY <1>1, <1>2, <1>5 DEF IInv, InHand
<1>. QED
  BY <1>1, <1>4, <1>6, RunGoesOn

----------------------------------------------------------------------------
(* How a run begins and ends.                                              *)

\* A message discards the tasks of a step only when no card of it is open,
\* which between runs is a step that was cut.
LEMMA StartStep ==
    ASSUME IInv, NEW r \in Requests, Start(r)
    PROVE  IInv'
<1>1. /\ pc[r] = "ready" /\ pc'[r] = "running"
      /\ \A s \in Requests \ {r} : pc'[s] = pc[s]
      /\ req' = req /\ reserved' = reserved
      /\ interrupted' = FALSE /\ closing' = "none" /\ cutShort' = cutShort
  BY DEF Start, Goto, IInv, TypeOK
<1>2. \A s \in Requests \ {r} : pc[s] \notin {"reserved", "checked", "ready", "running"}
  BY <1>1, NobodyWaits
<1>3. ~Running /\ Running'
  BY <1>1, <1>2 DEF Running
<1>4. RegistryIsExact'
  BY <1>1, SameHolders DEF IInv, Holding
<1>5. CheckStillHolds' /\ Passed'
  BY <1>1, <1>2 DEF CheckStillHolds, Passed
<1>6. ClosingEventIsTrue' /\ OnlyARunWorks' /\ LeftBehind'
  BY <1>1, <1>3 DEF ClosingEventIsTrue, OnlyARunWorks, LeftBehind
<1>7. pc' \in [Requests -> {"idle", "received", "reserved", "checked", "ready", "running"}]
  BY DEF Start, Goto, IInv, TypeOK
<1>8. CASE req[r].kind = "message"
  <2>1. /\ orphans' = orphans \cup Tasks /\ next' = "model" /\ working' = {}
        /\ Tasks' = {} /\ status' \in [Tasks' -> Statuses]
    BY <1>8 DEF Start, NoTasks, Tasks
  <2>2. Pending = {}
    BY <1>1, <1>8 DEF IInv, CheckStillHolds, Pending
  <2>3. Tasks \subseteq cutShort
    BY <1>3, <2>2 DEF IInv, LeftBehind
  <2>4. OnlyACutKills'
    BY <1>1, <2>1, <2>3 DEF IInv, OnlyACutKills
  <2>5. TypeOK'
    BY <1>1, <1>7, <2>1 DEF Start, IInv, TypeOK
  <2>6. InHand'
    BY <1>1, <2>1 DEF InHand
  <2>. QED
    BY <1>4, <1>5, <1>6, <2>4, <2>5, <2>6 DEF IInv
<1>9. CASE req[r].kind # "message"
  <2>1. /\ working' = {c \in Tasks : ~Ended(c)}
        /\ next' = next /\ status' = status /\ orphans' = orphans /\ Tasks' = Tasks
    BY <1>9 DEF Start, Rerun, Tasks
  <2>2. req[r].kind = "decision"
    BY <1>1, <1>9 DEF IInv, TypeOK, Bodies, Passed
  <2>3. next = "tools"
    BY <1>1, <2>2 DEF IInv, TypeOK, CheckStillHolds
  <2>4. OnlyACutKills'
    BY <1>1, <2>1 DEF IInv, OnlyACutKills
  <2>5. TypeOK'
    BY <1>1, <1>7, <2>1 DEF Start, IInv, TypeOK, Ended
  <2>6. InHand'
    BY <1>1, <2>1, <2>3 DEF InHand, Ended
  <2>. QED
    BY <1>4, <1>5, <1>6, <2>4, <2>5, <2>6 DEF IInv
<1>. QED
  BY <1>8, <1>9

\* Once the request of a run ends nobody runs, and nobody waits to.
LEMMA NobodyLeft ==
    ASSUME IInv, NEW r \in Requests, pc[r] = "running", Finish(r)
    PROVE  /\ RegistryIsExact' /\ CheckStillHolds' /\ Passed' /\ ~Running'
           /\ Running /\ closing = "none"
<1>1. /\ \A s \in Requests \ {r} : pc'[s] = pc[s]
      /\ pc'[r] = "idle"
  BY FinishKeepsTypes DEF IInv
<1>2. \A s \in Requests : pc'[s] \notin {"checked", "ready", "running"}
  BY <1>1, NobodyWaits
<1>3. RegistryIsExact'
  BY FinishKeepsRegistry DEF IInv
<1>. QED
  BY <1>2, <1>3 DEF CheckStillHolds, Passed, Running, IInv, OnlyARunWorks

LEMMA CloseStep ==
    ASSUME IInv, NEW r \in Requests, Close(r)
    PROVE  IInv'
<1>1. /\ pc[r] = "running" /\ working = {} /\ Finish(r)
      /\ next = "end" \/ (next = "tools" /\ \E c \in Tasks : ~Ended(c))
      /\ closing' = IF interrupted THEN "paused" ELSE "complete"
      /\ interrupted' = FALSE /\ working' = working /\ cutShort' = cutShort
      /\ next' = next /\ status' = status /\ orphans' = orphans /\ asked' = asked
      /\ title' = title /\ available' = available
  BY DEF Close, checkpoint
<1>2. /\ RegistryIsExact' /\ CheckStillHolds' /\ Passed' /\ ~Running'
      /\ Running
  BY <1>1, NobodyLeft
<1>3. Tasks' = Tasks /\ Pending' = Pending /\ status \in [Tasks -> Statuses]
  BY <1>1 DEF Tasks, Pending, IInv, TypeOK
<1>4. TypeOK'
  BY <1>1, <1>3, FinishKeepsTypes DEF IInv, TypeOK, Ended
<1>5. /\ interrupted <=> Pending # {}
      /\ \A c \in Tasks : status[c] # "todo"
  BY <1>1, <1>2 DEF IInv, InHand, Pending
<1>6. Pending # {} \/ Tasks = {}
  BY <1>1, <1>3, <1>5 DEF IInv, TypeOK, Pending, Ended, Statuses
<1>7. ClosingEventIsTrue'
  <2>1. CASE interrupted
    BY <1>1, <1>3, <1>5, <2>1 DEF ClosingEventIsTrue, ConfirmacionesPendientes, Pending, Ended
  <2>2. CASE ~interrupted
    <3>1. Tasks = {} /\ next = "end"
      BY <1>1, <1>5, <1>6, <2>2
    <3>2. orphans = {}
      BY <1>2, <3>1 DEF IInv, InHand
    <3>. QED
      BY <1>1, <1>3, <2>2, <3>1, <3>2 DEF ClosingEventIsTrue, ConfirmacionesPendientes,
         ValidHistory
  <2>. QED
    BY <2>1, <2>2
<1>8. LeftBehind' /\ OnlyARunWorks' /\ InHand' /\ OnlyACutKills'
  BY <1>1, <1>2, <1>3, <1>6 DEF LeftBehind, OnlyARunWorks, InHand, IInv, OnlyACutKills
<1>. QED
  BY <1>2, <1>4, <1>7, <1>8 DEF IInv

\* A run that is cut leaves a card to answer, or its calls in the history.
LEMMA CutRun ==
    ASSUME IInv, Cut, UNCHANGED checkpoint, ~Running'
    PROVE  /\ OnlyACutKills' /\ OnlyARunWorks' /\ InHand' /\ LeftBehind'
           /\ working' = {} /\ interrupted' = FALSE /\ cutShort' \subseteq Calls
           /\ next' = next /\ status' = status /\ orphans' = orphans /\ asked' = asked
           /\ Tasks' = Tasks
<1>1. /\ next' = next /\ status' = status /\ orphans' = orphans /\ asked' = asked
      /\ Tasks' = Tasks /\ Pending' = Pending
  BY DEF checkpoint, Tasks, Pending
<1>2. /\ working' = {} /\ interrupted' = FALSE /\ cutShort \subseteq cutShort'
      /\ cutShort' \subseteq Calls
      /\ Pending = {} => Tasks \subseteq cutShort'
  BY DEF Cut, IInv, TypeOK
<1>. QED
  BY <1>1, <1>2 DEF IInv, OnlyACutKills, OnlyARunWorks, InHand, LeftBehind

LEMMA RaiseStep ==
    ASSUME IInv, NEW r \in Requests, Raise(r)
    PROVE  IInv'
<1>1. /\ pc[r] = "running" /\ Cut /\ closing' = "error" /\ Finish(r)
      /\ UNCHANGED <<title, available, checkpoint>>
  BY DEF Raise
<1>2. RegistryIsExact' /\ CheckStillHolds' /\ Passed' /\ ~Running'
  BY <1>1, NobodyLeft
<1>3. /\ OnlyACutKills' /\ OnlyARunWorks' /\ InHand' /\ LeftBehind'
      /\ working' = {} /\ interrupted' = FALSE /\ cutShort' \subseteq Calls
      /\ next' = next /\ status' = status /\ orphans' = orphans /\ asked' = asked
      /\ Tasks' = Tasks
  BY <1>1, <1>2, CutRun
<1>4. TypeOK'
  BY <1>1, <1>3, FinishKeepsTypes DEF IInv, TypeOK
<1>5. ClosingEventIsTrue'
  BY <1>1 DEF ClosingEventIsTrue
<1>. QED
  BY <1>2, <1>3, <1>4, <1>5 DEF IInv

LEMMA LeaveStep ==
    ASSUME IInv, NEW r \in Requests, Leave(r)
    PROVE  IInv'
<1>1. CASE pc[r] = "ready"
  <2>1. Finish(r) /\ UNCHANGED <<title, available, checkpoint, run, cutShort>>
    BY <1>1 DEF Leave, run
  <2>. QED
    BY <1>1, <2>1, EndsBeforeItsRun
<1>2. CASE pc[r] = "running"
  <2>1. Cut /\ Finish(r) /\ UNCHANGED <<title, available, checkpoint, closing>>
    BY <1>2 DEF Leave
  <2>2. /\ RegistryIsExact' /\ CheckStillHolds' /\ Passed' /\ ~Running'
        /\ closing = "none"
    BY <1>2, <2>1, NobodyLeft
  <2>3. /\ OnlyACutKills' /\ OnlyARunWorks' /\ InHand' /\ LeftBehind'
        /\ working' = {} /\ interrupted' = FALSE /\ cutShort' \subseteq Calls
        /\ next' = next /\ status' = status /\ orphans' = orphans /\ asked' = asked
        /\ Tasks' = Tasks
    BY <2>1, <2>2, CutRun
  <2>4. TypeOK'
    BY <2>1, <2>3, FinishKeepsTypes DEF IInv, TypeOK
  <2>5. ClosingEventIsTrue'
    BY <2>1, <2>2 DEF ClosingEventIsTrue
  <2>. QED
    BY <2>2, <2>3, <2>4, <2>5 DEF IInv
<1>. QED
  BY <1>1, <1>2 DEF Leave

LEMMA RestartStep ==
    ASSUME IInv, Restart
    PROVE  IInv'
<1>1. /\ available' \in BOOLEAN /\ reserved' = FALSE
      /\ \A r \in Requests : pc'[r] = "idle"
      /\ pc' \in [Requests -> {"idle", "received", "reserved", "checked", "ready", "running"}]
      /\ req' \in [Requests -> Bodies]
      /\ loaded' \in [Requests -> {"default", "message", "person", NoRow}]
      /\ UNCHANGED <<title, checkpoint, closing>>
  <2>1. NoBody \in Bodies
    BY DEF NoBody, Bodies
  <2>. QED
    BY <2>1 DEF Restart
<1>2. RegistryIsExact' /\ CheckStillHolds' /\ Passed' /\ ~Running'
  BY <1>1 DEF RegistryIsExact, CheckStillHolds, Passed, Running, Holding
<1>3. CASE Running
  <2>1. Cut
    BY <1>3 DEF Restart, Running
  <2>2. /\ OnlyACutKills' /\ OnlyARunWorks' /\ InHand' /\ LeftBehind'
        /\ working' = {} /\ interrupted' = FALSE /\ cutShort' \subseteq Calls
        /\ next' = next /\ status' = status /\ orphans' = orphans /\ asked' = asked
        /\ Tasks' = Tasks
    BY <1>1, <1>2, <2>1, CutRun
  <2>3. TypeOK'
    BY <1>1, <2>2 DEF IInv, TypeOK
  <2>4. ClosingEventIsTrue'
    BY <1>1, <1>3 DEF IInv, OnlyARunWorks, ClosingEventIsTrue
  <2>. QED
    BY <1>2, <2>2, <2>3, <2>4 DEF IInv
<1>4. CASE ~Running
  <2>1. /\ UNCHANGED <<working, interrupted, cutShort, closing>>
        /\ UNCHANGED <<next, status, orphans, asked>>
        /\ Tasks' = Tasks /\ Pending' = Pending
    BY <1>1, <1>4 DEF Restart, Running, checkpoint, Tasks, Pending
  <2>2. OnlyACutKills' /\ OnlyARunWorks' /\ InHand' /\ LeftBehind'
    BY <1>2, <1>4, <2>1 DEF IInv, OnlyACutKills, OnlyARunWorks, InHand, LeftBehind
  <2>3. ClosingEventIsTrue'
    BY <2>1 DEF IInv, ClosingEventIsTrue, ConfirmacionesPendientes, Ended, ValidHistory
  <2>4. TypeOK'
    BY <1>1, <2>1 DEF IInv, TypeOK, Ended
  <2>. QED
    BY <1>2, <2>2, <2>3, <2>4 DEF IInv
<1>. QED
  BY <1>3, <1>4

----------------------------------------------------------------------------
(* The theorems.                                                           *)

\* Every step, of any request and of the process, keeps the invariant.
LEMMA InvStep == IInv /\ [Next]_vars => IInv'
<1> SUFFICES ASSUME IInv, [Next]_vars PROVE IInv'
  OBVIOUS
<1>1. CASE RenameThread \/ DeleteThread \/ UNCHANGED vars
  BY <1>1, RowStep
<1>2. ASSUME NEW r \in Requests, Serve(r) PROVE IInv'
  <2>1. CASE Receive(r)       BY <2>1, ReceiveStep
  <2>2. CASE Reserve(r)       BY <2>2, ReserveStep
  <2>3. CASE Refuse(r) \/ Fail(r)
    <3>1. /\ pc[r] # "running" /\ Finish(r)
          /\ UNCHANGED <<title, available, checkpoint, run, cutShort>>
      BY <2>3 DEF Refuse, Fail
    <3>. QED
      BY <3>1, EndsBeforeItsRun
  <2>4. CASE Check(r)         BY <2>4, CheckStep
  <2>5. CASE Name(r)          BY <2>5, NameStep
  <2>6. CASE Start(r)         BY <2>6, StartStep
  <2>7. CASE ModelAnswers(r)  BY <2>7, ModelAnswersStep
  <2>8. CASE ModelAsks(r)     BY <2>8, ModelAsksStep
  <2>9. ASSUME NEW c \in working, ToolReturns(r, c) \/ ToolPauses(r, c) PROVE IInv'
    BY <2>9, ToolReturnsStep, ToolPausesStep
  <2>10. CASE StepEnds(r)     BY <2>10, StepEndsStep
  <2>11. CASE Close(r)        BY <2>11, CloseStep
  <2>12. CASE Raise(r)        BY <2>12, RaiseStep
  <2>13. CASE Leave(r)        BY <2>13, LeaveStep
  <2>. QED
    BY <1>2, <2>1, <2>2, <2>3, <2>4, <2>5, <2>6, <2>7, <2>8, <2>9, <2>10, <2>11, <2>12,
       <2>13 DEF Serve
<1>3. CASE Restart
  BY <1>3, RestartStep
<1>. QED
  BY <1>1, <1>2, <1>3 DEF Next

\* The inductive invariant holds in every state the requests can reach.
THEOREM InvHolds == Spec => []IInv
<1>. QED
  BY InvStart, InvStep, PTL DEF Spec

\* Every variable keeps its type, and no task that has its result is worked
\* on again: a resumed run takes the tasks without one (eventos_sse).
THEOREM TypeCorrect == Spec => []TypeOK
<1>1. IInv => TypeOK
  BY DEF IInv
<1>. QED
  BY <1>1, InvHolds, PTL

\* _hilos_en_curso holds the thread exactly while the one request that
\* reserved it is served, however that request ends.
THEOREM ThreadIsReleased == Spec => []RegistryIsExact
<1>1. IInv => RegistryIsExact
  BY DEF IInv
<1>. QED
  BY <1>1, InvHolds, PTL

\* What stream_agent read with _pausas_pendientes is still there when the
\* graph runs, however many requests come in between.
THEOREM NothingHappensInBetween == Spec => []CheckStillHolds
<1>1. IInv => CheckStillHolds
  BY DEF IInv
<1>. QED
  BY <1>1, InvHolds, PTL

\* A message leaves a call of the model without its answer only after a run
\* that was cut with no card saved.
THEOREM MessagesDoNotKill == Spec => []OnlyACutKills
<1>1. IInv => OnlyACutKills
  BY DEF IInv
<1>. QED
  BY <1>1, InvHolds, PTL

\* The event fin tells what the panel reads in the checkpoint afterwards.
THEOREM FinIsTrue == Spec => []ClosingEventIsTrue
<1>1. IInv => ClosingEventIsTrue
  BY DEF IInv
<1>. QED
  BY <1>1, InvHolds, PTL
=============================================================================
