------------------------- MODULE AgentWritesProofs -------------------------
(***************************************************************************)
(* The theorems of AgentWrites, for any message, executor and figures.     *)
(* A task that never had two workers at once has a worker with something   *)
(* left to write only while it has no write (Fresh): the mark it looked    *)
(* for and the write it is about to make are the same fact.                *)
(***************************************************************************)
EXTENDS AgentWrites, FiniteSetTheorems, TLAPS

\* The history has every task with two workers.
Noticed ==
    \A v, w \in Workers :
        v # w /\ task[v] = task[w] /\ task[w] \in Tasks => task[w] \in overlapped

Fresh ==
    \A w \in Workers :
        at[w] \in {"recheck", "draft", "claim", "write"} /\ task[w] \notin overlapped =>
            effects[task[w]] = 0

\* What a worker is about to report is true, and stays so.
Told ==
    \A w \in Workers : at[w] = "report" =>
        /\ outcome[w] \in {"registered", "already"} => effects[task[w]] > 0
        /\ outcome[w] \in {"cancelled", "recalculated", "paid"} =>
              effects[task[w]] = 0 \/ task[w] \in overlapped

\* Nobody works on a task that has its result.
Quiet ==
    \A w \in Workers, t \in Tasks :
        result[t] # "none" /\ task[w] = t => t \in overlapped

PurchaseOnly ==
    \A w \in Workers : at[w] \in {"draft", "clean"} => tool[task[w]] = "purchase"

DraftsCounted ==
    \A t \in Tasks :
        /\ drafts[t] >= Cardinality(HoldingDraft(t))
        /\ losses = 0 => drafts[t] = Cardinality(HoldingDraft(t))

IInv ==
    /\ TypeOK
    /\ MarkedIffWritten
    /\ OneWriteUnlessOverlapped
    /\ AnswersAreTrue
    /\ Noticed
    /\ Fresh
    /\ Told
    /\ Quiet
    /\ PurchaseOnly
    /\ DraftsCounted

\* The inductive invariant holds before the message is sent.
LEMMA InvStart == Init => IInv
<1> SUFFICES ASSUME Init PROVE IInv
  OBVIOUS
<1>1. TypeOK
  BY AgentAssumption DEF Init, TypeOK, AnyFigures, FiguresOf, Labels, Outcomes, Decision,
     NoDecision
<1>2. \A t \in Tasks : HoldingDraft(t) = {}
  BY DEF Init, HoldingDraft
<1>3. DraftsCounted
  <2>1. \A t \in Tasks : Cardinality(HoldingDraft(t)) = 0
    BY <1>2, FS_EmptySet
  <2>2. \A t \in Tasks : drafts[t] = 0
    BY DEF Init
  <2>. QED
    BY <2>1, <2>2 DEF DraftsCounted
<1>4. /\ MarkedIffWritten /\ OneWriteUnlessOverlapped /\ AnswersAreTrue
      /\ Noticed /\ Fresh /\ Told /\ Quiet /\ PurchaseOnly
  BY AgentAssumption DEF Init, MarkedIffWritten, OneWriteUnlessOverlapped, AnswersAreTrue,
     Noticed, Fresh, Told, Quiet, PurchaseOnly
<1>. QED
  BY <1>1, <1>3, <1>4 DEF IInv

----------------------------------------------------------------------------
(* What each kind of step leaves alone.                                    *)

\* A worker moves alone, keeps its task until it leaves, and the tools stay.
LEMMA OneWorkerMoves ==
    ASSUME TypeOK, NEW w \in Workers, Work(w)
    PROVE  /\ \A v \in Workers \ {w} :
                 /\ at'[v] = at[v] /\ task'[v] = task[v]
                 /\ decision'[v] = decision[v] /\ outcome'[v] = outcome[v]
           /\ tool' = tool
           /\ task'[w] \in {task[w], NoTask}
           /\ (task'[w] = NoTask) <=> (at'[w] = "idle")
           /\ at[w] # "idle"
<1> USE DEF TypeOK, Goto, Return, Leave, Raise, Busy
<1>1. CASE Find(w)     BY <1>1, AgentAssumption DEF Find
<1>2. CASE Pause(w)    BY <1>2, AgentAssumption DEF Pause
<1>3. CASE Recheck(w)  BY <1>3, AgentAssumption DEF Recheck
<1>4. CASE Draft(w)    BY <1>4, AgentAssumption DEF Draft
<1>5. CASE Claim(w)    BY <1>5, AgentAssumption DEF Claim
<1>6. CASE Write(w)    BY <1>6, AgentAssumption DEF Write
<1>7. CASE Refused(w)  BY <1>7, AgentAssumption DEF Refused
<1>8. CASE Clean(w)    BY <1>8, AgentAssumption DEF Clean
<1>9. CASE CleanFails(w)  BY <1>9, AgentAssumption DEF CleanFails
<1>10. CASE Report(w)  BY <1>10, AgentAssumption DEF Report
<1>. QED
  BY <1>1, <1>2, <1>3, <1>4, <1>5, <1>6, <1>7, <1>8, <1>9, <1>10 DEF Work

\* The workers of a run were idle before it, and their tasks had no result.
LEMMA RunStarts ==
    ASSUME TypeOK, NEW t, NEW d \in Decision, StartRun(t, d)
    PROVE  /\ \A w \in Workers :
                 \/ at'[w] = at[w] /\ task'[w] = task[w]
                 \/ /\ at[w] = "idle" /\ at'[w] = "find"
                    /\ task'[w] \in Unanswered
           /\ at' \in [Workers -> Labels]
           /\ task' \in [Workers -> Tasks \cup {NoTask}]
           /\ decision' \in [Workers -> Decision]
           /\ heard' \subseteq Workers
           /\ running' \in BOOLEAN
           /\ overlapped' = overlapped \cup StillAtWork
           /\ \A v, w \in Workers :
                 at[v] = "idle" /\ at[w] = "idle" /\ task'[v] = task'[w] /\ task'[w] \in Tasks =>
                     v = w
           /\ UNCHANGED <<tool, database, checkpoint, outcome, bounds>>
<1>1. PICK g \in [Idle -> Unanswered \cup {NoTask}] :
         LET Started(w) == w \in Idle /\ g[w] # NoTask IN
         /\ Assignment(g)
         /\ at' = [w \in Workers |-> IF Started(w) THEN "find" ELSE at[w]]
         /\ task' = [w \in Workers |-> IF Started(w) THEN g[w] ELSE task[w]]
         /\ decision' = [w \in Workers |-> IF ~Started(w) THEN decision[w]
                                           ELSE IF g[w] = t THEN d ELSE NoDecision]
         /\ heard' = {w \in Workers : Started(w)}
  BY DEF StartRun
<1>2. Unanswered \subseteq Tasks /\ NoDecision \in Decision
  BY DEF Unanswered, NoDecision, Decision
<1>3. /\ UNCHANGED <<tool, database, checkpoint, outcome, bounds>> /\ running' = TRUE
      /\ overlapped' = overlapped \cup StillAtWork
  BY DEF StartRun
<1>4. \A v, w \in Workers :
         at[v] = "idle" /\ at[w] = "idle" /\ task'[v] = task'[w] /\ task'[w] \in Tasks => v = w
  <2> SUFFICES ASSUME NEW v \in Workers, NEW w \in Workers, at[v] = "idle", at[w] = "idle",
                      task'[v] = task'[w], task'[w] \in Tasks
               PROVE  v = w
    OBVIOUS
  <2>1. v \in Idle /\ w \in Idle /\ task[v] = NoTask /\ task[w] = NoTask
    BY DEF Idle, TypeOK
  <2>2. g[v] = task'[v] /\ g[w] = task'[w]
    BY <1>1, <2>1, AgentAssumption
  <2>3. g[w] \in Unanswered
    BY <2>1, <2>2, AgentAssumption
  <2>. QED
    BY <1>1, <2>1, <2>2, <2>3 DEF Assignment
<1>. QED
  BY <1>1, <1>2, <1>3, <1>4 DEF TypeOK, Idle, Labels

\* A step that starts a run, if it is one, in the form of RunStarts.
LEMMA Starting ==
    ASSUME TypeOK, SendMessage \/ \E t \in Tasks, d \in Decision : Answer(t, d)
    PROVE  \E t, d : d \in Decision /\ StartRun(t, d) /\ begun' \in BOOLEAN
<1>1. NoDecision \in Decision
  BY DEF NoDecision, Decision
<1>2. CASE SendMessage
  BY <1>1, <1>2 DEF SendMessage
<1>3. CASE \E t \in Tasks, d \in Decision : Answer(t, d)
  BY <1>3 DEF Answer, TypeOK
<1>. QED
  BY <1>2, <1>3

----------------------------------------------------------------------------
(* Types.                                                                  *)

\* A worker that gives up a draft has one to give up.
LEMMA DraftThere ==
    ASSUME TypeOK, DraftsCounted, NEW w \in Workers,
           at[w] \in {"claim", "write", "clean"}, tool[task[w]] = "purchase"
    PROVE  drafts[task[w]] >= 1
<1> DEFINE t == task[w]
<1>1. t \in Tasks
  BY DEF TypeOK
<1>2. w \in HoldingDraft(t) /\ HoldingDraft(t) \subseteq Workers
  BY DEF HoldingDraft
<1>3. IsFiniteSet(HoldingDraft(t))
  BY <1>2, FS_Subset, AgentAssumption
<1>4. Cardinality(HoldingDraft(t)) \in Nat /\ Cardinality(HoldingDraft(t)) # 0
  BY <1>2, <1>3, FS_CardinalityType, FS_EmptySet
<1>. QED
  BY <1>1, <1>4 DEF DraftsCounted, TypeOK

\* A step of a tool keeps the types.
LEMMA WorkKeepsTypes ==
    ASSUME TypeOK, DraftsCounted, PurchaseOnly, NEW w \in Workers, Work(w)
    PROVE  /\ tool \in Calls /\ tool' = tool
           /\ figures' \in [Tasks -> AnyFigures] /\ payable' \subseteq Tasks
           /\ marks' \subseteq Tasks /\ claimedBy' \in [Tasks -> Workers \cup {NoWorker}]
           /\ effects' \in [Tasks -> Nat] /\ drafts' \in [Tasks -> Nat]
           /\ result' \in [Tasks -> Outcomes] /\ cards' \subseteq Tasks
           /\ signed' \in [Tasks -> SUBSET AnyFigures]
           /\ running' \in BOOLEAN /\ begun' \in BOOLEAN
           /\ at' \in [Workers -> Labels] /\ task' \in [Workers -> Tasks \cup {NoTask}]
           /\ decision' \in [Workers -> Decision] /\ outcome' \in [Workers -> Outcomes]
           /\ heard' \subseteq Workers /\ leaves' \in Nat /\ losses' \in Nat
<1> USE DEF TypeOK, Goto, Return, Leave, Raise, Busy, Labels, Outcomes, database, checkpoint,
        bounds
<1>0. NoDecision \in Decision
  BY DEF NoDecision, Decision
<1>a. ASSUME Raise(w)
      PROVE  /\ at' \in [Workers -> Labels] /\ task' \in [Workers -> Tasks \cup {NoTask}]
             /\ decision' \in [Workers -> Decision] /\ outcome' \in [Workers -> Outcomes]
             /\ running' \in BOOLEAN /\ heard' \subseteq Workers
  BY <1>0, <1>a
<1>1. CASE Find(w)     BY <1>0, <1>1, AgentAssumption DEF Find
<1>2. CASE Pause(w)
  <2>1. \A t \in Tasks : FiguresOf(t) \subseteq AnyFigures
    BY DEF FiguresOf, AnyFigures
  <2>. QED
    BY <1>0, <1>2, <2>1, AgentAssumption DEF Pause
<1>3. CASE Recheck(w)  BY <1>0, <1>3, AgentAssumption DEF Recheck
<1>4. CASE Draft(w)    BY <1>4, AgentAssumption DEF Draft
<1>5. CASE Claim(w)    BY <1>5, AgentAssumption DEF Claim
<1>6. CASE Write(w)
  <2>1. tool[task[w]] = "purchase" => drafts[task[w]] >= 1
    BY <1>6, DraftThere DEF Write
  <2>. QED
    BY <1>0, <1>6, <2>1, AgentAssumption DEF Write, Released
<1>7. CASE Refused(w)
  <2>1. claimedBy' \in [Tasks -> Workers \cup {NoWorker}]
    BY <1>7 DEF Refused, Released
  <2>2. CASE Raise(w)
    BY <1>7, <1>a, <2>1, <2>2 DEF Refused
  <2>3. CASE Goto(w, "clean") /\ UNCHANGED <<running, heard>>
    BY <1>7, <2>1, <2>3 DEF Refused
  <2>. QED
    BY <1>7, <2>2, <2>3 DEF Refused
<1>8. CASE Clean(w)
  <2>1. drafts[task[w]] >= 1
    BY <1>8, DraftThere DEF Clean, PurchaseOnly
  <2>. QED
    <3>1. drafts' \in [Tasks -> Nat]
      BY <1>8, <2>1 DEF Clean
    <3>. QED
      BY <1>8, <1>a, <3>1 DEF Clean
<1>9. CASE CleanFails(w)
  <2>1. losses' \in Nat
    BY <1>9 DEF CleanFails
  <2>. QED
    BY <1>9, <1>a, <2>1 DEF CleanFails
<1>10. CASE Report(w)  BY <1>0, <1>10, AgentAssumption DEF Report
<1>. QED
  BY <1>1, <1>2, <1>3, <1>4, <1>5, <1>6, <1>7, <1>8, <1>9, <1>10 DEF Work

\* The history only grows, and it sees every overlap.
LEMMA OverlapsNoticed ==
    ASSUME TypeOK, Noticed, Next
    PROVE  Noticed' /\ overlapped \subseteq overlapped' /\ overlapped' \subseteq Tasks
<1>1. CASE SendMessage \/ \E t \in Tasks, d \in Decision : Answer(t, d)
  <2>1. PICK t, d : d \in Decision /\ StartRun(t, d)
    BY <1>1, Starting
  <2>2. /\ \A w \in Workers :
              \/ at'[w] = at[w] /\ task'[w] = task[w]
              \/ at[w] = "idle" /\ at'[w] = "find" /\ task'[w] \in Unanswered
        /\ overlapped' = overlapped \cup StillAtWork
        /\ \A v, w \in Workers :
              at[v] = "idle" /\ at[w] = "idle" /\ task'[v] = task'[w] /\ task'[w] \in Tasks =>
                  v = w
    BY <2>1, RunStarts
  <2>3. ASSUME NEW v \in Workers, NEW w \in Workers, v # w,
               task'[v] = task'[w], task'[w] \in Tasks
        PROVE  task'[w] \in overlapped'
    <3>1. CASE task'[v] = task[v] /\ task'[w] = task[w]
      BY <2>2, <2>3, <3>1 DEF Noticed
    <3>2. CASE task'[v] = task[v] /\ task'[w] \in Unanswered
      BY <2>2, <2>3, <3>2 DEF StillAtWork
    <3>3. CASE task'[w] = task[w] /\ task'[v] \in Unanswered
      BY <2>2, <2>3, <3>3 DEF StillAtWork
    <3>4. CASE at[v] = "idle" /\ at[w] = "idle"
      BY <2>2, <2>3, <3>4
    <3>. QED
      BY <2>2, <3>1, <3>2, <3>3, <3>4
  <2>. QED
    BY <2>2, <2>3 DEF Noticed, StillAtWork, Unanswered, TypeOK
<1>2. CASE EndRun \/ Disconnect \/ \E t \in Tasks : OthersWrite(t)
  <2>1. UNCHANGED <<task, overlapped>>
    BY <1>2 DEF EndRun, Disconnect, OthersWrite, workers
  <2>. QED
    BY <2>1 DEF Noticed, TypeOK
<1>3. CASE Crash
  BY <1>3, AgentAssumption DEF Crash, Noticed, TypeOK
<1>4. ASSUME NEW w \in Workers, Work(w)
      PROVE  Noticed' /\ overlapped \subseteq overlapped' /\ overlapped' \subseteq Tasks
  <2>1. overlapped' = overlapped
    BY <1>4 DEF Work, Find, Pause, Recheck, Draft, Claim, Write, Refused, Clean, CleanFails,
       Report
  <2>2. \A v \in Workers : task'[v] = task[v] \/ task'[v] = NoTask
    BY <1>4, OneWorkerMoves DEF TypeOK
  <2>. QED
    BY <2>1, <2>2, AgentAssumption DEF Noticed, TypeOK
<1>. QED
  BY <1>1, <1>2, <1>3, <1>4 DEF Next

\* Every step keeps the types.
LEMMA TypeStep == IInv /\ Next => TypeOK'
<1> SUFFICES ASSUME IInv, Next PROVE TypeOK'
  OBVIOUS
<1>1. TypeOK /\ DraftsCounted /\ PurchaseOnly /\ Next
  BY DEF IInv
<1>2. overlapped' \subseteq Tasks
  BY <1>1, OverlapsNoticed DEF IInv
<1>3. CASE SendMessage \/ \E t \in Tasks, d \in Decision : Answer(t, d)
  <2>1. PICK t, d : d \in Decision /\ StartRun(t, d) /\ begun' \in BOOLEAN
    BY <1>1, <1>3, Starting
  <2>2. /\ \A w \in Workers :
              \/ at'[w] = at[w] /\ task'[w] = task[w]
              \/ at[w] = "idle" /\ at'[w] = "find" /\ task'[w] \in Unanswered
        /\ at' \in [Workers -> Labels]
        /\ task' \in [Workers -> Tasks \cup {NoTask}]
        /\ decision' \in [Workers -> Decision]
        /\ heard' \subseteq Workers
        /\ running' \in BOOLEAN
        /\ UNCHANGED <<tool, database, checkpoint, outcome, bounds>>
    BY <1>1, <2>1, RunStarts
  <2>3. \A w \in Workers : (task'[w] = NoTask) <=> (at'[w] = "idle")
    BY <1>1, <2>2, AgentAssumption DEF TypeOK, Unanswered
  <2>. QED
    BY <1>1, <1>2, <2>1, <2>2, <2>3 DEF TypeOK, database, checkpoint, bounds
<1>4. CASE \E t \in Tasks : OthersWrite(t)
  <2>1. \A t \in Tasks : FiguresOf(t) \subseteq AnyFigures
    BY DEF FiguresOf, AnyFigures
  <2>. QED
    BY <1>1, <1>2, <1>4, <2>1 DEF OthersWrite, TypeOK, checkpoint, workers, bounds
<1>5. CASE EndRun
  BY <1>1, <1>2, <1>5 DEF EndRun, TypeOK, database, checkpoint, workers, bounds
<1>6. CASE Disconnect
  <2>1. leaves' \in Nat
    BY <1>1, <1>6 DEF Disconnect, TypeOK
  <2>. QED
    BY <1>1, <1>2, <1>6, <2>1 DEF Disconnect, TypeOK, database, checkpoint, workers
<1>7. CASE Crash
  <2>1. losses' \in Nat
    BY <1>1, <1>7 DEF Crash, TypeOK
  <2>. QED
    BY <1>1, <1>2, <1>7, <2>1, AgentAssumption DEF Crash, TypeOK, checkpoint, Labels,
       Outcomes, NoDecision, Decision
<1>8. CASE \E w \in Workers : Work(w)
  <2>1. PICK w \in Workers : Work(w)
    BY <1>8
  <2>2. \A v \in Workers : (task'[v] = NoTask) <=> (at'[v] = "idle")
    BY <1>1, <2>1, OneWorkerMoves DEF TypeOK
  <2>. QED
    BY <1>1, <1>2, <2>1, <2>2, WorkKeepsTypes DEF TypeOK
<1>. QED
  BY <1>1, <1>3, <1>4, <1>5, <1>6, <1>7, <1>8 DEF Next

----------------------------------------------------------------------------
(* Marks, writes and answers.                                              *)

\* Only Write changes what a task has written, and its mark with it.
LEMMA OnlyWriteWrites ==
    ASSUME TypeOK, Next
    PROVE  \/ UNCHANGED <<marks, effects>>
           \/ \E w \in Workers : Write(w)
<1>1. ASSUME SendMessage \/ \E t \in Tasks, d \in Decision : Answer(t, d)
      PROVE  UNCHANGED <<marks, effects>>
  BY <1>1 DEF SendMessage, Answer, StartRun, database
<1>2. ASSUME NEW w \in Workers, Work(w), ~Write(w)
      PROVE  UNCHANGED <<marks, effects>>
  BY <1>2 DEF Work, Find, Pause, Recheck, Draft, Claim, Refused, Clean, CleanFails, Report,
     database
<1>3. ASSUME EndRun \/ Disconnect \/ Crash \/ \E t \in Tasks : OthersWrite(t)
      PROVE  UNCHANGED <<marks, effects>>
  BY <1>3 DEF EndRun, Disconnect, Crash, OthersWrite, database
<1>. QED
  BY <1>1, <1>2, <1>3 DEF Next

\* A write adds one to the writes of its task and marks it.
LEMMA WriteAdds ==
    ASSUME TypeOK, NEW w \in Workers, Write(w)
    PROVE  /\ task[w] \in Tasks
           /\ marks' = marks \cup {task[w]}
           /\ effects'[task[w]] = effects[task[w]] + 1
           /\ \A t \in Tasks : t # task[w] => effects'[t] = effects[t]
           /\ at[w] = "write" /\ at'[w] = "report" /\ outcome'[w] = "registered"
           /\ task' = task /\ result' = result
BY DEF TypeOK, Write, Return, checkpoint

\* A write that is not the first of its task is of one that overlapped.
LEMMA WriteOnce ==
    ASSUME IInv, NEW w \in Workers, Write(w), task[w] \notin overlapped
    PROVE  effects[task[w]] = 0
BY DEF IInv, Fresh, Write

\* No mark without its write, no write without its mark.
LEMMA MarksStep == IInv /\ Next => MarkedIffWritten'
<1> SUFFICES ASSUME IInv, Next PROVE MarkedIffWritten'
  OBVIOUS
<1>1. TypeOK /\ MarkedIffWritten /\ Next
  BY DEF IInv
<1>2. CASE UNCHANGED <<marks, effects>>
  BY <1>1, <1>2 DEF MarkedIffWritten
<1>3. ASSUME NEW w \in Workers, Write(w) PROVE MarkedIffWritten'
  <2>1. /\ task[w] \in Tasks /\ marks' = marks \cup {task[w]}
        /\ effects'[task[w]] = effects[task[w]] + 1
        /\ \A t \in Tasks : t # task[w] => effects'[t] = effects[t]
    BY <1>1, <1>3, WriteAdds
  <2>2. effects[task[w]] + 1 > 0
    BY <1>1, <2>1 DEF TypeOK
  <2>. QED
    BY <1>1, <2>1, <2>2 DEF MarkedIffWritten
<1>. QED
  BY <1>1, <1>2, <1>3, OnlyWriteWrites

\* A task writes again only if it overlapped.
LEMMA OneWriteStep == IInv /\ Next => OneWriteUnlessOverlapped'
<1> SUFFICES ASSUME IInv, Next PROVE OneWriteUnlessOverlapped'
  OBVIOUS
<1>1. TypeOK /\ OneWriteUnlessOverlapped /\ Next /\ overlapped \subseteq overlapped'
  BY OverlapsNoticed DEF IInv
<1>2. CASE UNCHANGED <<marks, effects>>
  BY <1>1, <1>2 DEF OneWriteUnlessOverlapped
<1>3. ASSUME NEW w \in Workers, Write(w) PROVE OneWriteUnlessOverlapped'
  <2>1. /\ task[w] \in Tasks
        /\ effects'[task[w]] = effects[task[w]] + 1
        /\ \A t \in Tasks : t # task[w] => effects'[t] = effects[t]
    BY <1>1, <1>3, WriteAdds
  <2>2. task[w] \notin overlapped => effects'[task[w]] = 1
    BY <1>3, <2>1, WriteOnce
  <2>. QED
    BY <1>1, <2>1, <2>2 DEF OneWriteUnlessOverlapped
<1>. QED
  BY <1>1, <1>2, <1>3, OnlyWriteWrites

\* Two workers on a task: it is in the history.
LEMMA TwoWorkers ==
    ASSUME Noticed, NEW v \in Workers, NEW w \in Workers, v # w,
           task[v] = task[w], task[w] \in Tasks
    PROVE  task[w] \in overlapped
BY DEF Noticed

\* What a step of another worker, or of no worker, does to the writes of the
\* task a worker has in hand: nothing, unless the task overlapped.
LEMMA OthersDoNotWrite ==
    ASSUME IInv, Next, NEW w \in Workers, ~Write(w), task[w] \in Tasks,
           task[w] \notin overlapped
    PROVE  effects'[task[w]] = effects[task[w]]
<1>1. TypeOK /\ Noticed
  BY DEF IInv
<1>2. ASSUME NEW v \in Workers, Write(v) PROVE task[v] # task[w]
  BY <1>1, <1>2, TwoWorkers
<1>3. ASSUME NEW v \in Workers, Write(v) PROVE effects'[task[w]] = effects[task[w]]
  BY <1>1, <1>2, <1>3, WriteAdds
<1>. QED
  BY <1>1, <1>3, OnlyWriteWrites

\* The writes of a task only grow.
LEMMA EffectsGrow ==
    ASSUME TypeOK, Next, NEW t \in Tasks
    PROVE  effects'[t] >= effects[t]
<1>1. ASSUME NEW v \in Workers, Write(v) PROVE effects'[t] >= effects[t]
  BY <1>1, WriteAdds DEF TypeOK
<1>2. CASE UNCHANGED <<marks, effects>>
  BY <1>2 DEF TypeOK
<1>. QED
  BY <1>1, <1>2, OnlyWriteWrites

----------------------------------------------------------------------------
(* What the workers know.                                                  *)

\* A step that is no tool's leaves the writes and the tools alone; a worker
\* goes on with what it did, or starts on a task without a result, or stops.
LEMMA NotOfATool ==
    ASSUME TypeOK, Next, ~(\E w \in Workers : Work(w))
    PROVE  /\ UNCHANGED <<tool, marks, effects, drafts, result, outcome>>
              \/ (UNCHANGED <<tool, marks, effects, drafts, result>>
                  /\ \A w \in Workers : at'[w] = "idle")
           /\ \A w \in Workers :
                 \/ at'[w] = at[w] /\ task'[w] = task[w]
                 \/ at[w] = "idle" /\ at'[w] = "find" /\ task'[w] \in Unanswered
                 \/ at'[w] = "idle" /\ task'[w] = NoTask
<1>1. ASSUME SendMessage \/ \E t \in Tasks, d \in Decision : Answer(t, d)
      PROVE  /\ UNCHANGED <<tool, marks, effects, drafts, result, outcome>>
             /\ \A w \in Workers :
                   \/ at'[w] = at[w] /\ task'[w] = task[w]
                   \/ at[w] = "idle" /\ at'[w] = "find" /\ task'[w] \in Unanswered
  <2>1. PICK t, d : d \in Decision /\ StartRun(t, d)
    BY <1>1, Starting
  <2>. QED
    BY <2>1, RunStarts DEF database, checkpoint
<1>2. ASSUME EndRun \/ Disconnect \/ \E t \in Tasks : OthersWrite(t)
      PROVE  UNCHANGED <<tool, marks, effects, drafts, result, outcome, at, task>>
  BY <1>2 DEF EndRun, Disconnect, OthersWrite, database, checkpoint, workers
<1>3. ASSUME Crash
      PROVE  /\ UNCHANGED <<tool, marks, effects, drafts, result>>
             /\ \A w \in Workers : at'[w] = "idle" /\ task'[w] = NoTask
  BY <1>3 DEF Crash, checkpoint
<1>. QED
  BY <1>1, <1>2, <1>3 DEF Next

\* How a worker comes to be past its look at the mark.
LEMMA PastTheMark ==
    ASSUME TypeOK, NEW w \in Workers, Work(w),
           at'[w] \in {"recheck", "draft", "claim", "write"}
    PROVE  /\ task'[w] = task[w]
           /\ ~Write(w)
           /\ \/ at[w] = "find" /\ task[w] \notin marks
              \/ at[w] \in {"recheck", "draft", "claim"}
<1> USE DEF TypeOK, Goto, Return, Leave, Raise, Busy, Written
<1>1. CASE Find(w)     BY <1>1 DEF Find, Write
<1>2. CASE Pause(w)    BY <1>2 DEF Pause
<1>3. CASE Recheck(w)  BY <1>3 DEF Recheck, Write
<1>4. CASE Draft(w)    BY <1>4 DEF Draft, Write
<1>5. CASE Claim(w)    BY <1>5 DEF Claim, Write
<1>6. CASE Write(w)    BY <1>6 DEF Write
<1>7. CASE Refused(w)  BY <1>7 DEF Refused
<1>8. CASE Clean(w)    BY <1>8 DEF Clean
<1>9. CASE CleanFails(w)  BY <1>9 DEF CleanFails
<1>10. CASE Report(w)  BY <1>10 DEF Report
<1>. QED
  BY <1>1, <1>2, <1>3, <1>4, <1>5, <1>6, <1>7, <1>8, <1>9, <1>10 DEF Work

\* A worker does not write in a step of another.
LEMMA NotTwoWrites ==
    ASSUME TypeOK, NEW w \in Workers, NEW v \in Workers, at'[v] = at[v]
    PROVE  ~Write(v)
BY DEF TypeOK, Write, Return

\* Past the look at the mark of a task that never overlapped, it is unwritten.
LEMMA FreshStep == IInv /\ Next => Fresh'
<1> SUFFICES ASSUME IInv, Next, NEW v \in Workers,
                    at'[v] \in {"recheck", "draft", "claim", "write"},
                    task'[v] \notin overlapped'
             PROVE  effects'[task'[v]] = 0
  BY DEF Fresh
<1>1. TypeOK /\ MarkedIffWritten /\ Fresh /\ Next /\ overlapped \subseteq overlapped'
  BY OverlapsNoticed DEF IInv
<1>2. ASSUME ~(\E w \in Workers : Work(w)) PROVE effects'[task'[v]] = 0
  <2>1. at'[v] = at[v] /\ task'[v] = task[v] /\ effects' = effects
    BY <1>1, <1>2, NotOfATool
  <2>. QED
    BY <1>1, <2>1 DEF Fresh
<1>3. ASSUME NEW w \in Workers, Work(w), w # v PROVE effects'[task'[v]] = 0
  <2>1. at'[v] = at[v] /\ task'[v] = task[v]
    BY <1>1, <1>3, OneWorkerMoves
  <2>2. task[v] \in Tasks
    BY <1>1, <2>1 DEF TypeOK
  <2>3. effects'[task[v]] = effects[task[v]]
    BY <1>1, <2>1, <2>2, NotTwoWrites, OthersDoNotWrite
  <2>. QED
    BY <1>1, <2>1, <2>3 DEF Fresh
<1>4. ASSUME Work(v) PROVE effects'[task'[v]] = 0
  <2>1. /\ task'[v] = task[v] /\ ~Write(v)
        /\ \/ at[v] = "find" /\ task[v] \notin marks
           \/ at[v] \in {"recheck", "draft", "claim"}
    BY <1>1, <1>4, PastTheMark
  <2>2. task[v] \in Tasks /\ effects[task[v]] \in Nat
    BY <1>1, <2>1 DEF TypeOK
  <2>3. effects'[task[v]] = effects[task[v]]
    BY <1>1, <2>1, <2>2, OthersDoNotWrite
  <2>4. effects[task[v]] = 0
    BY <1>1, <2>1, <2>2 DEF Fresh, MarkedIffWritten
  <2>. QED
    BY <2>1, <2>3, <2>4
<1>. QED
  BY <1>2, <1>3, <1>4

\* What a worker reports comes from the mark, from having written, or from
\* not having written.
LEMMA HowItReports ==
    ASSUME TypeOK, NEW w \in Workers, Work(w), at'[w] = "report"
    PROVE  /\ task'[w] = task[w]
           /\ \/ Write(w) /\ outcome'[w] = "registered"
              \/ /\ ~Write(w) /\ at[w] = "find" /\ outcome'[w] = "already"
                 /\ task[w] \in marks
              \/ /\ ~Write(w) /\ outcome'[w] \in {"cancelled", "paid", "recalculated"}
                 /\ \/ at[w] = "find" /\ task[w] \notin marks
                    \/ at[w] = "recheck"
<1> USE DEF TypeOK, Goto, Return, Leave, Raise, Busy, Written
<1>1. CASE Find(w)     BY <1>1 DEF Find, Write
<1>2. CASE Pause(w)    BY <1>2 DEF Pause
<1>3. CASE Recheck(w)  BY <1>3 DEF Recheck, Write
<1>4. CASE Draft(w)    BY <1>4 DEF Draft, Write
<1>5. CASE Claim(w)    BY <1>5 DEF Claim, Write
<1>6. CASE Write(w)    BY <1>6 DEF Write
<1>7. CASE Refused(w)  BY <1>7 DEF Refused
<1>8. CASE Clean(w)    BY <1>8 DEF Clean
<1>9. CASE CleanFails(w)  BY <1>9 DEF CleanFails
<1>10. CASE Report(w)  BY <1>10 DEF Report
<1>. QED
  BY <1>1, <1>2, <1>3, <1>4, <1>5, <1>6, <1>7, <1>8, <1>9, <1>10 DEF Work

\* A worker has the truth to report.
LEMMA ToldStep == IInv /\ Next => Told'
<1> SUFFICES ASSUME IInv, Next, NEW v \in Workers, at'[v] = "report"
             PROVE  /\ outcome'[v] \in {"registered", "already"} => effects'[task'[v]] > 0
                    /\ outcome'[v] \in {"cancelled", "recalculated", "paid"} =>
                          effects'[task'[v]] = 0 \/ task'[v] \in overlapped'
  BY DEF Told
<1>1. /\ TypeOK /\ MarkedIffWritten /\ Fresh /\ Told /\ Next
      /\ overlapped \subseteq overlapped'
  BY OverlapsNoticed DEF IInv
<1>2. CASE ~(\E w \in Workers : Work(w))
  <2>1. /\ at'[v] = at[v] /\ task'[v] = task[v]
        /\ effects' = effects /\ outcome' = outcome
    BY <1>1, <1>2, NotOfATool
  <2>. QED
    BY <1>1, <2>1 DEF Told
<1>3. ASSUME NEW w \in Workers, Work(w), w # v
      PROVE  /\ outcome'[v] \in {"registered", "already"} => effects'[task'[v]] > 0
             /\ outcome'[v] \in {"cancelled", "recalculated", "paid"} =>
                   effects'[task'[v]] = 0 \/ task'[v] \in overlapped'
  <2>1. at'[v] = at[v] /\ task'[v] = task[v] /\ outcome'[v] = outcome[v]
    BY <1>1, <1>3, OneWorkerMoves
  <2>2. task[v] \in Tasks /\ effects[task[v]] \in Nat
    BY <1>1, <2>1 DEF TypeOK
  <2>3. task[v] \notin overlapped => effects'[task[v]] = effects[task[v]]
    BY <1>1, <2>1, <2>2, NotTwoWrites, OthersDoNotWrite
  <2>4. effects[task[v]] > 0 => effects'[task[v]] > 0
    <3>1. CASE UNCHANGED <<marks, effects>>
      BY <3>1
    <3>2. ASSUME NEW u \in Workers, Write(u)
          PROVE  effects[task[v]] > 0 => effects'[task[v]] > 0
      BY <1>1, <2>2, <3>2, WriteAdds
    <3>. QED
      BY <1>1, <3>1, <3>2, OnlyWriteWrites
  <2>. QED
    BY <1>1, <2>1, <2>3, <2>4 DEF Told
<1>4. ASSUME Work(v)
      PROVE  /\ outcome'[v] \in {"registered", "already"} => effects'[task'[v]] > 0
             /\ outcome'[v] \in {"cancelled", "recalculated", "paid"} =>
                   effects'[task'[v]] = 0 \/ task'[v] \in overlapped'
  <2>1. /\ task'[v] = task[v]
        /\ \/ Write(v) /\ outcome'[v] = "registered"
           \/ /\ ~Write(v) /\ at[v] = "find" /\ outcome'[v] = "already"
              /\ task[v] \in marks
           \/ /\ ~Write(v) /\ outcome'[v] \in {"cancelled", "paid", "recalculated"}
              /\ \/ at[v] = "find" /\ task[v] \notin marks
                 \/ at[v] = "recheck"
    BY <1>1, <1>4, HowItReports
  <2>2. CASE Write(v)
    <3>1. effects'[task[v]] = effects[task[v]] + 1 /\ task[v] \in Tasks
          /\ outcome'[v] = "registered"
      BY <1>1, <2>2, WriteAdds
    <3>2. effects[task[v]] \in Nat
      BY <1>1, <3>1 DEF TypeOK
    <3>. QED
      BY <2>1, <3>1, <3>2
  <2>3. CASE ~Write(v)
    <3>1. task[v] \in Tasks /\ effects[task[v]] \in Nat
      BY <1>1, <2>1, <2>3 DEF TypeOK
    <3>2. task[v] \notin overlapped => effects'[task[v]] = effects[task[v]]
      BY <1>1, <2>3, <3>1, OthersDoNotWrite
    <3>3. effects'[task[v]] >= effects[task[v]] /\ effects'[task[v]] \in Nat
      BY <1>1, <3>1, EffectsGrow, TypeStep DEF TypeOK
    <3>4. CASE outcome'[v] = "already" /\ task[v] \in marks
      BY <1>1, <2>1, <3>1, <3>3, <3>4 DEF MarkedIffWritten
    <3>5. CASE /\ outcome'[v] \in {"cancelled", "paid", "recalculated"}
               /\ \/ at[v] = "find" /\ task[v] \notin marks
                  \/ at[v] = "recheck"
      <4>1. task[v] \notin overlapped => effects[task[v]] = 0
        BY <1>1, <3>1, <3>5 DEF MarkedIffWritten, Fresh
      <4>. QED
        BY <1>1, <2>1, <3>2, <3>5, <4>1
    <3>. QED
      BY <2>1, <2>3, <3>4, <3>5
  <2>. QED
    BY <2>2, <2>3
<1>. QED
  BY <1>2, <1>3, <1>4

\* Only Report gives a task its result: the one its worker had, if any.
LEMMA OnlyReportAnswers ==
    ASSUME TypeOK, NEW w \in Workers, Work(w)
    PROVE  \/ result' = result
           \/ /\ at[w] = "report" /\ task[w] \in Tasks
              /\ result' = [result EXCEPT ![task[w]] = outcome[w]]
              /\ task'[w] = NoTask
              /\ UNCHANGED <<marks, effects>>
<1>1. CASE Report(w)
  BY <1>1, AgentAssumption DEF Report, Leave, TypeOK, database
<1>2. CASE ~Report(w)
  BY <1>2 DEF Work, Find, Pause, Recheck, Draft, Claim, Write, Refused, Clean, CleanFails,
     checkpoint
<1>. QED
  BY <1>1, <1>2

\* Nobody starts on a task that has its result.
LEMMA QuietStep == IInv /\ Next => Quiet'
<1> SUFFICES ASSUME IInv, Next, NEW v \in Workers, NEW t \in Tasks,
                    result'[t] # "none", task'[v] = t
             PROVE  t \in overlapped'
  BY DEF Quiet
<1>1. TypeOK /\ Quiet /\ Noticed /\ Next /\ overlapped \subseteq overlapped'
  BY OverlapsNoticed DEF IInv
<1>2. CASE ~(\E w \in Workers : Work(w))
  <2>1. result' = result
    BY <1>1, <1>2, NotOfATool
  <2>2. task'[v] = task[v]
    <3>1. \/ at'[v] = at[v] /\ task'[v] = task[v]
          \/ at[v] = "idle" /\ at'[v] = "find" /\ task'[v] \in Unanswered
          \/ at'[v] = "idle" /\ task'[v] = NoTask
      BY <1>1, <1>2, NotOfATool
    <3>. QED
      BY <2>1, <3>1, AgentAssumption DEF Unanswered
  <2>. QED
    BY <1>1, <2>1, <2>2 DEF Quiet
<1>3. ASSUME NEW w \in Workers, Work(w) PROVE t \in overlapped'
  <2>1. task[v] = t
    BY <1>1, <1>3, OneWorkerMoves, AgentAssumption
  <2>2. CASE result' = result
    BY <1>1, <2>1, <2>2 DEF Quiet
  <2>3. CASE /\ at[w] = "report" /\ task[w] \in Tasks
             /\ result' = [result EXCEPT ![task[w]] = outcome[w]]
             /\ task'[w] = NoTask
    <3>1. v # w
      BY <2>3, AgentAssumption
    <3>2. task[w] # t => result'[t] = result[t]
      BY <1>1, <2>3 DEF TypeOK
    <3>3. task[w] = t => t \in overlapped
      BY <1>1, <2>1, <3>1, TwoWorkers
    <3>. QED
      BY <1>1, <2>1, <3>2, <3>3 DEF Quiet
  <2>. QED
    BY <1>1, <1>3, <2>2, <2>3, OnlyReportAnswers
<1>. QED
  BY <1>2, <1>3

\* A result stays true: what could make it false is noticed.
LEMMA AnswersStep == IInv /\ Next => AnswersAreTrue'
<1> SUFFICES ASSUME IInv, Next, NEW t \in Tasks
             PROVE  /\ result'[t] \in {"registered", "already"} => effects'[t] > 0
                    /\ result'[t] \in {"cancelled", "recalculated", "paid"} =>
                          effects'[t] = 0 \/ t \in overlapped'
  BY DEF AnswersAreTrue
<1>1. /\ TypeOK /\ AnswersAreTrue /\ Quiet /\ Told /\ Next
      /\ overlapped \subseteq overlapped'
  BY OverlapsNoticed DEF IInv
<1>2. CASE result' = result
  <2>1. CASE UNCHANGED <<marks, effects>>
    BY <1>1, <1>2, <2>1 DEF AnswersAreTrue
  <2>2. ASSUME NEW w \in Workers, Write(w)
        PROVE  /\ result'[t] \in {"registered", "already"} => effects'[t] > 0
               /\ result'[t] \in {"cancelled", "recalculated", "paid"} =>
                     effects'[t] = 0 \/ t \in overlapped'
    <3>1. /\ effects'[task[w]] = effects[task[w]] + 1
          /\ t # task[w] => effects'[t] = effects[t]
      BY <1>1, <2>2, WriteAdds
    <3>2. effects[t] \in Nat
      BY <1>1 DEF TypeOK
    <3>3. t = task[w] /\ result[t] # "none" => t \in overlapped
      BY <1>1 DEF Quiet
    <3>. QED
      BY <1>1, <1>2, <3>1, <3>2, <3>3 DEF AnswersAreTrue
  <2>. QED
    BY <1>1, <2>1, <2>2, OnlyWriteWrites
<1>3. ASSUME NEW w \in Workers, at[w] = "report", task[w] \in Tasks,
             result' = [result EXCEPT ![task[w]] = outcome[w]], UNCHANGED <<marks, effects>>
      PROVE  /\ result'[t] \in {"registered", "already"} => effects'[t] > 0
             /\ result'[t] \in {"cancelled", "recalculated", "paid"} =>
                   effects'[t] = 0 \/ t \in overlapped'
  <2>1. CASE t = task[w]
    BY <1>1, <1>3, <2>1 DEF Told, TypeOK
  <2>2. CASE t # task[w]
    BY <1>1, <1>3, <2>2 DEF AnswersAreTrue, TypeOK
  <2>. QED
    BY <2>1, <2>2
<1>4. CASE \E w \in Workers : Work(w)
  BY <1>1, <1>2, <1>3, <1>4, OnlyReportAnswers
<1>5. CASE ~(\E w \in Workers : Work(w))
  BY <1>1, <1>2, <1>5, NotOfATool
<1>. QED
  BY <1>4, <1>5

----------------------------------------------------------------------------
(* The drafts.                                                             *)

\* How a step of a tool moves a worker among the steps that have a draft.
LEMMA DraftMoves ==
    ASSUME TypeOK, PurchaseOnly, NEW w \in Workers, Work(w)
    PROVE  /\ at'[w] \in {"draft", "clean"} => tool[task[w]] = "purchase"
           /\ losses' = 0 => losses = 0
           /\ \/ /\ Draft(w) /\ tool[task[w]] = "purchase" /\ at'[w] = "claim"
                 /\ at[w] = "draft" /\ task'[w] = task[w] /\ losses' = losses
                 /\ drafts' = [drafts EXCEPT ![task[w]] = @ + 1]
              \/ /\ at[w] \in {"write", "clean"} /\ tool[task[w]] = "purchase"
                 /\ at'[w] \in {"report", "idle"} /\ losses' = losses
                 /\ drafts' = [drafts EXCEPT ![task[w]] = @ - 1]
              \/ /\ at[w] = "clean" /\ at'[w] = "idle"
                 /\ drafts' = drafts /\ losses' > 0
              \/ /\ drafts' = drafts /\ losses' = losses
                 /\ tool[task[w]] = "purchase" =>
                       (at[w] \in {"claim", "write", "clean"} <=>
                           at'[w] \in {"claim", "write", "clean"})
                 /\ at'[w] # "idle" => task'[w] = task[w]
<1> USE DEF TypeOK, Goto, Return, Leave, Raise, Busy, database, bounds
<1>1. CASE Find(w)     BY <1>1 DEF Find
<1>2. CASE Pause(w)    BY <1>2 DEF Pause
<1>3. CASE Recheck(w)  BY <1>3 DEF Recheck
<1>4. CASE Draft(w)    BY <1>4 DEF Draft, PurchaseOnly
<1>5. CASE Claim(w)    BY <1>5 DEF Claim
<1>6. CASE Write(w)    BY <1>6 DEF Write
<1>7. CASE Refused(w)  BY <1>7 DEF Refused
<1>8. CASE Clean(w)    BY <1>8 DEF Clean, PurchaseOnly
<1>9. CASE CleanFails(w)  BY <1>9 DEF CleanFails
<1>10. CASE Report(w)  BY <1>10 DEF Report
<1>. QED
  BY <1>1, <1>2, <1>3, <1>4, <1>5, <1>6, <1>7, <1>8, <1>9, <1>10 DEF Work

\* Only a purchase makes a draft or cleans one.
LEMMA PurchaseStep == IInv /\ Next => PurchaseOnly'
<1> SUFFICES ASSUME IInv, Next, NEW v \in Workers, at'[v] \in {"draft", "clean"}
             PROVE  tool'[task'[v]] = "purchase"
  BY DEF PurchaseOnly
<1>1. TypeOK /\ PurchaseOnly /\ Next
  BY DEF IInv
<1>2. CASE ~(\E w \in Workers : Work(w))
  BY <1>1, <1>2, NotOfATool DEF PurchaseOnly
<1>3. ASSUME NEW w \in Workers, Work(w), w # v PROVE tool'[task'[v]] = "purchase"
  BY <1>1, <1>3, OneWorkerMoves DEF PurchaseOnly
<1>4. ASSUME Work(v) PROVE tool'[task'[v]] = "purchase"
  BY <1>1, <1>4, OneWorkerMoves, DraftMoves
<1>. QED
  BY <1>2, <1>3, <1>4

\* The workers with a draft of a task are finitely many.
LEMMA HoldersFinite ==
    ASSUME NEW t
    PROVE  /\ HoldingDraft(t) \subseteq Workers /\ IsFiniteSet(HoldingDraft(t))
           /\ Cardinality(HoldingDraft(t)) \in Nat
<1>1. HoldingDraft(t) \subseteq Workers
  BY DEF HoldingDraft
<1>2. IsFiniteSet(HoldingDraft(t))
  BY <1>1, FS_Subset, AgentAssumption
<1>. QED
  BY <1>1, <1>2, FS_CardinalityType

\* One draft for each worker that still has to confirm or delete it.
LEMMA DraftsStep == IInv /\ Next => DraftsCounted'
<1> SUFFICES ASSUME IInv, Next, NEW t \in Tasks
             PROVE  /\ drafts'[t] >= Cardinality(HoldingDraft(t)')
                    /\ losses' = 0 => drafts'[t] = Cardinality(HoldingDraft(t)')
  BY DEF DraftsCounted
<1> DEFINE Held == HoldingDraft(t)
<1>1. TypeOK /\ DraftsCounted /\ PurchaseOnly /\ Next
  BY DEF IInv
<1>2. /\ drafts[t] \in Nat /\ Cardinality(Held) \in Nat /\ IsFiniteSet(Held)
      /\ losses \in Nat /\ drafts[t] >= Cardinality(Held)
      /\ losses = 0 => drafts[t] = Cardinality(Held)
  BY <1>1, HoldersFinite DEF TypeOK, DraftsCounted
<1>3. CASE Crash
  <2>1. HoldingDraft(t)' = {} /\ drafts' = drafts /\ losses' # 0
    BY <1>2, <1>3 DEF Crash, HoldingDraft
  <2>. QED
    BY <1>2, <2>1, FS_EmptySet
<1>4. CASE ~Crash /\ ~(\E w \in Workers : Work(w))
  <2>1. losses' = losses /\ UNCHANGED <<tool, drafts>>
    <3>1. ASSUME SendMessage \/ \E u \in Tasks, d \in Decision : Answer(u, d)
          PROVE  losses' = losses /\ UNCHANGED <<tool, drafts>>
      BY <3>1 DEF SendMessage, Answer, StartRun, bounds, database
    <3>. QED
      BY <1>1, <1>4, <3>1 DEF Next, EndRun, Disconnect, OthersWrite, bounds, database
  <2>2. UNCHANGED <<at, task>> \/ \A w \in Workers :
           \/ at'[w] = at[w] /\ task'[w] = task[w]
           \/ at[w] = "idle" /\ at'[w] = "find"
    <3>1. ASSUME SendMessage \/ \E u \in Tasks, d \in Decision : Answer(u, d)
          PROVE  \A w \in Workers :
                    \/ at'[w] = at[w] /\ task'[w] = task[w]
                    \/ at[w] = "idle" /\ at'[w] = "find"
      BY <1>1, <3>1, Starting, RunStarts
    <3>2. ASSUME EndRun \/ Disconnect \/ \E u \in Tasks : OthersWrite(u)
          PROVE  UNCHANGED <<at, task>>
      BY <3>2 DEF EndRun, Disconnect, OthersWrite, workers
    <3>. QED
      BY <1>1, <1>4, <3>1, <3>2 DEF Next
  <2>3. HoldingDraft(t)' = Held
    BY <2>1, <2>2 DEF HoldingDraft
  <2>. QED
    BY <1>2, <2>1, <2>3
<1>5. ASSUME NEW w \in Workers, Work(w)
      PROVE  /\ drafts'[t] >= Cardinality(HoldingDraft(t)')
             /\ losses' = 0 => drafts'[t] = Cardinality(HoldingDraft(t)')
  <2>1. /\ \A v \in Workers \ {w} : at'[v] = at[v] /\ task'[v] = task[v]
        /\ tool' = tool /\ task'[w] \in {task[w], NoTask}
        /\ (task'[w] = NoTask) <=> (at'[w] = "idle")
        /\ at[w] # "idle"
    BY <1>1, <1>5, OneWorkerMoves
  <2>2. task[w] \in Tasks /\ losses' \in Nat
    BY <1>1, <1>5, <2>1, WorkKeepsTypes DEF TypeOK
  <2>3. /\ losses' = 0 => losses = 0
        /\ \/ /\ Draft(w) /\ tool[task[w]] = "purchase" /\ at'[w] = "claim"
              /\ at[w] = "draft" /\ task'[w] = task[w] /\ losses' = losses
              /\ drafts' = [drafts EXCEPT ![task[w]] = @ + 1]
           \/ /\ at[w] \in {"write", "clean"} /\ tool[task[w]] = "purchase"
              /\ at'[w] \in {"report", "idle"} /\ losses' = losses
              /\ drafts' = [drafts EXCEPT ![task[w]] = @ - 1]
           \/ /\ at[w] = "clean" /\ at'[w] = "idle"
              /\ drafts' = drafts /\ losses' > 0
           \/ /\ drafts' = drafts /\ losses' = losses
              /\ tool[task[w]] = "purchase" =>
                    (at[w] \in {"claim", "write", "clean"} <=>
                        at'[w] \in {"claim", "write", "clean"})
              /\ at'[w] # "idle" => task'[w] = task[w]
    BY <1>1, <1>5, DraftMoves
  <2>4. CASE task[w] # t
    <3>1. HoldingDraft(t)' = Held
      BY <2>1, <2>4, AgentAssumption DEF HoldingDraft
    <3>2. drafts'[t] = drafts[t]
      BY <1>1, <2>3, <2>4 DEF TypeOK
    <3>. QED
      BY <1>2, <2>3, <3>1, <3>2
  <2>5. CASE task[w] = t
    <3>1. CASE /\ tool[t] = "purchase" /\ at'[w] = "claim" /\ at[w] = "draft"
               /\ task'[w] = t /\ losses' = losses
               /\ drafts' = [drafts EXCEPT ![t] = @ + 1]
      <4>1. HoldingDraft(t)' = Held \cup {w} /\ w \notin Held
        BY <2>1, <3>1 DEF HoldingDraft
      <4>2. Cardinality(HoldingDraft(t)') = Cardinality(Held) + 1
        BY <1>2, <4>1, FS_AddElement
      <4>3. drafts'[t] = drafts[t] + 1
        BY <1>1, <3>1 DEF TypeOK
      <4>. QED
        BY <1>2, <3>1, <4>2, <4>3
    <3>2. CASE /\ at[w] \in {"write", "clean"} /\ tool[t] = "purchase"
               /\ at'[w] \in {"report", "idle"} /\ losses' = losses
               /\ drafts' = [drafts EXCEPT ![t] = @ - 1]
      <4>1. HoldingDraft(t)' = Held \ {w} /\ w \in Held
        BY <2>1, <2>5, <3>2 DEF HoldingDraft
      <4>2. Cardinality(HoldingDraft(t)') = Cardinality(Held) - 1
        BY <1>2, <4>1, FS_RemoveElement
      <4>3. drafts'[t] = drafts[t] - 1
        BY <1>1, <3>2 DEF TypeOK
      <4>. QED
        BY <1>2, <3>2, <4>2, <4>3
    <3>3. CASE at[w] = "clean" /\ at'[w] = "idle" /\ drafts' = drafts /\ losses' > 0
      <4>1. HoldingDraft(t)' = Held \ {w}
        BY <2>1, <3>3 DEF HoldingDraft
      <4>2. w \in Held
        BY <1>1, <2>5, <3>3 DEF HoldingDraft, PurchaseOnly
      <4>3. Cardinality(HoldingDraft(t)') = Cardinality(Held) - 1
        BY <1>2, <4>1, <4>2, FS_RemoveElement
      <4>. QED
        BY <1>2, <2>2, <3>3, <4>3
    <3>4. CASE /\ drafts' = drafts /\ losses' = losses
               /\ tool[t] = "purchase" =>
                     (at[w] \in {"claim", "write", "clean"} <=>
                         at'[w] \in {"claim", "write", "clean"})
               /\ at'[w] # "idle" => task'[w] = t
      <4>1. HoldingDraft(t)' = Held
        BY <2>1, <2>5, <3>4 DEF HoldingDraft
      <4>. QED
        BY <1>2, <3>4, <4>1
    <3>. QED
      BY <2>3, <2>5, <3>1, <3>2, <3>3, <3>4
  <2>. QED
    BY <2>4, <2>5
<1>. QED
  BY <1>3, <1>4, <1>5

----------------------------------------------------------------------------
(* The theorems.                                                           *)

\* Every step keeps the inductive invariant; so does one that changes nothing.
LEMMA InvStep == IInv /\ [Next]_vars => IInv'
<1>1. ASSUME IInv, Next PROVE IInv'
  BY <1>1, TypeStep, MarksStep, OneWriteStep, AnswersStep, OverlapsNoticed, FreshStep,
     ToldStep, QuietStep, PurchaseStep, DraftsStep DEF IInv
<1>2. ASSUME IInv, UNCHANGED vars PROVE IInv'
  <2>1. /\ UNCHANGED <<tool, running, begun, heard, overlapped, figures, payable, marks>>
        /\ UNCHANGED <<claimedBy, effects, drafts, result, cards, signed>>
        /\ UNCHANGED <<at, task, decision, outcome, leaves, losses>>
    BY <1>2 DEF vars, database, checkpoint, workers, bounds
  <2>2. TypeOK'
    BY <1>2, <2>1 DEF IInv, TypeOK
  <2>3. (MarkedIffWritten /\ OneWriteUnlessOverlapped /\ AnswersAreTrue)'
    BY <1>2, <2>1 DEF IInv, MarkedIffWritten, OneWriteUnlessOverlapped, AnswersAreTrue
  <2>4. (Noticed /\ Fresh /\ Told /\ Quiet /\ PurchaseOnly)'
    BY <1>2, <2>1 DEF IInv, Noticed, Fresh, Told, Quiet, PurchaseOnly
  <2>5. DraftsCounted'
    BY <1>2, <2>1 DEF IInv, DraftsCounted, HoldingDraft
  <2>. QED
    BY <2>2, <2>3, <2>4, <2>5 DEF IInv
<1>. QED
  BY <1>1, <1>2

\* The inductive invariant holds of every conversation.
LEMMA Invariant == Spec => []IInv
BY InvStart, InvStep, PTL DEF Spec

\* Every variable keeps its type: no draft is deleted twice.
THEOREM AgentTypes == Spec => []TypeOK
<1>1. IInv => TypeOK
  BY DEF IInv
<1>. QED
  BY <1>1, Invariant, PTL

\* The row of agent.tool_writes and the business write are one fact, whatever
\* crashes, is refused, is cut or is undone, and whatever runs at once.
THEOREM MarksAreWrites == Spec => []MarkedIffWritten
<1>1. IInv => MarkedIffWritten
  BY DEF IInv
<1>. QED
  BY <1>1, Invariant, PTL

\* A task that never had two workers at once writes at most once.
THEOREM WritesOnce == Spec => []OneWriteUnlessOverlapped
<1>1. IInv => OneWriteUnlessOverlapped
  BY DEF IInv
<1>. QED
  BY <1>1, Invariant, PTL

\* What the conversation keeps as the answer of a tool is what happened.
THEOREM AnswersHold == Spec => []AnswersAreTrue
<1>1. IInv => AnswersAreTrue
  BY DEF IInv
<1>. QED
  BY <1>1, Invariant, PTL

\* Short of a crash or a failed clean-up, a draft has a worker that will
\* confirm it or delete it.
THEOREM DraftsHaveWorkers == Spec => []NoOrphanDraft
<1>1. IInv => NoOrphanDraft
  BY DEF IInv, DraftsCounted, NoOrphanDraft
<1>. QED
  BY <1>1, Invariant, PTL
=============================================================================
