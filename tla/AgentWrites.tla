---------------------------- MODULE AgentWrites ----------------------------
(***************************************************************************)
(* The write tools of the conversational agent in one conversation: the    *)
(* tool calls of one message of the model (the tasks of LangGraph), the    *)
(* cards a person answers, the runs of /agent/stream and agent.tool_writes.*)
(*                                                                         *)
(* A run executes the body of every task that has no result, from its      *)
(* first line, in a thread of the executor: a worker.  A task without a    *)
(* decision stops at its card; LangGraph keeps the card and, later, the    *)
(* result.  A client that leaves and an error of one task end the run, and *)
(* free the conversation, while its workers go on unheard.                 *)
(***************************************************************************)
EXTENDS Integers, FiniteSets

CONSTANTS
    Tasks,      \* the tool calls of the message
    Calls,      \* what they may be: functions from the tasks to the write tools
    NoTask,
    Workers,    \* the threads of the executor
    NoWorker,
    Figures,    \* what a preview may compute
    NoFigures,  \* of the tools that compute nothing
    MaxFaults   \* bound on clients that leave, restarts and failed clean-ups

ASSUME AgentAssumption ==
    /\ NoTask \notin Tasks
    /\ NoWorker \notin Workers
    /\ IsFiniteSet(Workers)
    /\ Calls \subseteq [Tasks -> {"sale", "purchase", "cash", "collect"}]
    /\ NoFigures \notin Figures
    /\ MaxFaults \in Nat

VARIABLES
    tool,       \* which write tool a task calls
    figures,    \* what the preview of a task computes now
    payable,    \* the tasks whose sale, if they collect one, is pending
    marks,      \* the committed rows of agent.tool_writes
    claimedBy,  \* the worker with an uncommitted row of a task
    effects,    \* the business writes committed for a task
    drafts,     \* the draft purchases of a task in the database
    result,     \* what the checkpoint keeps of a task
    cards,      \* the tasks with a pause in the checkpoint
    signed,     \* the huellas the server signed for a task
    running,    \* whether the thread is in _hilos_en_curso
    begun,      \* whether the message has been sent
    at, task, decision, outcome,   \* what each worker executes
    heard,      \* the workers the run waits for
    leaves, losses,
    overlapped  \* history: the tasks that ever had two workers at once

database == <<figures, payable, marks, claimedBy, effects, drafts>>
checkpoint == <<result, cards, signed>>
workers == <<at, task, decision, outcome>>
bounds == <<leaves, losses>>
vars == <<tool, database, checkpoint, running, begun, workers, heard, bounds, overlapped>>

----------------------------------------------------------------------------

AnyFigures == Figures \cup {NoFigures}
Outcomes == {"none", "registered", "already", "cancelled", "recalculated", "paid"}
Decision ==
    [kind : {"none", "correct", "cancel"}]
    \cup [kind : {"approve"}, huella : AnyFigures]
NoDecision == [kind |-> "none"]
Labels == {"idle", "find", "pause", "recheck", "draft", "claim", "write", "clean", "report"}

TypeOK ==
    /\ tool \in Calls
    /\ figures \in [Tasks -> AnyFigures]
    /\ payable \subseteq Tasks
    /\ marks \subseteq Tasks
    /\ claimedBy \in [Tasks -> Workers \cup {NoWorker}]
    /\ effects \in [Tasks -> Nat]
    /\ drafts \in [Tasks -> Nat]
    /\ result \in [Tasks -> Outcomes]
    /\ cards \subseteq Tasks
    /\ signed \in [Tasks -> SUBSET AnyFigures]
    /\ running \in BOOLEAN
    /\ begun \in BOOLEAN
    /\ at \in [Workers -> Labels]
    /\ task \in [Workers -> Tasks \cup {NoTask}]
    /\ \A w \in Workers : (task[w] = NoTask) <=> (at[w] = "idle")
    /\ decision \in [Workers -> Decision]
    /\ outcome \in [Workers -> Outcomes]
    /\ heard \subseteq Workers
    /\ leaves \in Nat
    /\ losses \in Nat
    /\ overlapped \subseteq Tasks

\* Only a sale and a purchase have figures that a preview computes.
FiguresOf(t) == IF tool[t] \in {"sale", "purchase"} THEN Figures ELSE {NoFigures}

Init ==
    /\ tool \in Calls
    /\ figures \in [Tasks -> AnyFigures]
    /\ \A t \in Tasks : figures[t] \in FiguresOf(t)
    /\ payable = {t \in Tasks : tool[t] = "collect"}
    /\ marks = {}
    /\ claimedBy = [t \in Tasks |-> NoWorker]
    /\ effects = [t \in Tasks |-> 0]
    /\ drafts = [t \in Tasks |-> 0]
    /\ result = [t \in Tasks |-> "none"]
    /\ cards = {}
    /\ signed = [t \in Tasks |-> {}]
    /\ running = FALSE
    /\ begun = FALSE
    /\ at = [w \in Workers |-> "idle"]
    /\ task = [w \in Workers |-> NoTask]
    /\ decision = [w \in Workers |-> NoDecision]
    /\ outcome = [w \in Workers |-> "none"]
    /\ heard = {}
    /\ leaves = 0
    /\ losses = 0
    /\ overlapped = {}

----------------------------------------------------------------------------
(* POST /agent/stream.                                                     *)

Unanswered == {t \in Tasks : result[t] = "none"}
Idle == {w \in Workers : at[w] = "idle"}

\* One idle worker for each task without a result.
Assignment(g) ==
    /\ g \in [Idle -> Unanswered \cup {NoTask}]
    /\ \A t \in Unanswered : \E w \in Idle : \A v \in Idle : g[v] = t <=> v = w

\* The tasks that run again while a worker of an earlier run is at them.
StillAtWork == {t \in Unanswered : \E w \in Workers : task[w] = t}

\* Of the tasks that run, only the one being answered has a decision.
StartRun(t, d) ==
    /\ ~running
    /\ running' = TRUE
    /\ \E g \in [Idle -> Unanswered \cup {NoTask}] :
          LET Started(w) == w \in Idle /\ g[w] # NoTask IN
          /\ Assignment(g)
          /\ at' = [w \in Workers |-> IF Started(w) THEN "find" ELSE at[w]]
          /\ task' = [w \in Workers |-> IF Started(w) THEN g[w] ELSE task[w]]
          /\ decision' = [w \in Workers |-> IF ~Started(w) THEN decision[w]
                                        ELSE IF g[w] = t THEN d ELSE NoDecision]
          /\ heard' = {w \in Workers : Started(w)}
    /\ overlapped' = overlapped \cup StillAtWork
    /\ UNCHANGED <<tool, database, checkpoint, outcome, bounds>>

\* A message is refused while a card waits.  Its tool calls are new tasks:
\* the model follows one message.
SendMessage ==
    /\ ~begun
    /\ cards \cap Unanswered = {}
    /\ begun' = TRUE
    /\ StartRun(NoTask, NoDecision)

\* A decision answers a card that waits; an approval returns a huella of it.
Answer(t, d) ==
    /\ t \in cards \cap Unanswered
    /\ d.kind # "none"
    /\ d.kind = "approve" => d.huella \in signed[t]
    /\ StartRun(t, d)
    /\ UNCHANGED begun

\* Every task of the run has paused or has its result.
EndRun ==
    /\ running
    /\ heard = {}
    /\ running' = FALSE
    /\ UNCHANGED <<tool, overlapped, database, checkpoint, begun, workers, heard,
                   bounds>>

\* The task of asyncio that serves the request is cancelled: the thread is
\* free, and what its workers return is lost.
Disconnect ==
    /\ running
    /\ leaves + losses < MaxFaults
    /\ leaves' = leaves + 1
    /\ running' = FALSE
    /\ heard' = {}
    /\ UNCHANGED <<tool, overlapped, database, checkpoint, begun, workers, losses>>

----------------------------------------------------------------------------
(* The body of a write tool.                                               *)

Goto(w, label) ==
    /\ at' = [at EXCEPT ![w] = label]
    /\ UNCHANGED <<task, decision, outcome>>

Return(w, value) ==
    /\ at' = [at EXCEPT ![w] = "report"]
    /\ outcome' = [outcome EXCEPT ![w] = value]
    /\ decision' = [decision EXCEPT ![w] = NoDecision]
    /\ UNCHANGED task

Leave(w) ==
    /\ at' = [at EXCEPT ![w] = "idle"]
    /\ task' = [task EXCEPT ![w] = NoTask]
    /\ decision' = [decision EXCEPT ![w] = NoDecision]
    /\ outcome' = [outcome EXCEPT ![w] = "none"]

\* Mutant of Written: the tool does not look at its mark.
NeverWritten(t) == FALSE
Written(t) == t \in marks

\* registrar_cobro looks for something to collect before each card and
\* after each approval.
NothingToCollect(t) == tool[t] = "collect" /\ t \notin payable

\* _ya_escrito, before any card; then interrupt() gives the decision or
\* stops the body.
Find(w) ==
    /\ at[w] = "find"
    /\ LET t == task[w] IN
          CASE Written(t) -> Return(w, "already")
            [] ~Written(t) /\ NothingToCollect(t) -> Return(w, "paid")
            [] OTHER ->
                 \/ decision[w].kind \in {"none", "correct"} /\ Goto(w, "pause")
                 \/ decision[w].kind = "cancel" /\ Return(w, "cancelled")
                 \/ decision[w].kind = "approve" /\ Goto(w, "recheck")
    /\ UNCHANGED <<tool, overlapped, database, checkpoint, running, begun, heard,
                   bounds>>

\* interrupt() without a decision left: the card goes to the checkpoint and
\* its huella to the panel.  A correction has changed what is previewed.
Pause(w) ==
    /\ at[w] = "pause"
    /\ LET t == task[w] IN
          \E f \in FiguresOf(t) :
             /\ decision[w].kind = "none" => f = figures[t]
             /\ IF w \in heard
                  THEN /\ figures' = [figures EXCEPT ![t] = f]
                       /\ cards' = cards \cup {t}
                       /\ signed' = [signed EXCEPT ![t] = @ \cup {f}]
                  ELSE UNCHANGED <<figures, cards, signed>>
    /\ heard' = heard \ {w}
    /\ Leave(w)
    /\ UNCHANGED <<tool, overlapped, payable, marks, claimedBy, effects, drafts,
                   result, running, begun, bounds>>

\* The approved figures against a fresh, unlocked computation.  An approval
\* without a huella, or with one that is not of this operation, is refused
\* at this point too, and writes as little.
Recheck(w) ==
    /\ at[w] = "recheck"
    /\ LET t == task[w] IN
          CASE decision[w].huella # figures[t] -> Return(w, "recalculated")
            [] NothingToCollect(t) -> Return(w, "paid")
            [] OTHER -> Goto(w, IF tool[t] = "purchase" THEN "draft" ELSE "claim")
    /\ UNCHANGED <<tool, overlapped, database, checkpoint, running, begun, heard,
                   bounds>>

\* Mutant of Draft: the mark travels with the first transaction.
DraftWithMark(w) ==
    /\ at[w] = "draft"
    /\ drafts' = [drafts EXCEPT ![task[w]] = @ + 1]
    /\ marks' = marks \cup {task[w]}
    /\ Goto(w, "claim")
    /\ UNCHANGED <<tool, overlapped, figures, payable, claimedBy, effects,
                   checkpoint, running, begun, heard, bounds>>

\* PurchaseService.create commits a draft of its own.
Draft(w) ==
    /\ at[w] = "draft"
    /\ drafts' = [drafts EXCEPT ![task[w]] = @ + 1]
    /\ Goto(w, "claim")
    /\ UNCHANGED <<tool, overlapped, figures, payable, marks, claimedBy, effects,
                   checkpoint, running, begun, heard, bounds>>

\* Mutant of Claim: the mark has a commit of its own.
ClaimCommitted(w) ==
    /\ at[w] = "claim"
    /\ claimedBy[task[w]] = NoWorker
    /\ marks' = marks \cup {task[w]}
    /\ Goto(w, "write")
    /\ UNCHANGED <<tool, overlapped, figures, payable, claimedBy, effects, drafts,
                   checkpoint, running, begun, heard, bounds>>

\* INSERT ... ON CONFLICT DO NOTHING waits for the other transaction that
\* inserted the key, and does nothing if that one committed.
Claim(w) ==
    /\ at[w] = "claim"
    /\ LET t == task[w] IN
          /\ claimedBy[t] = NoWorker
          /\ claimedBy' = IF t \in marks THEN claimedBy ELSE [claimedBy EXCEPT ![t] = w]
    /\ Goto(w, "write")
    /\ UNCHANGED <<tool, overlapped, figures, payable, marks, effects, drafts,
                   checkpoint, running, begun, heard, bounds>>

Released(w) == [t \in Tasks |-> IF claimedBy[t] = w THEN NoWorker ELSE claimedBy[t]]

\* create, confirm, record or mark_as_paid, and the commit of it with the
\* mark.  confirm looks at the products of the purchase again.
Write(w) ==
    /\ at[w] = "write"
    /\ LET t == task[w] IN
          /\ tool[t] = "purchase" => decision[w].huella = figures[t]
          /\ effects' = [effects EXCEPT ![t] = @ + 1]
          /\ drafts' = IF tool[t] = "purchase" THEN [drafts EXCEPT ![t] = @ - 1] ELSE drafts
          /\ payable' = IF tool[t] = "collect" THEN payable \ {t} ELSE payable
          /\ marks' = marks \cup {t}
    /\ claimedBy' = Released(w)
    /\ Return(w, "registered")
    /\ UNCHANGED <<tool, overlapped, figures, checkpoint, running, begun, heard,
                   bounds>>

\* An exception leaves the tool: the run ends with the event "error".
Raise(w) ==
    /\ Leave(w)
    /\ IF w \in heard THEN running' = FALSE /\ heard' = {}
                      ELSE UNCHANGED <<running, heard>>

Busy == {"find", "recheck", "draft", "claim", "write"}

\* Mutant of Refused: a purchase that is not confirmed is left as it is.
RefusedForGood(w) ==
    /\ at[w] \in Busy
    /\ claimedBy' = Released(w)
    /\ Raise(w)
    /\ UNCHANGED <<tool, overlapped, figures, payable, marks, effects, drafts,
                   checkpoint, begun, bounds>>

\* A 404 or a 409 of the service, or the database failing: the transaction
\* is rolled back, its mark included.  A draft is deleted first.
Refused(w) ==
    /\ at[w] \in Busy
    /\ claimedBy' = Released(w)
    /\ IF tool[task[w]] = "purchase" /\ at[w] \in {"claim", "write"}
         THEN Goto(w, "clean") /\ UNCHANGED <<running, heard>>
         ELSE Raise(w)
    /\ UNCHANGED <<tool, overlapped, figures, payable, marks, effects, drafts,
                   checkpoint, begun, bounds>>

\* Mutant of Clean: the clean-up is tried again.
CleanAgain(w) ==
    /\ at[w] = "clean"
    /\ drafts' = [drafts EXCEPT ![task[w]] = @ - 1]
    /\ UNCHANGED <<tool, overlapped, figures, payable, marks, claimedBy, effects,
                   checkpoint, running, heard, workers, begun, bounds>>

Clean(w) ==
    /\ at[w] = "clean"
    /\ drafts' = [drafts EXCEPT ![task[w]] = @ - 1]
    /\ Raise(w)
    /\ UNCHANGED <<tool, overlapped, figures, payable, marks, claimedBy, effects,
                   checkpoint, begun, bounds>>

\* The error of the clean-up is swallowed.
CleanFails(w) ==
    /\ at[w] = "clean"
    /\ leaves + losses < MaxFaults
    /\ losses' = losses + 1
    /\ Raise(w)
    /\ UNCHANGED <<tool, overlapped, database, checkpoint, begun, leaves>>

\* LangGraph writes the result of the task, if the run still listens.
Report(w) ==
    /\ at[w] = "report"
    /\ result' = IF w \in heard THEN [result EXCEPT ![task[w]] = outcome[w]] ELSE result
    /\ heard' = heard \ {w}
    /\ Leave(w)
    /\ UNCHANGED <<tool, overlapped, database, cards, signed, running, begun, bounds>>

Work(w) ==
    \/ Find(w) \/ Pause(w) \/ Recheck(w) \/ Draft(w) \/ Claim(w) \/ Write(w)
    \/ Refused(w) \/ Clean(w) \/ CleanFails(w) \/ Report(w)

----------------------------------------------------------------------------
(* Everybody else.                                                         *)

\* The process dies: PostgreSQL rolls back what its threads had open.
Crash ==
    /\ leaves + losses < MaxFaults
    /\ losses' = losses + 1
    /\ claimedBy' = [t \in Tasks |-> NoWorker]
    /\ running' = FALSE
    /\ heard' = {}
    /\ at' = [w \in Workers |-> "idle"]
    /\ task' = [w \in Workers |-> NoTask]
    /\ decision' = [w \in Workers |-> NoDecision]
    /\ outcome' = [w \in Workers |-> "none"]
    /\ UNCHANGED <<tool, overlapped, figures, payable, marks, effects, drafts,
                   checkpoint, begun, leaves>>

\* Other sales move the lots, the panel edits a product or collects a sale.
OthersWrite(t) ==
    /\ \E f \in FiguresOf(t) : figures' = [figures EXCEPT ![t] = f]
    /\ payable' = payable \ {t}
    /\ UNCHANGED <<tool, overlapped, marks, claimedBy, effects, drafts, checkpoint,
                   running, begun, workers, heard, bounds>>

Next ==
    \/ SendMessage
    \/ \E t \in Tasks, d \in Decision : Answer(t, d)
    \/ EndRun \/ Disconnect
    \/ \E w \in Workers : Work(w)
    \/ \E t \in Tasks : OthersWrite(t)
    \/ Crash

Spec == Init /\ [][Next]_vars

----------------------------------------------------------------------------

\* The mark and the write stay together or not at all, whatever crashes, is
\* refused or is undone: also for a purchase, which commits twice and whose
\* mark goes with the second commit (write.py:737), not with the first as
\* idempotency.py:59 has it.
MarkedIffWritten == \A t \in Tasks : t \in marks <=> effects[t] > 0

\* A task writes twice only if two workers ran it at once: a body that runs
\* again after a crash, a disconnection or an error of a sibling does not.
OneWriteUnlessOverlapped == \A t \in Tasks : effects[t] > 1 => t \in overlapped

\* What the conversation is told is what happened, also when the answer of
\* an earlier run was lost.
AnswersAreTrue ==
    \A t \in Tasks :
        /\ result[t] \in {"registered", "already"} => effects[t] > 0
        /\ result[t] \in {"cancelled", "recalculated", "paid"} =>
              effects[t] = 0 \/ t \in overlapped

\* The workers between the two transactions of registrar_compra.
HoldingDraft(t) ==
    {w \in Workers : /\ task[w] = t
                     /\ tool[t] = "purchase"
                     /\ at[w] \in {"claim", "write", "clean"}}

\* Short of a crash or a failed clean-up, a purchase leaves no draft behind.
NoOrphanDraft ==
    losses = 0 => \A t \in Tasks : drafts[t] = Cardinality(HoldingDraft(t))

\* A task writes once.
OneWritePerTask == \A t \in Tasks : effects[t] <= 1
=============================================================================
