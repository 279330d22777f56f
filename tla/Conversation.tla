---------------------------- MODULE Conversation ----------------------------
(***************************************************************************)
(* One conversation with the agent: its row, its checkpoint, the registry  *)
(* of runs and the requests of /agent/stream and /agent/threads about it.  *)
(*                                                                         *)
(* A request awaits four times before its run begins: the row, the         *)
(* checkpoint, the title and the first chunk of the response.  Between two *)
(* of those awaits any other request takes its own steps.  The run is      *)
(* LangGraph's: the model answers, or asks for tools, whose tasks run at   *)
(* once and each leave a result or a card in the checkpoint.  What a write *)
(* tool does inside its task is the module AgentWrites.                    *)
(***************************************************************************)
EXTENDS Integers

CONSTANTS
    Requests,
    NoRow,      \* the title of a conversation that was deleted
    MaxCalls    \* bound on the tool calls the model asks for

ASSUME ConversationAssumption ==
    /\ NoRow \notin {"default", "message", "person"}
    /\ MaxCalls \in Nat

VARIABLES
    title,        \* of the row: the default, a message's or a person's
    available,    \* whether the lifespan could build the graph
    next,         \* what the checkpoint says comes next
    status,       \* in the checkpoint: the tasks of the step, if any
    orphans,      \* calls of saved messages of the model never to be answered
    asked,        \* the tool calls so far; a card is named by its call
    reserved,     \* whether the thread is in _hilos_en_curso
    pc, req,      \* the next step of each request, and its body
    loaded,       \* the title each request loaded
    working,      \* the tasks the run executes
    interrupted,  \* interrumpido
    closing,      \* the closing event of the last run, or none
    cutShort      \* history: the calls of a step some run left half way

checkpoint == <<next, status, orphans, asked>>
requests == <<pc, req, loaded>>
run == <<working, interrupted, closing>>
vars == <<title, available, checkpoint, reserved, requests, run, cutShort>>

----------------------------------------------------------------------------

Calls == 1..MaxCalls
NoCard == 0

\* A task that ended is one that had a card or one that needed none.
Statuses == {"todo", "card", "answered", "returned"}
Ended(c) == status[c] \in {"answered", "returned"}
Tasks == DOMAIN status

\* A body, as it came: an interrupt_id that was never one of this thread, or
\* is none at all, is NoCard.
Bodies == [kind : {"message", "neither"}] \cup
          [kind : {"decision"}, card : Calls \cup {NoCard}]

\* A task that ended never works again.
TypeOK ==
    /\ title \in {"default", "message", "person", NoRow}
    /\ available \in BOOLEAN
    /\ next \in {"end", "model", "tools"}
    /\ Tasks \subseteq Calls /\ status \in [Tasks -> Statuses]
    /\ Tasks # {} <=> next = "tools"
    /\ orphans \subseteq Calls
    /\ asked \in 0..MaxCalls
    /\ reserved \in BOOLEAN
    /\ pc \in [Requests -> {"idle", "received", "reserved", "checked", "ready", "running"}]
    /\ req \in [Requests -> Bodies]
    /\ loaded \in [Requests -> {"default", "message", "person", NoRow}]
    /\ working \subseteq {c \in Tasks : ~Ended(c)}
    /\ interrupted \in BOOLEAN
    /\ closing \in {"none", "complete", "paused", "error"}
    /\ cutShort \subseteq Calls

NoBody == [kind |-> "neither"]

Init ==
    /\ title \in {"default", "person"}
    /\ available \in BOOLEAN
    /\ next = "end" /\ status = [c \in {} |-> "todo"] /\ orphans = {} /\ asked = 0
    /\ reserved = FALSE
    /\ pc = [r \in Requests |-> "idle"]
    /\ req = [r \in Requests |-> NoBody]
    /\ loaded = [r \in Requests |-> NoRow]
    /\ working = {} /\ interrupted = FALSE /\ closing = "none"
    /\ cutShort = {}

----------------------------------------------------------------------------
(* The row of the thread. *)

RenameThread ==
    /\ title # NoRow
    /\ title' = "person"
    /\ UNCHANGED <<available, checkpoint, reserved, requests, run, cutShort>>

\* Only the row: neither the checkpoint nor a run under way.
DeleteThread ==
    /\ title # NoRow
    /\ title' = NoRow
    /\ UNCHANGED <<available, checkpoint, reserved, requests, run, cutShort>>

----------------------------------------------------------------------------
(* What the checkpoint tells of its cards. *)

\* Mutant of Pending: snapshot.interrupts keeps the cards already answered.
EveryCard == {c \in Tasks : status[c] \in {"card", "answered"}}
\* _pausas_pendientes: the cards of the tasks without a result.
Pending == {c \in Tasks : status[c] = "card"}

\* What a refresh of the panel shows: the same rule, written twice.
ConfirmacionesPendientes == {c \in Tasks : ~Ended(c) /\ status[c] # "todo"}

----------------------------------------------------------------------------
(* A request, until its run begins. *)

Goto(r, l) == pc' = [pc EXCEPT ![r] = l]

\* Mutant of Released: a finally in the generator, which may never start.
ByTheGenerator(r) == reserved /\ pc[r] # "running"
\* The callback of the asyncio task that serves the request.
Released(r) == reserved /\ pc[r] \notin {"reserved", "checked", "ready", "running"}

\* The task of the request ends: an answer, an error or a cancellation.
Finish(r) ==
    /\ reserved' = Released(r)
    /\ Goto(r, "idle")
    /\ req' = [req EXCEPT ![r] = NoBody]
    /\ loaded' = [loaded EXCEPT ![r] = NoRow]

\* get_owned; 404 without the row.  A panel knows the cards it was shown.
Receive(r) ==
    /\ pc[r] = "idle"
    /\ title # NoRow
    /\ \E b \in Bodies :
          /\ b.kind = "decision" => b.card \in EveryCard \cup {NoCard}
          /\ req' = [req EXCEPT ![r] = b]
    /\ loaded' = [loaded EXCEPT ![r] = title]
    /\ Goto(r, "received")
    /\ UNCHANGED <<title, available, checkpoint, reserved, run, cutShort>>

\* Mutant of Reserve: the registry is written and nobody reads it.
AddOnly(r) ==
    /\ pc[r] = "received"
    /\ available
    /\ reserved' = TRUE
    /\ Goto(r, "reserved")
    /\ UNCHANGED <<title, available, checkpoint, req, loaded, run, cutShort>>

\* The check and the reservation, with no await in between.
Reserve(r) ==
    /\ pc[r] = "received"
    /\ available /\ ~reserved
    /\ reserved' = TRUE
    /\ Goto(r, "reserved")
    /\ UNCHANGED <<title, available, checkpoint, req, loaded, run, cutShort>>

\* 503 without a graph, 409 with a run under way.
Refuse(r) ==
    /\ pc[r] = "received"
    /\ ~available \/ reserved
    /\ Finish(r)
    /\ UNCHANGED <<title, available, checkpoint, run, cutShort>>

\* Mutant of Valid: a message is taken whatever waits.
AnyMessage(b) == b.kind = "message" \/ (b.kind = "decision" /\ b.card \in Pending)
\* A message with no card open; a decision on a card that is.
Valid(b) ==
    \/ b.kind = "message" /\ Pending = {}
    \/ b.kind = "decision" /\ b.card \in Pending

\* One read of the checkpoint; 422 and 409.
Check(r) ==
    /\ pc[r] = "reserved"
    /\ IF Valid(req[r]) THEN Goto(r, "checked") /\ UNCHANGED <<reserved, req, loaded>>
                        ELSE Finish(r)
    /\ UNCHANGED <<title, available, checkpoint, run, cutShort>>

\* The title of the first message.  The session still holds the row it
\* loaded: it does not see what a person called it since, and the UPDATE of
\* a row deleted since is an error.
Name(r) ==
    /\ pc[r] = "checked"
    /\ IF req[r].kind = "message" /\ loaded[r] = "default"
         THEN /\ title # NoRow
              /\ title' = "message"
         ELSE UNCHANGED title
    /\ Goto(r, "ready")
    /\ UNCHANGED <<available, checkpoint, reserved, req, loaded, run, cutShort>>

\* A database that fails, or the row that was deleted: a 500.
Fail(r) ==
    /\ pc[r] \in {"received", "reserved", "checked"}
    /\ Finish(r)
    /\ UNCHANGED <<title, available, checkpoint, run, cutShort>>

----------------------------------------------------------------------------
(* The run. *)

NoTasks == [c \in {} |-> "todo"]

\* Mutant of Rerun: version="v1", where the calls of a message are one task.
WholeStep == Tasks
\* A resumed step runs again the tasks without a result, and no other.
Rerun == {c \in Tasks : ~Ended(c)}

\* The first chunk is asked for.  A message starts over from the model and
\* discards the tasks of a step that did not end, with the results they
\* had; a decision runs again every task without a result.
Start(r) ==
    /\ pc[r] = "ready"
    /\ Goto(r, "running")
    /\ IF req[r].kind = "message"
         THEN /\ orphans' = orphans \cup Tasks
              /\ next' = "model" /\ status' = NoTasks /\ working' = {}
         ELSE /\ working' = Rerun
              /\ UNCHANGED <<next, status, orphans>>
    /\ interrupted' = FALSE
    /\ closing' = "none"
    /\ UNCHANGED <<title, available, asked, reserved, req, loaded, cutShort>>

\* The conversation is validated before every call of the model.
ValidHistory == orphans = {}

\* The answer is checkpointed, with the tools it asks for.
ModelAnswers(r) ==
    /\ pc[r] = "running" /\ next = "model" /\ ValidHistory
    /\ next' = "end"
    /\ UNCHANGED <<title, available, status, orphans, asked, reserved, requests, run,
                   cutShort>>

ModelAsks(r) ==
    /\ pc[r] = "running" /\ next = "model" /\ ValidHistory
    /\ \E n \in 1..2 :
          /\ asked + n <= MaxCalls
          /\ asked' = asked + n
          /\ status' = [c \in asked + 1 .. asked + n |-> "todo"]
          /\ working' = asked + 1 .. asked + n
    /\ next' = "tools"
    /\ UNCHANGED <<title, available, orphans, reserved, requests, interrupted, closing,
                   cutShort>>

\* Mutant of AfterUpdate: the flag follows the last chunk.
LastChunk == FALSE
\* An update of a task leaves interrumpido as it was.
AfterUpdate == interrupted

\* A task ends: a read, or a write with its decision or nothing to ask.
ToolReturns(r, c) ==
    /\ pc[r] = "running" /\ c \in working
    /\ status' = [status EXCEPT ![c] = IF @ = "card" THEN "answered" ELSE "returned"]
    /\ working' = working \ {c}
    /\ interrupted' = AfterUpdate
    /\ UNCHANGED <<title, available, next, orphans, asked, reserved, requests, closing,
                   cutShort>>

\* The event confirmacion.
ToolPauses(r, c) ==
    /\ pc[r] = "running" /\ c \in working
    /\ status' = [status EXCEPT ![c] = "card"]
    /\ working' = working \ {c}
    /\ interrupted' = TRUE
    /\ UNCHANGED <<title, available, next, orphans, asked, reserved, requests, closing,
                   cutShort>>

\* Every task has its result: their messages go into the conversation.
StepEnds(r) ==
    /\ pc[r] = "running" /\ next = "tools"
    /\ \A c \in Tasks : Ended(c)
    /\ next' = "model" /\ status' = NoTasks
    /\ UNCHANGED <<title, available, orphans, asked, reserved, requests, run, cutShort>>

\* Nothing is left to do without a person: the event fin.
Close(r) ==
    /\ pc[r] = "running" /\ working = {}
    /\ next = "end" \/ (next = "tools" /\ \E c \in Tasks : ~Ended(c))
    /\ closing' = IF interrupted THEN "paused" ELSE "complete"
    /\ interrupted' = FALSE
    /\ Finish(r)
    /\ UNCHANGED <<title, available, checkpoint, working, cutShort>>

\* The run ends half way: with no card saved, its calls have no way on.
Cut ==
    /\ working' = {}
    /\ interrupted' = FALSE
    /\ cutShort' = IF Pending = {} THEN cutShort \cup Tasks ELSE cutShort

\* The model or a tool raises, or the conversation is not valid: the event
\* error.
Raise(r) ==
    /\ pc[r] = "running"
    /\ next = "model" \/ working # {}
    /\ Cut
    /\ closing' = "error"
    /\ Finish(r)
    /\ UNCHANGED <<title, available, checkpoint>>

\* The client is gone: the request is cancelled, with no event.  Its
\* response may not have started.
Leave(r) ==
    /\ pc[r] \in {"ready", "running"}
    /\ IF pc[r] = "running" THEN Cut ELSE UNCHANGED <<working, interrupted, cutShort>>
    /\ Finish(r)
    /\ UNCHANGED <<title, available, checkpoint, closing>>

\* The process starts again, with the graph or without it.
Restart ==
    /\ available' \in BOOLEAN
    /\ IF \E r \in Requests : pc[r] = "running"
         THEN Cut ELSE UNCHANGED <<working, interrupted, cutShort>>
    /\ reserved' = FALSE
    /\ pc' = [r \in Requests |-> "idle"]
    /\ req' = [r \in Requests |-> NoBody]
    /\ loaded' = [r \in Requests |-> NoRow]
    /\ UNCHANGED <<title, checkpoint, closing>>

Serve(r) ==
    \/ Receive(r) \/ Reserve(r) \/ Refuse(r) \/ Check(r) \/ Name(r) \/ Fail(r)
    \/ Start(r) \/ ModelAnswers(r) \/ ModelAsks(r)
    \/ (\E c \in working : ToolReturns(r, c) \/ ToolPauses(r, c))
    \/ StepEnds(r) \/ Close(r) \/ Raise(r) \/ Leave(r)

Next ==
    \/ RenameThread \/ DeleteThread
    \/ \E r \in Requests : Serve(r)
    \/ Restart

Spec == Init /\ [][Next]_vars

----------------------------------------------------------------------------
(* Properties. *)

Holding(r) == pc[r] \in {"reserved", "checked", "ready", "running"}

\* One run of a conversation at a time, and no conversation closed for ever:
\* the thread is reserved exactly while a request that reserved it is being
\* served, whatever it ended in and even if its response never started.
RegistryIsExact ==
    /\ reserved <=> \E r \in Requests : Holding(r)
    /\ \A r, s \in Requests : Holding(r) /\ Holding(s) => r = s

\* What the read of the checkpoint allowed is still so when the run begins,
\* two awaits later: no other run opened a card, or answered this one.
CheckStillHolds ==
    \A r \in Requests : pc[r] \in {"checked", "ready"} =>
        /\ working = {}
        /\ req[r].kind = "message" => ~\E c \in Tasks : status[c] = "card"
        /\ req[r].kind = "decision" => req[r].card \in Tasks /\ status[req[r].card] = "card"

\* A message does not destroy the conversation while a person can still
\* answer: calls stay without an answer only if a run was cut, or one of its
\* tools failed, with none of its cards saved.
OnlyACutKills == orphans \subseteq cutShort

\* The closing event is what a refresh of the panel finds: cards to answer
\* after "pausado", and after "completo" none and a conversation that takes
\* the next message.
ClosingEventIsTrue ==
    /\ closing = "paused" => ConfirmacionesPendientes # {}
    /\ closing = "complete" => next = "end" /\ ConfirmacionesPendientes = {} /\ ValidHistory
=============================================================================
