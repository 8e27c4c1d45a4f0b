----------------------------- MODULE Subagents -----------------------------
(***************************************************************************)
(* The workers of one task (core/subagents.py) and the turn of the agent   *)
(* that owns them (core/agent.py): spawning, ownership of paths, tool-call *)
(* budgets, cancellation, the end of the turn, checkpoints, crashes, and   *)
(* the explicit recovery of interrupted workers.                           *)
(*                                                                         *)
(* The turn, each worker's task and a control request are coroutines of    *)
(* one event loop: an action runs from one await to the next.  File tools  *)
(* write in threads, which no cancellation stops.  A tool call, a prompt   *)
(* and a result are left out; a path is a model value.                     *)
(***************************************************************************)
EXTENDS Integers, FiniteSets

CONSTANTS
  Worker,        \* identifiers of workers
  Path,          \* paths that may be owned and written
  MaxConcurrent, \* subagent_max_concurrent
  MaxTotal,      \* subagent_max_total
  MaxCalls,      \* max_tool_calls of every worker
  ClosesStream,  \* the client closes the event stream before it goes on
  Controls,      \* a control request may cancel a worker
  MaxTurn,       \* bound: turns
  MaxStop,       \* bound: turns stopped from outside
  MaxCrash,      \* bound: crashes of the process
  MaxFault,      \* bound: checkpoints that fail
  MaxRequest     \* bound: recovery requests

ASSUME SubagentsAssumption ==
  /\ IsFiniteSet(Worker) /\ ClosesStream \in BOOLEAN /\ Controls \in BOOLEAN
  /\ MaxConcurrent \in Nat \ {0} /\ MaxTotal \in Nat \ {0} /\ MaxCalls \in Nat \ {0}
  /\ MaxTurn \in Nat /\ MaxStop \in Nat /\ MaxCrash \in Nat
  /\ MaxFault \in Nat /\ MaxRequest \in Nat

VARIABLES
  status,     \* SubagentState.status; "none": no such worker
  owns,       \* write_paths; a read-only worker owns nothing
  calls,      \* tool_calls
  task,       \* where the worker's task stands; "none": no task, or done
  thread,     \* the paths a write of the worker is changing
  session,    \* parent.session.subagents
  pending,    \* parent.session.pending_subagent_resumes
  saved, savedPending,  \* both, in the last checkpoint
  turn,       \* where the parent's turn stands
  op,         \* what the turn is starting, watching or closing
  requests,   \* the requests resume_pending has taken and not answered
  started,    \* _spawn_count
  interrupted,\* the turn ends by cancellation or by closing its stream
  parent,     \* the paths a write of the parent is changing
  joining,    \* the cancel() in progress of the turn and of control requests
  client,     \* the client is "reading" events, has "left", or is "over"
  budget,     \* what is left of the bounds
  ran, dropped, asked  \* history: tools run; workers cancelled on request; recoveries accepted

workerVars  == <<status, owns, calls, task, thread>>
storeVars   == <<session, pending, saved, savedPending>>
turnVars    == <<turn, op, requests, started, interrupted, parent, client>>
historyVars == <<ran, dropped, asked>>
vars == <<workerVars, storeVars, turnVars, joining, budget, historyVars>>

ActiveState  == {"running", "blocked"}
SettledState == {"done", "failed", "cancelled"}
Status       == ActiveState \cup SettledState \cup {"none", "interrupted"}
Active       == {w \in Worker : status[w] \in ActiveState}

Canceller == {"turn", "control"}
Idle      == [pc |-> "none", ws |-> {}]
NoOp      == [kind |-> "none", ws |-> {}]

Bound == [b \in {"turn", "stop", "crash", "fault", "request"} |->
            CASE b = "turn" -> MaxTurn [] b = "stop" -> MaxStop [] b = "crash" -> MaxCrash
              [] b = "fault" -> MaxFault [] b = "request" -> MaxRequest]
Spend(b) == budget[b] > 0 /\ budget' = [budget EXCEPT ![b] = @ - 1]

-----------------------------------------------------------------------------
(* Checkpoints.  _persist copies the workers into the session and awaits   *)
(* the checkpoint, which saves the session as it is then.                   *)

Snapshot(s, c) == [w \in Worker |-> [status |-> s[w], calls |-> c[w]]]

SaveStates == session' = Snapshot(status', calls)

Checkpoint == saved' = session /\ savedPending' = pending

Unsaved == UNCHANGED <<saved, savedPending>>

Init ==
  /\ status = [w \in Worker |-> "none"] /\ owns = [w \in Worker |-> {}]
  /\ calls = [w \in Worker |-> 0] /\ task = [w \in Worker |-> "none"]
  /\ thread = [w \in Worker |-> {}]
  /\ session = Snapshot(status, calls) /\ saved = session
  /\ pending = {} /\ savedPending = {}
  /\ turn = "idle" /\ op = NoOp /\ requests = {} /\ started = 0
  /\ interrupted = FALSE /\ parent = {} /\ client = "over"
  /\ joining = [c \in Canceller |-> Idle]
  /\ budget = Bound
  /\ ran = [w \in Worker |-> 0] /\ dropped = {} /\ asked = {}

Set(f, ws, v) == [w \in Worker |-> IF w \in ws THEN v ELSE f[w]]

-----------------------------------------------------------------------------
(* Admission: _check_batch, _check_available.                              *)

(* Mutant: the batch is checked against active workers, not against itself. *)
FitsAlone(ws, o) ==
  /\ started + Cardinality(ws) <= MaxTotal
  /\ Cardinality(Active) + Cardinality(ws) <= MaxConcurrent
  /\ \A w \in ws : \A v \in Active : o[w] \cap o[v] = {}

Fits(ws, o) ==
  /\ started + Cardinality(ws) <= MaxTotal
  /\ Cardinality(Active) + Cardinality(ws) <= MaxConcurrent
  /\ \A w \in ws : \A v \in Active \cup (ws \ {w}) : o[w] \cap o[v] = {}

(* Mutant: every saved worker may be resumed. *)
RestoreAll(s) == IF s = "none" THEN s ELSE "interrupted"

(* SubagentState.restore: a worker that was active is interrupted. *)
Restore(s) == IF s \in ActiveState THEN "interrupted" ELSE s

(* _restore: a new manager has the workers of the session it is given. *)
RestoreFrom(workers) ==
  /\ status' = [w \in Worker |-> Restore(workers[w].status)]
  /\ calls' = [w \in Worker |-> workers[w].calls]
  /\ owns' = [w \in Worker |-> IF workers[w].status = "none" THEN {} ELSE owns[w]]
  /\ session' = Snapshot(status', calls')
  /\ dropped' = {w \in dropped : status'[w] # "interrupted"}

(* The parent's turn starts: begin_turn, then resume_pending and the loop. *)
(* The TUI keeps its agent; the daemon makes one for each turn, with the   *)
(* session of the last turn or, when the run is continued, the saved one.   *)
BeginTurn ==
  /\ turn = "idle" /\ client = "over" /\ Spend("turn")
  /\ turn' = "open" /\ started' = 0 /\ interrupted' = FALSE /\ client' = "reading"
  /\ \/ UNCHANGED <<status, owns, calls, session, pending, dropped>>
     \/ /\ \A c \in Canceller : joining[c] = Idle
        /\ \/ RestoreFrom(session) /\ UNCHANGED pending
           \/ RestoreFrom(saved) /\ pending' = savedPending
  /\ Unsaved /\ UNCHANGED <<task, thread, op, requests, parent, joining, ran, asked>>

(* Identifiers are never used twice. *)
Unused == {w \in Worker : status[w] = "none" /\ saved[w].status = "none" /\ w \notin dropped}

(* The spawn tool, or a batch from the orchestration plugin, up to the await *)
(* of _build_child.                                                        *)
Spawn ==
  \E ws \in SUBSET Unused, kind \in {"spawn", "batch"} :
    \E grant \in [ws -> SUBSET Path] :
      /\ turn = "open" /\ ws # {} /\ (kind = "spawn" => Cardinality(ws) = 1)
      /\ owns' = [w \in Worker |-> IF w \in ws THEN grant[w] ELSE owns[w]]
      /\ Fits(ws, owns')
      /\ turn' = "build" /\ op' = [kind |-> kind, ws |-> ws]
      /\ UNCHANGED <<status, calls, task, thread, storeVars, requests, started, interrupted,
                     parent, client, joining, budget, historyVars>>

(* resume(): its checks before _build_child. *)
Resumable(w) ==
  /\ status[w] = "interrupted" /\ calls[w] < MaxCalls /\ Fits({w}, owns)

(* The resume tool. *)
Resume(w) ==
  /\ turn = "open" /\ Resumable(w)
  /\ turn' = "build" /\ op' = [kind |-> "resume", ws |-> {w}]
  /\ UNCHANGED <<workerVars, storeVars, requests, started, interrupted, parent, client,
                 joining, budget, historyVars>>

(* A recovery request has its result, unless the worker was asked for again. *)
AnswerRequest(ws) == requests' = requests \ ws /\ asked' = asked \ (ws \ pending)

(* The turn after a refused or failed start.  A refusal of resume_pending is *)
(* a result among others, any other error of it ends the turn.              *)
Refuse ==
  IF op.kind = "recover" THEN AnswerRequest(op.ws) /\ turn' = "next"
                         ELSE turn' = "open" /\ UNCHANGED <<requests, asked>>

Break ==
  IF op.kind = "recover"
    THEN requests' = {} /\ asked' = asked \ (op.ws \ pending) /\ turn' = "ending"
    ELSE turn' = "open" /\ UNCHANGED <<requests, asked>>

Fresh == op.kind \in {"spawn", "batch"}

Forget == owns' = IF Fresh THEN Set(owns, op.ws, {}) ELSE owns

(* _build_child is over: workers are registered and counted, and their    *)
(* start is being saved.                                                   *)
Register ==
  /\ turn = "build"
  /\ IF Fresh THEN Fits(op.ws, owns) ELSE \A w \in op.ws : status[w] = "interrupted"
  /\ status' = Set(status, op.ws, "running") /\ started' = started + Cardinality(op.ws)
  /\ turn' = "save" /\ SaveStates
  /\ UNCHANGED <<owns, calls, task, thread, pending, saved, savedPending, op, requests,
                 interrupted, parent, client, joining, budget, historyVars>>

(* The provider cannot be built, or the second check refuses. *)
BuildFails ==
  /\ turn = "build" /\ (Refuse \/ Break) /\ Forget /\ op' = NoOp
  /\ UNCHANGED <<status, calls, task, thread, storeVars, started, interrupted, parent, client,
                 joining, budget, ran, dropped>>

(* spawn_batch takes its workers back. *)
Rollback ==
  /\ status' = Set(status, op.ws, "none") /\ owns' = Set(owns, op.ws, {})
  /\ started' = started - Cardinality(op.ws)
  /\ SaveStates

(* _start gives up before the worker's task exists. *)
GiveUp ==
  /\ status' = [w \in Worker |-> IF w \in op.ws /\ status[w] = "running"
                                 THEN "interrupted" ELSE status[w]]
  /\ SaveStates /\ UNCHANGED <<owns, started>>

Withdraw == IF op.kind = "batch" THEN Rollback ELSE GiveUp

(* Mutant: the worker runs although it was cancelled while its start was saved. *)
LaunchUnchecked ==
  /\ turn = "save" /\ Checkpoint
  /\ task' = Set(task, op.ws, "think") /\ status' = Set(status, op.ws, "running")
  /\ turn' = IF op.kind = "recover" THEN "watch" ELSE "open"
  /\ op' = IF op.kind = "recover" THEN op ELSE NoOp
  /\ UNCHANGED <<owns, calls, thread, session, pending, requests, started, interrupted, parent,
                 client, joining, budget, historyVars>>

(* The start is saved and no worker of it was cancelled meanwhile: it runs, *)
(* and resume_pending watches it.                                           *)
Launch ==
  /\ turn = "save" /\ \A w \in op.ws : status[w] = "running"
  /\ Checkpoint
  /\ task' = Set(task, op.ws, "think")
  /\ IF op.kind = "recover" THEN turn' = "watch" /\ asked' = asked \ (op.ws \ pending) /\ UNCHANGED op
                            ELSE turn' = "open" /\ op' = NoOp /\ UNCHANGED asked
  /\ UNCHANGED <<status, owns, calls, thread, session, pending, requests, started, interrupted,
                 parent, client, joining, budget, ran, dropped>>

(* The start is saved, but a worker of it was cancelled meanwhile. *)
LaunchRefused ==
  /\ turn = "save" /\ \E w \in op.ws : status[w] # "running"
  /\ Checkpoint /\ Withdraw /\ Refuse /\ op' = NoOp
  /\ UNCHANGED <<calls, task, thread, pending, interrupted, parent, client, joining, budget,
                 ran, dropped>>

(* The start cannot be saved. *)
LaunchFails ==
  /\ turn = "save" /\ Spend("fault")
  /\ Unsaved /\ Withdraw /\ Break /\ op' = NoOp
  /\ UNCHANGED <<calls, task, thread, pending, interrupted, parent, client, joining, ran, dropped>>

-----------------------------------------------------------------------------
(* Explicit recovery: request_subagent_resume, resume_pending.              *)

(* A client asks for a saved worker: the request is in the saved session   *)
(* when the client gets its answer.                                         *)
RequestResume(w) ==
  /\ Spend("request") /\ w \notin pending
  /\ status[w] \notin ActiveState
  /\ session[w].status \notin {"none", "done"} /\ session[w].calls < MaxCalls
  /\ pending' = pending \cup {w} /\ asked' = asked \cup {w}
  /\ saved' = session /\ savedPending' = pending'
  /\ UNCHANGED <<workerVars, session, turnVars, joining, ran, dropped>>

(* At a boundary of the turn the requests are taken out of the session. *)
TakeRequests ==
  /\ turn = "open" /\ pending # {}
  /\ requests' = pending /\ pending' = {} /\ turn' = "taken"
  /\ session' = Snapshot(status, calls)
  /\ UNCHANGED <<workerVars, saved, savedPending, op, started, interrupted, parent, client,
                 joining, budget, historyVars>>

RequestsTaken ==
  /\ turn = "taken"
  /\ \/ Checkpoint /\ turn' = "next" /\ UNCHANGED <<requests, budget>>
     \/ Spend("fault") /\ turn' = "ending" /\ requests' = {} /\ Unsaved
  /\ UNCHANGED <<workerVars, session, pending, op, started, interrupted, parent, client, joining,
                 historyVars>>

(* One request after the other (in any order here). *)
Recover(w) ==
  /\ turn = "next" /\ w \in requests
  /\ IF Resumable(w)
       THEN /\ turn' = "build" /\ op' = [kind |-> "recover", ws |-> {w}]
            /\ UNCHANGED <<requests, asked>>
       ELSE AnswerRequest({w}) /\ UNCHANGED <<turn, op>>
  /\ UNCHANGED <<workerVars, storeVars, started, interrupted, parent, client, joining, budget,
                 ran, dropped>>

(* The turn passes a recovered worker's events on until its task is over. *)
Recovered ==
  /\ turn = "watch" /\ \A w \in op.ws : task[w] = "none"
  /\ turn' = "next" /\ requests' = requests \ op.ws /\ op' = NoOp
  /\ UNCHANGED <<workerVars, storeVars, started, interrupted, parent, client, joining, budget,
                 historyVars>>

(* All results go to the parent as one message. *)
Report ==
  /\ turn = "next" /\ requests = {}
  /\ turn' = "report" /\ session' = Snapshot(status, calls)
  /\ UNCHANGED <<workerVars, pending, saved, savedPending, op, requests, started, interrupted,
                 parent, client, joining, budget, historyVars>>

Reported ==
  /\ turn = "report"
  /\ \/ Checkpoint /\ turn' = "open" /\ UNCHANGED budget
     \/ Spend("fault") /\ Unsaved /\ turn' = "ending"
  /\ UNCHANGED <<workerVars, session, pending, op, requests, started, interrupted, parent, client,
                 joining, historyVars>>

-----------------------------------------------------------------------------
(* The parent's own writes: ownership_error, then a shielded write.         *)

ParentWrite ==
  /\ turn = "open"
  /\ \E ps \in SUBSET Path \ {{}} :
       (\A w \in Active : owns[w] \cap ps = {}) /\ parent' = ps
  /\ turn' = "write"
  /\ UNCHANGED <<workerVars, storeVars, op, requests, started, interrupted, client, joining,
                 budget, historyVars>>

ParentWritten ==
  /\ turn \in {"write", "drain"} /\ parent' = {}
  /\ turn' = IF turn = "write" THEN "open" ELSE "ending"
  /\ UNCHANGED <<workerVars, storeVars, op, requests, started, interrupted, client, joining,
                 budget, historyVars>>

-----------------------------------------------------------------------------
(* A worker's task: _run around the child agent.                            *)

WorkerStep == UNCHANGED <<owns, pending, turnVars, joining, dropped, asked>>

(* The child asks for a tool: counted and saved before anything runs. *)
Call(w) ==
  /\ task[w] = "think"
  /\ status' = [status EXCEPT ![w] = "running"] /\ calls' = [calls EXCEPT ![w] = @ + 1]
  /\ task' = [task EXCEPT ![w] = "count"] /\ session' = Snapshot(status', calls')
  /\ UNCHANGED <<thread, saved, savedPending, budget, ran>> /\ WorkerStep

(* Mutant: the tool runs before its call is saved. *)
CountedUnsaved(w) ==
  /\ task[w] = "count" /\ Unsaved
  /\ task' = [task EXCEPT ![w] = IF calls[w] <= MaxCalls THEN "act" ELSE "end"]
  /\ status' = [status EXCEPT ![w] = IF calls[w] <= MaxCalls THEN @ ELSE "failed"]
  /\ UNCHANGED <<calls, thread, session, budget, ran>> /\ WorkerStep

(* The child fails at the first call beyond its budget. *)
Counted(w) ==
  /\ task[w] = "count"
  /\ \/ /\ calls[w] <= MaxCalls /\ Checkpoint
        /\ task' = [task EXCEPT ![w] = "act"] /\ UNCHANGED <<status, budget>>
     \/ /\ calls[w] > MaxCalls /\ Checkpoint
        /\ task' = [task EXCEPT ![w] = "end"] /\ status' = [status EXCEPT ![w] = "failed"]
        /\ UNCHANGED budget
     \/ /\ Spend("fault") /\ Unsaved
        /\ task' = [task EXCEPT ![w] = "end"] /\ status' = [status EXCEPT ![w] = "failed"]
  /\ UNCHANGED <<calls, thread, session, ran>> /\ WorkerStep

(* The tool needs a permission, or asks the user. *)
Ask(w) ==
  /\ task[w] = "act"
  /\ status' = [status EXCEPT ![w] = "blocked"] /\ task' = [task EXCEPT ![w] = "block"]
  /\ SaveStates
  /\ UNCHANGED <<calls, thread, saved, savedPending, budget, ran>> /\ WorkerStep

Asked(w) ==
  /\ task[w] = "block"
  /\ \/ Checkpoint /\ task' = [task EXCEPT ![w] = "ask"] /\ UNCHANGED <<status, budget>>
     \/ /\ Spend("fault") /\ Unsaved
        /\ task' = [task EXCEPT ![w] = "end"] /\ status' = [status EXCEPT ![w] = "failed"]
  /\ UNCHANGED <<calls, thread, session, ran>> /\ WorkerStep

(* The permission is denied; the worker stays "blocked" until its next call. *)
Denied(w) ==
  /\ task[w] = "ask" /\ task' = [task EXCEPT ![w] = "think"]
  /\ UNCHANGED <<status, calls, thread, session, saved, savedPending, budget, ran>> /\ WorkerStep

(* The tool runs, if need be with its permission: a file tool writes inside *)
(* the owned paths; a worker that owns none reads.                          *)
Run(w) ==
  /\ task[w] \in {"act", "ask"}
  /\ ran' = [ran EXCEPT ![w] = @ + 1]
  /\ \/ /\ \E ps \in SUBSET owns[w] \ {{}} : thread' = [thread EXCEPT ![w] = ps]
        /\ task' = [task EXCEPT ![w] = "write"]
     \/ owns[w] = {} /\ task' = [task EXCEPT ![w] = "think"] /\ UNCHANGED thread
  /\ UNCHANGED <<status, calls, session, saved, savedPending, budget>> /\ WorkerStep

(* The thread is done: the tool returns, or the cancellation it held up goes on. *)
Written(w) ==
  /\ thread[w] # {} /\ thread' = [thread EXCEPT ![w] = {}]
  /\ task' = [task EXCEPT ![w] = CASE @ = "write" -> "think" [] @ = "drain" -> "end" [] OTHER -> @]
  /\ UNCHANGED <<status, calls, session, saved, savedPending, budget, ran>> /\ WorkerStep

(* The child is done, or fails. *)
Finish(w) ==
  /\ task[w] = "think"
  /\ \E s \in {"done", "failed"} : status' = [status EXCEPT ![w] = s]
  /\ task' = [task EXCEPT ![w] = "end"]
  /\ UNCHANGED <<calls, thread, session, saved, savedPending, budget, ran>> /\ WorkerStep

(* The heartbeat of an active worker saves all workers once a second. *)
Heartbeat(w) ==
  /\ task[w] # "none" /\ status[w] \in ActiveState
  /\ session' = Snapshot(status, calls) /\ saved' = session' /\ savedPending' = pending
  /\ UNCHANGED <<status, calls, task, thread, budget, ran>> /\ WorkerStep

(* The end of _run saves the worker; if that fails, the worker has failed. *)
End(w) ==
  /\ task[w] = "end" /\ task' = [task EXCEPT ![w] = "none"]
  /\ \/ /\ UNCHANGED <<status, budget>>
        /\ SaveStates /\ saved' = session' /\ savedPending' = pending
     \/ /\ Spend("fault") /\ status' = [status EXCEPT ![w] = "failed"]
        /\ SaveStates /\ Unsaved
  /\ UNCHANGED <<calls, thread, ran>> /\ WorkerStep

-----------------------------------------------------------------------------
(* Cancellation.                                                            *)

(* Mutant: the coroutine of a cancelled write ends at once. *)
CancelTaskUnshielded(pc) == IF pc \in {"none", "end"} THEN "none" ELSE "end"

(* Where a task goes when it is cancelled.  A write in flight is shielded  *)
(* once: a second cancellation ends the coroutine and not the thread.      *)
CancelTask(pc) ==
  CASE pc \in {"none", "end"} -> "none" [] pc = "write" -> "drain" [] OTHER -> "end"

(* cancel(): the status is set before the task is cancelled and joined. *)
CancelWorker(c, w) ==
  /\ status[w] # "none" /\ joining[c].pc = "none"
  /\ pending' = pending \ {w} /\ asked' = asked \ {w}
  /\ IF status[w] \in ActiveState \cup {"interrupted"}
       THEN /\ status' = [status EXCEPT ![w] = "cancelled"]
            /\ task' = [task EXCEPT ![w] = CancelTask(@)]
            /\ joining' = [joining EXCEPT ![c] = [pc |-> "join", ws |-> {w}]]
            /\ dropped' = dropped \cup {w} /\ UNCHANGED session
       ELSE /\ w \in pending /\ joining' = [joining EXCEPT ![c] = [pc |-> "save", ws |-> {w}]]
            /\ session' = Snapshot(status, calls) /\ UNCHANGED <<status, task, dropped>>
  /\ UNCHANGED <<owns, calls, thread, saved, savedPending, requests, started, interrupted,
                 op, parent, client, budget, ran>>

(* The cancel tool of the turn, and a client's request to cancel. *)
TurnCancels(w) == turn = "open" /\ CancelWorker("turn", w) /\ turn' = "cancel"

ControlCancels(w) ==
  Controls /\ turn # "idle" /\ CancelWorker("control", w) /\ UNCHANGED turn

CancelJoined(c) ==
  /\ joining[c].pc = "join" /\ \A w \in joining[c].ws : task[w] = "none"
  /\ joining' = [joining EXCEPT ![c].pc = "save"] /\ session' = Snapshot(status, calls)
  /\ UNCHANGED <<workerVars, pending, saved, savedPending, turnVars, budget, historyVars>>

CancelSaved(c) ==
  /\ joining[c].pc = "save" /\ joining' = [joining EXCEPT ![c] = Idle]
  /\ turn' = IF c = "turn" THEN "open" ELSE turn
  /\ \/ Checkpoint /\ UNCHANGED budget
     \/ Unsaved /\ Spend("fault")
  /\ UNCHANGED <<workerVars, session, pending, op, requests, started, interrupted, parent, client,
                 historyVars>>

-----------------------------------------------------------------------------
(* The end of a turn: _run_local's finally, close().                        *)

(* The client that breaks out of the event stream without closing it goes  *)
(* on at once; the stream is closed by another task.                        *)
Leaves == IF ClosesStream THEN {"reading"} ELSE {"left"}

(* A final answer is given only when no recovery is pending. *)
Answered ==
  /\ turn = "open" /\ pending = {} /\ turn' = "ending"
  /\ UNCHANGED <<workerVars, storeVars, op, requests, started, interrupted, parent, client,
                 joining, budget, historyVars>>

(* The turn yields an error: a client reads the stream to its end, or leaves *)
(* it, which the generator sees as GeneratorExit.                           *)
Errs ==
  /\ turn = "open" /\ turn' = "ending" /\ client' \in Leaves
  /\ interrupted' \in IF ClosesStream THEN BOOLEAN ELSE {TRUE}
  /\ UNCHANGED <<workerVars, storeVars, op, requests, started, parent, joining, budget,
                 historyVars>>

(* The run is cancelled: whatever the turn awaits raises CancelledError; a *)
(* checkpoint it awaits may be written all the same.  The client is in the *)
(* stream, or handling one of its events.                                   *)
Stop ==
  /\ turn \notin {"idle", "drain", "ending", "closing", "final"} /\ Spend("stop")
  /\ interrupted' = TRUE /\ client' \in {"reading"} \cup Leaves
  /\ turn' = IF turn = "write" THEN "drain" ELSE "ending"
  /\ requests' = {} /\ op' = NoOp
  /\ Unsaved \/ (turn \in {"save", "taken", "report"} /\ Checkpoint)
  /\ \/ turn = "save" /\ Withdraw /\ UNCHANGED <<task, joining>>
     \/ turn = "build" /\ Forget /\ UNCHANGED <<status, task, session, started, joining>>
     \/ /\ turn = "cancel"
        /\ task' = IF joining["turn"].pc = "join"
                     THEN [w \in Worker |-> IF w \in joining["turn"].ws THEN CancelTask(task[w]) ELSE task[w]]
                     ELSE task
        /\ joining' = [joining EXCEPT !["turn"] = Idle]
        /\ UNCHANGED <<status, owns, session, started>>
     \/ /\ turn \notin {"save", "build", "cancel"}
        /\ UNCHANGED <<status, owns, task, session, started, joining>>
  /\ UNCHANGED <<calls, thread, pending, parent, historyVars>>

(* Mutant: blocked workers are left alone. *)
CloseRunning ==
  /\ turn = "ending" /\ turn' = "closing"
  /\ LET ws == {w \in Worker : status[w] = "running"} IN
       /\ op' = [kind |-> "close", ws |-> ws]
       /\ status' = Set(status, ws, IF interrupted THEN "interrupted" ELSE "cancelled")
       /\ task' = [w \in Worker |-> IF w \in ws THEN CancelTask(task[w]) ELSE task[w]]
  /\ UNCHANGED <<owns, calls, thread, storeVars, requests, started, interrupted, parent, client,
                 joining, budget, historyVars>>

(* close(): active workers are interrupted or cancelled, then all joined. *)
Close ==
  /\ turn = "ending" /\ turn' = "closing"
  /\ op' = [kind |-> "close", ws |-> Active]
  /\ status' = Set(status, Active, IF interrupted THEN "interrupted" ELSE "cancelled")
  /\ task' = [w \in Worker |-> IF w \in Active THEN CancelTask(task[w]) ELSE task[w]]
  /\ UNCHANGED <<owns, calls, thread, storeVars, requests, started, interrupted, parent, client,
                 joining, budget, historyVars>>

(* Mutant: the workers are not joined. *)
ClosedUnjoined ==
  /\ turn = "closing"
  /\ turn' = "final" /\ session' = IF op.ws = {} THEN session ELSE Snapshot(status, calls)
  /\ UNCHANGED <<workerVars, pending, saved, savedPending, op, requests, started, interrupted,
                 parent, client, joining, budget, historyVars>>

Closed ==
  /\ turn = "closing" /\ \A w \in Worker : task[w] = "none"
  /\ turn' = "final" /\ session' = IF op.ws = {} THEN session ELSE Snapshot(status, calls)
  /\ UNCHANGED <<workerVars, pending, saved, savedPending, op, requests, started, interrupted,
                 parent, client, joining, budget, historyVars>>

(* The last checkpoint of the turn. *)
EndTurn ==
  /\ turn = "final" /\ turn' = "idle" /\ op' = NoOp /\ client' = "over"
  /\ \/ Checkpoint /\ UNCHANGED budget
     \/ Unsaved /\ Spend("fault")
  /\ UNCHANGED <<workerVars, session, pending, requests, started, interrupted, parent, joining,
                 historyVars>>

(* The client that left records the end of the run. *)
ClientEnds ==
  /\ client = "left" /\ client' = "over"
  /\ UNCHANGED <<workerVars, storeVars, turn, op, requests, started, interrupted, parent,
                 joining, budget, historyVars>>

(* The process ends; the next agent restores the workers from the session. *)
Crash ==
  /\ Spend("crash")
  /\ RestoreFrom(saved) /\ pending' = savedPending /\ Unsaved
  /\ task' = [w \in Worker |-> "none"] /\ thread' = [w \in Worker |-> {}]
  /\ turn' = "idle" /\ op' = NoOp /\ requests' = {} /\ started' = 0
  /\ interrupted' = FALSE /\ parent' = {} /\ client' = "over"
  /\ joining' = [c \in Canceller |-> Idle]
  /\ UNCHANGED <<ran, asked>>

-----------------------------------------------------------------------------
WorkerNext(w) ==
  Call(w) \/ Counted(w) \/ Ask(w) \/ Asked(w) \/ Denied(w) \/ Run(w) \/ Written(w)
    \/ Finish(w) \/ Heartbeat(w) \/ End(w)

Next ==
  \/ BeginTurn \/ Spawn \/ Register \/ BuildFails \/ Launch \/ LaunchRefused \/ LaunchFails
  \/ TakeRequests \/ RequestsTaken \/ Recovered \/ Report \/ Reported
  \/ ParentWrite \/ ParentWritten
  \/ Answered \/ Errs \/ Stop \/ Close \/ Closed \/ EndTurn \/ ClientEnds \/ Crash
  \/ \E w \in Worker : Resume(w) \/ RequestResume(w) \/ Recover(w)
                         \/ TurnCancels(w) \/ ControlCancels(w) \/ WorkerNext(w)
  \/ \E c \in Canceller : CancelJoined(c) \/ CancelSaved(c)

Spec == Init /\ [][Next]_vars

(* Every coroutine goes on when its await is over, and a thread that writes *)
(* ends.  Models, people and clients may take for ever.                     *)
Progress(w) == Counted(w) \/ Asked(w) \/ Written(w) \/ End(w)

Fairness ==
  /\ \A w \in Worker : WF_vars(Progress(w))
  /\ \A c \in Canceller : WF_vars(CancelJoined(c)) /\ WF_vars(CancelSaved(c))
  /\ WF_vars(ParentWritten \/ Close \/ Closed \/ EndTurn)

FairSpec == Spec /\ Fairness

-----------------------------------------------------------------------------
TypeOK ==
  /\ status \in [Worker -> Status]
  /\ owns \in [Worker -> SUBSET Path] /\ thread \in [Worker -> SUBSET Path]
  /\ calls \in [Worker -> 0..MaxCalls + 1]
  /\ task \in [Worker -> {"none", "think", "count", "act", "block", "ask", "write",
                           "drain", "end"}]
  /\ session \in [Worker -> [status : Status, calls : 0..MaxCalls + 1]]
  /\ saved \in [Worker -> [status : Status, calls : 0..MaxCalls + 1]]
  /\ pending \subseteq Worker /\ savedPending \subseteq Worker
  /\ turn \in {"idle", "open", "build", "save", "taken", "next", "watch", "report", "write",
               "cancel", "drain", "ending", "closing", "final"}
  /\ op \in [kind : {"none", "spawn", "batch", "resume", "recover", "close"}, ws : SUBSET Worker]
  /\ requests \subseteq Worker /\ started \in 0..MaxTotal
  /\ interrupted \in BOOLEAN /\ parent \subseteq Path /\ client \in {"reading", "left", "over"}
  /\ joining \in [Canceller -> [pc : {"none", "join", "save"}, ws : SUBSET Worker]]
  /\ \A b \in DOMAIN budget : budget[b] \in Nat
  /\ ran \in [Worker -> Nat] /\ dropped \subseteq Worker /\ asked \subseteq Worker

(* Active workers own disjoint paths and stay within subagent_max_concurrent, *)
(* although they are admitted before the await of _build_child, in batches, *)
(* by recovery, and again after a crash (_check_batch, _check_available).   *)
AdmissionHolds ==
  /\ \A v, w \in Active : v # w => owns[v] \cap owns[w] = {}
  /\ Cardinality(Active) <= MaxConcurrent

(* No two writes in flight touch the same path, be they the parent's or of *)
(* workers, however a turn ends, except those of workers cancelled on      *)
(* request (ownership_error, execute_one's shielded write).                 *)
WritersDisjoint ==
  \A v \in Worker \ dropped :
    /\ thread[v] \cap parent = {}
    /\ \A w \in Worker \ (dropped \cup {v}) : thread[v] \cap thread[w] = {}

(* The same of every worker: the in-flight write of a cancelled worker too *)
(* finishes before its ownership is released (docs/CODING_WORKFLOWS.md:241). *)
(* The code does not keep this: cancel() drops the ownership first.        *)
WriteBeforeRelease ==
  \A v \in Worker :
    /\ thread[v] \cap parent = {}
    /\ \A w \in Worker \ {v} : thread[v] \cap thread[w] = {}

(* Over all turns, crashes and recoveries a worker runs at most its budget *)
(* of tools, and the last checkpoint has counted every tool that ran: a    *)
(* recovered worker only has the remaining budget (_run, resume).           *)
CallsWithinBudget ==
  \A w \in Worker : ran[w] <= MaxCalls /\ ran[w] <= saved[w].calls

(* A worker saved as done, failed or cancelled is so for ever, unless its  *)
(* batch is rolled back: no resume, recovery request, crash or late        *)
(* checkpoint brings it back (resume: "are not replayed").                  *)
SettledStaysSettled ==
  \A w \in Worker : saved[w].status \in SettledState =>
    {status[w], session[w].status} \subseteq SettledState \cup {"none"}

(* When the client has recorded the end of the run, no worker is active or *)
(* has a task, and nothing writes but a worker cancelled on request        *)
(* (_run_local's finally, close).                                          *)
NoWorkAfterTurn ==
  client = "over" =>
    /\ Active = {} /\ parent = {}
    /\ \A w \in Worker : task[w] = "none" /\ (thread[w] # {} => w \in dropped)

(* A worker cancelled while its start or its resume was under way never    *)
(* runs a tool again (_start, resume: "was cancelled before execution").   *)
CancelledNeverRuns == [][\A w \in dropped : ran'[w] = ran[w]]_vars

(* A recovery request accepted for an interrupted worker stays in the      *)
(* session, or in the hands of the turn, until the worker runs again or is *)
(* refused or cancelled, over crashes too (docs/CODING_WORKFLOWS.md:219,   *)
(* resume_pending).  The code keeps this only as long as it does not crash *)
(* before the worker's start is saved.                                     *)
RequestsSurvive ==
  \A w \in asked : status[w] = "interrupted" => w \in pending \cup requests

(* A turn that ends gets to its end, although workers wait for permissions *)
(* nobody gives, write, or fail to be saved (close).                        *)
TurnEnds == turn = "ending" ~> turn = "idle"
=============================================================================
