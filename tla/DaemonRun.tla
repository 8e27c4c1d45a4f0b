----------------------------- MODULE DaemonRun -----------------------------
(***************************************************************************)
(* The life of one run inside the daemon (daemon.py): the asyncio task     *)
(* that executes its turns, the finalizer each turn ends with, the wakeup  *)
(* task that starts queued follow-ups, and the HTTP handlers that queue,   *)
(* continue, cancel, answer and shut down.  They share one event loop, so  *)
(* they interleave exactly at their awaits: every action below runs from   *)
(* one await to the next.                                                  *)
(*                                                                         *)
(* An operation of RunStore is one step here (module RunStore opens it     *)
(* up).  Cancelling a task makes the await it stands at raise              *)
(* CancelledError; a shielded or settled operation completes all the same. *)
(***************************************************************************)
EXTENDS Integers, FiniteSets, Sequences

CONSTANTS
  Team,          \* the run belongs to an orchestration plugin
  Asks,          \* turns may ask for a permission
  Fails,         \* turns may fail
  Refuses,       \* a saved team profile or workspace may be missing
  MaxItem,       \* bound: follow-ups ever queued
  MaxContinue,   \* bound: continue requests
  MaxCancel,     \* bound: cancel requests
  MaxEngine,     \* bound: failures of the engine process
  MaxShutdown    \* bound: shutdowns of the daemon

ASSUME DaemonAssumption ==
  /\ Team \in BOOLEAN /\ Asks \in BOOLEAN /\ Fails \in BOOLEAN /\ Refuses \in BOOLEAN
  /\ MaxItem \in Nat /\ MaxContinue \in Nat /\ MaxCancel \in Nat
  /\ MaxEngine \in Nat /\ MaxShutdown \in Nat

RunState == {"queued", "running", "blocked", "done", "failed", "cancelled"}
Active   == {"queued", "running", "blocked"}

Message == 0            \* a turn started with a message of its own
Item    == Nat \ {0}    \* follow-ups, numbered as they are accepted

VARIABLES
  meta,      \* the durable state of the run
  pending,   \* follow-ups in the durable queue
  accepted,  \* how many follow-ups were accepted
  turns,     \* follow-ups run as turns, in order
  task,      \* where the run task stands; "none" when there is no task
  claim,     \* the follow-up of the current turn, or Message
  state,     \* the local variable "state" of the turn
  cancelling,\* owner.cancelling(): the run task was cancelled
  raw,       \* run_store is _recovery_run_store, not the engine-bound one
  fin,       \* where the finalizer of the turn stands
  effective, \* effective_state of the finalizer
  result,    \* the follow-up finish_turn claimed, or Message
  permission,\* pending_permissions: "none", "pending", "resolved"
  wake,      \* where the wakeup task stands
  wakeClaim, \* the follow-up the wakeup took
  queueing, continuing, cancel, answering,  \* where each handler stands
  startLock, \* holder of _run_start_lock(run_id)
  phase,     \* the daemon is "open", or how far _on_cleanup is
  engine,    \* the engine process is alive
  budget,    \* what is left of the bounds
  cancelled  \* history: cancelled, and nothing requested since

turnVars == <<task, claim, state, cancelling, raw, permission>>
finVars  == <<fin, effective, result>>
wakeVars == <<wake, wakeClaim>>
otherHandlers == <<queueing, cancel, answering>>
handlers == <<continuing, otherHandlers>>
watchers == <<wake, continuing>>   \* they wait for the run task
store    == <<meta, pending, accepted>>

vars == <<store, turns, turnVars, finVars, wakeVars, handlers, startLock,
          phase, engine, budget, cancelled>>

Bounded == {"continue", "cancel", "engine", "shutdown"}
Bound   == [b \in Bounded |-> CASE b = "continue" -> MaxContinue [] b = "cancel" -> MaxCancel
                                [] b = "engine" -> MaxEngine [] b = "shutdown" -> MaxShutdown]
Spend(b) == budget[b] > 0 /\ budget' = [budget EXCEPT ![b] = @ - 1]

(* Bound operations fail while the engine is down, the raw store works on. *)
StoreUp == raw \/ engine

(* _closing *)
Closing == phase # "open"

-----------------------------------------------------------------------------
Init ==
  /\ meta = "queued" /\ pending = {} /\ accepted = 0 /\ turns = <<>>
  /\ task = "new" /\ claim = Message /\ state = "done"
  /\ cancelling = FALSE /\ raw = FALSE /\ permission = "none"
  /\ fin = "none" /\ effective = "done" /\ result = Message
  /\ wake = "none" /\ wakeClaim = Message
  /\ queueing = "none" /\ continuing = "none" /\ cancel = "none" /\ answering = "none"
  /\ startLock = "free" /\ phase = "open" /\ engine = TRUE
  /\ budget = Bound /\ cancelled = FALSE

(* Mutant: the newest follow-up first. *)
Newest(S) == CHOOSE i \in S : \A n \in S : i >= n

Oldest(S) == CHOOSE i \in S : \A n \in S : i <= n

-----------------------------------------------------------------------------
(* The run task: _run_agent around _run_agent_turn.                         *)

Elsewhere == UNCHANGED <<wakeVars, handlers, startLock, phase, engine, budget, cancelled>>

(* create_task(_run_agent(...)) and _register_active. *)
StartTask(item) ==
  /\ task' = "new" /\ claim' = item /\ state' = "done"
  /\ cancelling' = FALSE /\ raw' = FALSE /\ permission' = "none"

(* The task "returned", "raised" or is "cancelled".  The wakeup that watches *)
(* it goes on only if it returned; the continue handler that waits for it   *)
(* suppresses an exception, but not the CancelledError of the task.         *)
EndTask(how) ==
  /\ task' = "none" /\ claim' = Message /\ permission' = "none"
  /\ fin' = "none" /\ effective' = "done" /\ result' = Message
  /\ state' = "done" /\ cancelling' = FALSE /\ raw' = FALSE
  /\ wake' = IF wake # "watch" THEN wake ELSE IF how = "returned" THEN "reload" ELSE "none"
  /\ continuing' = IF continuing # "wait" THEN continuing
                   ELSE IF how = "cancelled" THEN "killed" ELSE "session"

BeginTurn ==
  /\ task = "new" /\ task' = "setup"
  /\ UNCHANGED <<store, turns, claim, state, cancelling, raw, permission, finVars>>
  /\ Elsewhere

MarkRunning ==
  /\ task = "setup" /\ StoreUp
  /\ meta' = "running" /\ task' = "record"
  /\ UNCHANGED <<pending, accepted, turns, claim, state, cancelling, raw, permission, finVars>>
  /\ Elsewhere

(* The user message is in the journal: the follow-up counts as started. *)
RecordMessage ==
  /\ task = "record" /\ StoreUp
  /\ task' = "turn"
  /\ turns' = IF claim = Message THEN turns ELSE Append(turns, claim)
  /\ UNCHANGED <<store, claim, state, cancelling, raw, permission, finVars>>
  /\ Elsewhere

(* The request is offered to clients before the run is marked blocked. *)
AskPermission ==
  /\ task = "turn" /\ Asks /\ permission = "none"
  /\ task' = "ask" /\ permission' = "pending"
  /\ UNCHANGED <<store, turns, claim, state, cancelling, raw, finVars>>
  /\ Elsewhere

MarkBlocked ==
  /\ task = "ask" /\ StoreUp
  /\ task' = "wait" /\ meta' = "blocked"
  /\ UNCHANGED <<pending, accepted, turns, claim, state, cancelling, raw, permission, finVars>>
  /\ Elsewhere

PermissionGiven ==
  /\ task = "wait" /\ permission = "resolved"
  /\ task' = "turn"
  /\ UNCHANGED <<store, turns, claim, state, cancelling, raw, permission, finVars>>
  /\ Elsewhere

(* Mutant: the claim is released although its message was recorded. *)
FinalizeReleasing(st, recorded) ==
  /\ state' = st
  /\ IF Team /\ claim # Message
     THEN task' = "release" /\ UNCHANGED fin
     ELSE task' = "finalize" /\ fin' = "save"
  /\ UNCHANGED <<effective, result>>

(* Mutant: the claim is never released. *)
FinalizeKeeping(st, recorded) ==
  /\ state' = st
  /\ task' = "finalize" /\ fin' = "save"
  /\ UNCHANGED <<effective, result>>

(* Enter the finally block: release an unrecorded team claim, finalize. *)
Finalize(st, recorded) ==
  /\ state' = st
  /\ IF Team /\ claim # Message /\ ~recorded
     THEN task' = "release" /\ UNCHANGED fin
     ELSE task' = "finalize" /\ fin' = "save"
  /\ UNCHANGED <<effective, result>>

EndOfTurn ==
  /\ task = "turn"
  /\ \E st \in {"done"} \cup (IF Fails THEN {"failed"} ELSE {}) : Finalize(st, TRUE)
  /\ UNCHANGED <<store, turns, claim, cancelling, raw, permission>>
  /\ Elsewhere

(* prepare_orchestration refuses the saved team profile. *)
SetupFails ==
  /\ task = "setup" /\ Team /\ Refuses
  /\ Finalize("failed", FALSE)
  /\ UNCHANGED <<store, turns, claim, cancelling, raw, permission>>
  /\ Elsewhere

(* A bound operation raised CordisEngineError: record the error, raw. *)
TurnError ==
  /\ task \in {"setup", "record", "turn", "ask"} /\ ~engine
  /\ raw' = TRUE
  /\ Finalize("failed", task \in {"turn", "ask"})
  /\ UNCHANGED <<store, turns, claim, cancelling, permission>>
  /\ Elsewhere

(* Mutant: a turn cancelled after its message was recorded is not finalized. *)
CancelUnrecordedOnly(recorded) ==
  /\ task = "cancelUnrecorded" /\ ~recorded
  /\ Finalize("cancelled", recorded)
  /\ UNCHANGED <<store, turns, claim, cancelling, raw, permission>>
  /\ Elsewhere

(* The CancelledError handler has appended its event. *)
CancelRecorded(recorded) ==
  /\ task = IF recorded THEN "cancelRecorded" ELSE "cancelUnrecorded"
  /\ Finalize("cancelled", recorded)
  /\ UNCHANGED <<store, turns, claim, cancelling, raw, permission>>
  /\ Elsewhere

ReleaseClaim ==
  /\ task = "release" /\ StoreUp
  /\ pending' = pending \cup {claim}
  /\ meta' = IF state = "cancelled" THEN "cancelled" ELSE meta
  /\ claim' = Message /\ task' = "finalize" /\ fin' = "save"
  /\ UNCHANGED <<accepted, turns, state, cancelling, raw, permission, effective, result>>
  /\ Elsewhere

(* The release itself raises: the task is over without a finalizer. *)
ReleaseFails ==
  /\ task = "release" /\ ~StoreUp
  /\ EndTask("raised")
  /\ UNCHANGED <<store, turns, wakeClaim, otherHandlers, startLock, phase, engine, budget, cancelled>>

(* It returns the claim, but the engine dies before it can say so. *)
ReleaseUnheard ==
  /\ task = "release" /\ ~raw /\ engine /\ Spend("engine") /\ engine' = FALSE
  /\ pending' = pending \cup {claim}
  /\ EndTask("raised")
  /\ UNCHANGED <<meta, accepted, turns, wakeClaim, otherHandlers, startLock, phase, cancelled>>

(* finish_turn(st, drain_queue = d): claim the next follow-up or publish. *)
FinishTurn(st, d) ==
  IF st = "done" /\ d /\ pending # {}
  THEN /\ pending' = pending \ {Oldest(pending)}
       /\ result' = Oldest(pending)
       /\ meta' = "running"
  ELSE meta' = st /\ UNCHANGED <<pending, result>>

-----------------------------------------------------------------------------
(* The finalizer, a task of its own.                                        *)

FinKeeps == UNCHANGED <<accepted, turns, turnVars>> /\ Elsewhere

SaveSession ==
  /\ fin = "save" /\ StoreUp
  /\ IF state = "done" /\ ~cancelling
     THEN fin' = "memory" /\ UNCHANGED effective
     ELSE fin' = "load" /\ effective' = IF cancelling THEN "cancelled" ELSE state
  /\ UNCHANGED <<meta, pending, result>> /\ FinKeeps

ExtractMemory ==
  /\ fin = "memory"
  /\ fin' = "load" /\ effective' = IF cancelling THEN "cancelled" ELSE state
  /\ UNCHANGED <<meta, pending, result>> /\ FinKeeps

LoadEvents ==
  /\ fin = "load" /\ StoreUp
  /\ fin' = "finish"
  /\ UNCHANGED <<meta, pending, effective, result>> /\ FinKeeps

Finish ==
  /\ fin = "finish" /\ StoreUp
  /\ FinishTurn(effective, TRUE)
  /\ fin' = "ended"
  /\ UNCHANGED effective /\ FinKeeps

(* The engine is down: the recovery path of finalize(). *)
FinalizeRaw ==
  /\ fin \in {"save", "load", "finish"} /\ ~StoreUp
  /\ fin' = "recover" /\ raw' = TRUE
  /\ UNCHANGED <<store, turns, task, claim, state, cancelling, permission, effective, result>>
  /\ Elsewhere

(* The engine dies while finish_turn runs: its effect stays, its result is *)
(* replaced by the error.                                                  *)
FinishUnheard ==
  /\ fin = "finish" /\ ~raw /\ engine /\ Spend("engine") /\ engine' = FALSE
  /\ FinishTurn(effective, TRUE)
  /\ fin' = "recover" /\ raw' = TRUE
  /\ UNCHANGED <<accepted, turns, task, claim, state, cancelling, permission, effective,
                 wakeVars, handlers, startLock, phase, cancelled>>

FinishRecovered ==
  /\ fin = "recover"
  /\ meta' = IF cancelling THEN "cancelled" ELSE "failed"
  /\ result' = Message /\ fin' = "ended"
  /\ UNCHANGED <<pending, effective>> /\ FinKeeps

(* The turn returns: run the follow-up finish_turn claimed, or end. *)
NextTurn ==
  /\ task = "finalize" /\ fin = "ended" /\ ~cancelling /\ result # Message
  /\ task' = "setup" /\ claim' = result /\ state' = "done" /\ raw' = FALSE
  /\ permission' = "none"
  /\ fin' = "none" /\ effective' = "done" /\ result' = Message
  /\ UNCHANGED <<store, turns, cancelling>> /\ Elsewhere

LastTurn ==
  /\ task = "finalize" /\ fin = "ended" /\ (cancelling \/ result = Message)
  /\ EndTask(IF cancelling THEN "cancelled" ELSE "returned")
  /\ UNCHANGED <<store, turns, wakeClaim, otherHandlers, startLock, phase, engine, budget, cancelled>>

(* Cancelled while finalizing: after the finalizer, correct the state. *)
Joined ==
  /\ task = "join" /\ fin = "ended"
  /\ task' = "correct"
  /\ UNCHANGED <<store, turns, claim, state, cancelling, raw, permission, finVars>>
  /\ Elsewhere

(* Mutant: a follow-up claimed before the cancellation stays "running". *)
CorrectNothing ==
  /\ task = "correct"
  /\ EndTask("cancelled")
  /\ UNCHANGED <<meta, pending, accepted, turns, wakeClaim, otherHandlers, startLock, phase, engine,
                 budget, cancelled>>

Correct ==
  /\ task = "correct"
  /\ meta' = "cancelled"
  /\ EndTask("cancelled")
  /\ UNCHANGED <<pending, accepted, turns, wakeClaim, otherHandlers, startLock, phase, engine,
                 budget, cancelled>>

(* Cancelled again while it waited for finish_turn: nothing is corrected. *)
Stopped ==
  /\ task = "stop" /\ fin = "ended"
  /\ EndTask("cancelled")
  /\ UNCHANGED <<store, turns, wakeClaim, otherHandlers, startLock, phase, engine, budget, cancelled>>

-----------------------------------------------------------------------------
(* task.cancel() on the run task, by where it stands.                       *)

CancelTask ==
  \/ /\ task = "new"                      \* never started: its body is skipped
     /\ EndTask("cancelled")
     /\ UNCHANGED <<meta, pending>>
  \/ /\ task \in {"setup", "record", "turn", "ask", "wait"}
     /\ task' = IF task \in {"setup", "record"} THEN "cancelUnrecorded" ELSE "cancelRecorded"
     /\ cancelling' = TRUE /\ raw' = TRUE /\ state' = "cancelled"
     /\ UNCHANGED <<meta, pending, claim, permission, finVars, watchers>>
  \/ /\ task \in {"cancelRecorded", "cancelUnrecorded"}
     /\ Finalize("cancelled", task = "cancelRecorded")
     /\ UNCHANGED <<meta, pending, claim, permission, cancelling, raw, watchers>>
  \/ /\ task = "release"                  \* settle_finalization carries on
     /\ cancelling' = TRUE
     /\ UNCHANGED <<meta, pending, task, claim, state, raw, permission, finVars, watchers>>
  \/ /\ task = "finalize"                 \* shielded: the finalizer carries on
     /\ task' = "join" /\ cancelling' = TRUE /\ raw' = TRUE /\ state' = "cancelled"
     /\ UNCHANGED <<meta, pending, claim, permission, finVars, watchers>>
  \/ /\ task = "join" /\ fin = "memory"   \* memory_extraction swallows it
     /\ UNCHANGED <<meta, pending, turnVars, finVars, watchers>>
  \/ /\ task = "join" /\ fin \in {"save", "load", "ended"}
     /\ EndTask("cancelled")
     /\ UNCHANGED <<meta, pending>>
  \/ /\ task = "join" /\ fin = "finish"   \* settled: finish_turn completes
     /\ task' = "stop"
     /\ UNCHANGED <<meta, pending, claim, state, cancelling, raw, permission, finVars, watchers>>
  \/ /\ task = "join" /\ fin = "finish"   \* unless it still waits for the store
     /\ EndTask("cancelled")
     /\ UNCHANGED <<meta, pending>>
  \/ /\ task = "stop"
     /\ UNCHANGED <<meta, pending, turnVars, finVars, watchers>>
  \/ /\ task = "join" /\ fin = "recover"
     /\ meta' \in {meta, "cancelled"}
     /\ EndTask("cancelled") /\ UNCHANGED pending
  \/ /\ task = "correct"
     /\ meta' \in {meta, "cancelled"}
     /\ EndTask("cancelled") /\ UNCHANGED pending

-----------------------------------------------------------------------------
(* The wakeup task (_wake_queued_run).  It holds the start lock from        *)
(* "check" to "mark".                                                       *)

WakeKeeps == UNCHANGED <<turns, finVars, handlers, phase, budget, cancelled>>
WakeOnly  == UNCHANGED <<store, turnVars, engine>> /\ WakeKeeps

(* _schedule_queue_wakeup: one wakeup at a time. *)
ScheduleWakeup ==
  wake' = IF wake = "none" /\ ~Closing THEN "lock" ELSE wake

EndWakeup == wake' = "none" /\ wakeClaim' = Message /\ startLock' = "free"

WakeLocks ==
  /\ wake = "lock" /\ ~Closing /\ startLock = "free"
  /\ IF task # "none"
     THEN wake' = "watch" /\ UNCHANGED startLock
     ELSE wake' = "check" /\ startLock' = "wake"
  /\ UNCHANGED wakeClaim /\ WakeOnly

WakeChecks ==
  /\ wake = "check" /\ engine
  /\ IF pending = {}
     THEN EndWakeup
     ELSE wake' = "load" /\ UNCHANGED <<startLock, wakeClaim>>
  /\ WakeOnly

(* load_run, configuration, the claim of the checkout, then the closing check. *)
WakeLoads ==
  /\ wake = "load" /\ engine
  /\ IF Closing
     THEN EndWakeup
     ELSE wake' = "take" /\ UNCHANGED <<startLock, wakeClaim>>
  /\ WakeOnly

(* Another run owns the checkout: try again later, without the lock. *)
WakeBusy ==
  /\ wake = "load" /\ engine
  /\ wake' = "lock" /\ startLock' = "free"
  /\ UNCHANGED wakeClaim /\ WakeOnly

(* take_queued_message; what comes next if there was a follow-up to take. *)
TakeOldest(next) ==
  /\ IF pending = {}
     THEN EndWakeup /\ UNCHANGED pending
     ELSE /\ pending' = pending \ {Oldest(pending)} /\ wakeClaim' = Oldest(pending)
          /\ wake' = next /\ UNCHANGED startLock
  /\ UNCHANGED <<meta, accepted, turns, turnVars, finVars, handlers, phase, cancelled>>

WakeTakes == wake = "take" /\ engine /\ TakeOldest("mark") /\ UNCHANGED <<engine, budget>>

(* update_state(queued), create the run task, release the start lock, and   *)
(* wait for the task: nothing is awaited in between.                        *)
WakeStarts ==
  /\ wake = "mark" /\ engine
  /\ meta' = "queued" /\ StartTask(wakeClaim)
  /\ wake' = "watch" /\ wakeClaim' = Message /\ startLock' = "free"
  /\ UNCHANGED <<pending, accepted, engine>> /\ WakeKeeps

(* An engine error, or the ValueErrors raised before the claim. *)
WakeFails ==
  /\ \/ ~engine /\ wake \in {"check", "load", "take", "mark"}
     \/ Refuses /\ wake = "load"
  /\ EndWakeup /\ WakeOnly

(* Mutant: the wakeup watches a single task. *)
WakeEnds ==
  /\ wake = "reload"
  /\ wake' = "none"
  /\ UNCHANGED <<startLock, wakeClaim>> /\ WakeOnly

(* The run task is over: go on only if it finished as "done". *)
WakeReloads ==
  /\ wake = "reload"
  /\ wake' = IF engine /\ meta = "done" /\ ~Closing THEN "lock" ELSE "none"
  /\ UNCHANGED <<startLock, wakeClaim>> /\ WakeOnly

(* Cancelled, or deprived of its engine, while take_queued_message runs:    *)
(* the claim completes and nobody hears of it.                              *)
WakeTakesUnheard ==
  /\ \/ wake = "takeCancelled" /\ UNCHANGED <<engine, budget>>
     \/ wake = "take" /\ engine /\ Spend("engine") /\ engine' = FALSE
  /\ TakeOldest("lost")

WakeLost == wake = "lost" /\ EndWakeup /\ WakeOnly

(* task.cancel() on the wakeup, by where it stands. *)
CancelWakeup ==
  \/ /\ wake \in {"none", "takeCancelled", "lost"}
     /\ UNCHANGED <<wake, wakeClaim, startLock, meta>>
  \/ /\ wake \in {"lock", "watch", "reload"}
     /\ wake' = "none" /\ UNCHANGED <<wakeClaim, startLock, meta>>
  \/ /\ wake \in {"check", "load"}
     /\ EndWakeup /\ UNCHANGED meta
  \/ /\ wake = "take"
     /\ wake' = "takeCancelled" /\ UNCHANGED <<wakeClaim, startLock, meta>>
  \/ /\ wake = "mark"
     /\ EndWakeup /\ meta' \in {meta, "queued"}

-----------------------------------------------------------------------------
(* HTTP handlers.  queue, continue and cancel hold the start lock.          *)

HandlerKeeps == UNCHANGED <<turns, finVars, wakeClaim, phase, engine>>
TaskStays    == UNCHANGED turnVars
OtherThan(h) == /\ h # "queue" => UNCHANGED queueing
                /\ h # "continue" => UNCHANGED continuing
                /\ h # "cancel" => UNCHANGED cancel
                /\ h # "answer" => UNCHANGED answering

Locks(h)   == startLock = "free" /\ startLock' = h
Unlocks(h) == startLock' = "free"

(* control_run, action "queue".  A request is pending from here on, so an   *)
(* earlier cancellation no longer keeps the run idle.                       *)
QueueLocks ==
  /\ queueing = "none" /\ accepted < MaxItem /\ Locks("queue")
  /\ queueing' = "store" /\ cancelled' = FALSE
  /\ OtherThan("queue") /\ TaskStays /\ HandlerKeeps /\ UNCHANGED <<store, wake, budget>>

QueueStores ==
  /\ queueing = "store" /\ engine /\ ~Closing
  /\ accepted' = accepted + 1 /\ pending' = pending \cup {accepted'}
  /\ queueing' = "event"
  /\ OtherThan("queue") /\ TaskStays /\ HandlerKeeps
  /\ UNCHANGED <<meta, wake, startLock, budget, cancelled>>

QueueRecords ==
  /\ queueing = "event" /\ engine
  /\ ScheduleWakeup /\ queueing' = "reply"
  /\ OtherThan("queue") /\ TaskStays /\ HandlerKeeps
  /\ UNCHANGED <<store, startLock, budget, cancelled>>

(* The response lists the queue, or the engine raised somewhere before. *)
QueueReplies ==
  /\ \/ queueing = "reply"
     \/ queueing = "store" /\ (~engine \/ Closing)
     \/ queueing = "event" /\ ~engine
  /\ queueing' = "none" /\ Unlocks("queue")
  /\ OtherThan("queue") /\ TaskStays /\ HandlerKeeps /\ UNCHANGED <<store, wake, budget, cancelled>>

(* continue_run *)
ContinueLocks ==
  /\ continuing = "none" /\ ~Closing /\ Spend("continue") /\ Locks("continue")
  /\ continuing' = "load" /\ cancelled' = FALSE
  /\ OtherThan("continue") /\ TaskStays /\ HandlerKeeps /\ UNCHANGED <<store, wake>>

ContinueKeeps ==
  /\ OtherThan("continue") /\ HandlerKeeps /\ UNCHANGED <<pending, accepted, budget, cancelled>>

(* Mutant: continue does not look for a task that is still active. *)
ContinueLoadsUnchecked ==
  /\ continuing = "load" /\ engine
  /\ continuing' = "session"
  /\ TaskStays /\ ContinueKeeps /\ UNCHANGED <<meta, wake, startLock>>

ContinueLoads ==
  /\ continuing = "load" /\ engine
  /\ \/ task = "none" /\ continuing' = "session"
     \/ task # "none" /\ meta \notin Active /\ continuing' = "wait"
  /\ TaskStays /\ ContinueKeeps /\ UNCHANGED <<meta, wake, startLock>>

ContinueLoadsSession ==
  /\ continuing = "session" /\ engine /\ ~Closing
  /\ continuing' = "mark"
  /\ TaskStays /\ ContinueKeeps /\ UNCHANGED <<meta, wake, startLock>>

ContinueStarts ==
  /\ continuing = "mark" /\ engine
  /\ meta' = "queued" /\ StartTask(Message)
  /\ continuing' = "none" /\ Unlocks("continue")
  /\ ContinueKeeps /\ UNCHANGED wake

(* 409: still active, or still there after two seconds; 503 or an error; or *)
(* the cancellation of the task took the handler down with it.              *)
ContinueRefuses ==
  /\ \/ continuing = "load" /\ (~engine \/ (task # "none" /\ meta \in Active))
     \/ continuing \in {"wait", "killed"}
     \/ continuing = "session" /\ (~engine \/ Closing)
     \/ continuing = "mark" /\ ~engine
  /\ continuing' = "none" /\ Unlocks("continue")
  /\ TaskStays /\ ContinueKeeps /\ UNCHANGED <<meta, wake>>

(* Mutant: the wakeup survives the cancellation. *)
CancelLocksOnly ==
  /\ cancel = "none" /\ Spend("cancel") /\ Locks("cancel")
  /\ cancel' = "load"
  /\ OtherThan("cancel") /\ TaskStays /\ HandlerKeeps /\ UNCHANGED <<store, wake, cancelled>>

(* cancel_run, on the raw store.  The wakeup is outside the start lock.     *)
CancelLocks ==
  /\ cancel = "none" /\ Spend("cancel") /\ Locks("cancel")
  /\ cancel' = "load" /\ wake' = "none"
  /\ OtherThan("cancel") /\ TaskStays /\ HandlerKeeps /\ UNCHANGED <<store, cancelled>>

(* A new task reaches its first await before a handler that awaited the     *)
(* start lock and load_run comes back to it.                                *)
CancelsTask ==
  /\ cancel = "load" /\ task \notin {"none", "new"}
  /\ CancelTask /\ cancel' = "event" /\ cancelled' = TRUE
  /\ UNCHANGED <<queueing, answering, accepted, turns, wakeClaim, startLock, phase, engine, budget>>

CancelKeeps ==
  /\ OtherThan("cancel") /\ TaskStays /\ HandlerKeeps
  /\ UNCHANGED <<pending, accepted, wake, budget>>

CancelsIdle ==
  /\ cancel = "load" /\ task = "none"
  /\ cancel' = "publish"
  /\ CancelKeeps /\ UNCHANGED <<meta, startLock, cancelled>>

CancelPublishes ==
  /\ cancel = "publish"
  /\ meta' = "cancelled" /\ cancelled' = TRUE
  /\ cancel' = "none" /\ Unlocks("cancel")
  /\ CancelKeeps

CancelReplies ==
  /\ cancel = "event"
  /\ cancel' = "none" /\ Unlocks("cancel")
  /\ CancelKeeps /\ UNCHANGED <<meta, cancelled>>

(* resolve_permission takes no lock: the turn goes on before the handler    *)
(* has appended its event and marked the run as running.                    *)
ResolvePermission ==
  /\ answering = "none" /\ permission = "pending" /\ task # "none"
  /\ permission' = "resolved" /\ answering' = "event"
  /\ OtherThan("answer") /\ HandlerKeeps
  /\ UNCHANGED <<store, task, claim, state, cancelling, raw, wake, startLock, budget, cancelled>>

AnswerRecords ==
  /\ answering = "event"
  /\ answering' = IF engine THEN "mark" ELSE "none"
  /\ OtherThan("answer") /\ HandlerKeeps /\ TaskStays
  /\ UNCHANGED <<store, wake, startLock, budget, cancelled>>

AnswerMarksRunning ==
  /\ answering = "mark"
  /\ meta' = IF engine THEN "running" ELSE meta
  /\ answering' = "none"
  /\ OtherThan("answer") /\ HandlerKeeps /\ TaskStays
  /\ UNCHANGED <<pending, accepted, wake, startLock, budget, cancelled>>

-----------------------------------------------------------------------------
(* The engine process dies; _on_cleanup shuts the daemon down: it cancels   *)
(* the wakeup, then the run task, joins both and closes the engine.         *)

EngineDies ==
  /\ engine /\ Spend("engine") /\ engine' = FALSE
  /\ UNCHANGED <<store, turns, turnVars, finVars, wakeVars, handlers, startLock, phase, cancelled>>

(* POST /engine/restart, refused while a run is active. *)
EngineRestarts ==
  /\ ~engine /\ phase = "open" /\ task = "none" /\ engine' = TRUE
  /\ UNCHANGED <<store, turns, turnVars, finVars, wakeVars, handlers, startLock, phase, budget,
                 cancelled>>

Shutdown ==
  /\ phase = "open" /\ Spend("shutdown")
  /\ phase' = "closing" /\ CancelWakeup
  /\ UNCHANGED <<pending, accepted, turns, turnVars, finVars, handlers, engine, cancelled>>

ShutdownCancels ==
  /\ phase = "closing" /\ phase' = "stopping"
  /\ IF task = "none" THEN UNCHANGED <<meta, pending, turnVars, finVars, watchers>> ELSE CancelTask
  /\ UNCHANGED <<accepted, turns, wakeClaim, otherHandlers, startLock, engine, budget, cancelled>>

(* A task started behind the back of _on_cleanup is not joined. *)
ShutdownCloses ==
  /\ phase = "stopping" /\ wake = "none" /\ (task = "none" \/ ~cancelling)
  /\ phase' = "closed" /\ engine' = FALSE
  /\ UNCHANGED <<store, turns, turnVars, finVars, wakeVars, handlers, startLock, budget, cancelled>>

-----------------------------------------------------------------------------
RunTask ==
  \/ BeginTurn \/ MarkRunning \/ RecordMessage \/ AskPermission \/ MarkBlocked
  \/ PermissionGiven \/ EndOfTurn \/ SetupFails \/ TurnError
  \/ \E r \in BOOLEAN : CancelRecorded(r)
  \/ ReleaseClaim \/ ReleaseFails \/ NextTurn \/ LastTurn \/ Joined \/ Correct \/ Stopped

Finalizer ==
  \/ SaveSession \/ ExtractMemory \/ LoadEvents \/ Finish \/ FinalizeRaw \/ FinishRecovered

Wakeup ==
  \/ WakeLocks \/ WakeChecks \/ WakeLoads \/ WakeBusy \/ WakeTakes \/ WakeStarts \/ WakeFails
  \/ WakeReloads \/ WakeTakesUnheard \/ WakeLost

Request == QueueLocks \/ ContinueLocks \/ CancelLocks \/ ResolvePermission

Handler ==
  \/ QueueStores \/ QueueRecords \/ QueueReplies
  \/ ContinueLoads \/ ContinueLoadsSession \/ ContinueStarts \/ ContinueRefuses
  \/ CancelsTask \/ CancelsIdle \/ CancelPublishes \/ CancelReplies
  \/ AnswerRecords \/ AnswerMarksRunning

Next ==
  \/ RunTask \/ Finalizer \/ Wakeup \/ Request \/ Handler
  \/ FinishUnheard \/ ReleaseUnheard \/ EngineDies \/ EngineRestarts \/ Shutdown \/ ShutdownCancels \/ ShutdownCloses

Spec == Init /\ [][Next]_vars

(* The event loop runs every task that can go on; the checkout is not busy *)
(* and the start lock not taken for ever; a provider answers.              *)
FairSpec ==
  /\ Spec
  /\ WF_vars(RunTask) /\ WF_vars(Finalizer) /\ WF_vars(Wakeup) /\ WF_vars(Handler)
  /\ SF_vars(WakeLocks) /\ SF_vars(WakeLoads)
  /\ WF_vars(ShutdownCancels \/ ShutdownCloses)

-----------------------------------------------------------------------------
TaskPc == {"none", "new", "setup", "record", "turn", "ask", "wait", "cancelRecorded",
           "cancelUnrecorded", "release", "finalize", "join", "correct", "stop"}
FinPc  == {"none", "save", "memory", "load", "finish", "recover", "ended"}
WakePc == {"none", "lock", "check", "load", "take", "takeCancelled", "lost", "mark",
           "watch", "reload"}

TypeOK ==
  /\ meta \in RunState /\ pending \subseteq Item /\ accepted \in Nat /\ turns \in Seq(Item)
  /\ task \in TaskPc /\ claim \in Item \cup {Message} /\ state \in RunState
  /\ cancelling \in BOOLEAN /\ raw \in BOOLEAN
  /\ fin \in FinPc /\ effective \in RunState /\ result \in Item \cup {Message}
  /\ permission \in {"none", "pending", "resolved"}
  /\ wake \in WakePc /\ wakeClaim \in Item \cup {Message}
  /\ queueing \in {"none", "store", "event", "reply"}
  /\ continuing \in {"none", "load", "wait", "killed", "session", "mark"}
  /\ cancel \in {"none", "load", "event", "publish"}
  /\ answering \in {"none", "event", "mark"}
  /\ startLock \in {"free", "wake", "queue", "continue", "cancel"}
  /\ phase \in {"open", "closing", "stopping", "closed"} /\ engine \in BOOLEAN /\ cancelled \in BOOLEAN
  /\ budget \in [Bounded -> Nat]

Ran == {turns[k] : k \in DOMAIN turns}

(* Claims in the hands of the wakeup, the turn or its finalizer. *)
InHand == {wakeClaim, claim, result} \ ({Message} \cup Ran)

(* Nothing of the daemon works on the run. *)
Quiet == task = "none" /\ wake = "none" /\ \A h \in {queueing, continuing, cancel, answering} : h = "none"

(* Two turns of the same run never overlap: a run task is created only     *)
(* where none is left, although the wakeup and the continue handler both   *)
(* decide it several awaits earlier.                                       *)
OneTask == [][task' = "new" => task \in {"none", "new"}]_vars

Undisturbed == \A b \in {"cancel", "engine", "shutdown"} : budget[b] = Bound[b]

(* Every accepted follow-up is queued, in the hands of somebody who will   *)
(* run it, or has run ("cancellation or failure leaves unstarted           *)
(* follow-ups saved for later continuation").                              *)
FollowupsKept == 1 .. accepted \subseteq pending \cup InHand \cup Ran

(* That much is true while no task was cancelled, no engine has failed and *)
(* the daemon is not shut down: a failing turn strands no follow-up.       *)
NoFollowupStranded == Undisturbed => FollowupsKept

(* A run at which nobody works any more is not left "queued", "running" or *)
(* "blocked" for ever.                                                     *)
RestingStateIsFinal == Quiet => meta \notin Active

(* Once a cancellation is through and until the next request, no turn of   *)
(* the run starts: neither the wakeup nor the finalizer starts another.    *)
CancelledStaysIdle ==
  [][cancelled => turns' = turns /\ (task' = "new" => task = "new")]_vars

(* The queue as its clients know it.                                       *)
F == INSTANCE FollowupQueue WITH
       accepted <- accepted, pending <- pending, owned <- InHand, executed <- Ran,
       Limit <- MaxItem + 1
FollowupQueueSpec == F!Spec

(* Where turns do not fail, queued work runs in the end, unless somebody   *)
(* cancels, the engine fails or the daemon is shut down.                   *)
FollowupsRun == \A i \in 1 .. MaxItem : accepted >= i ~> (i \in Ran \/ ~Undisturbed)

(* A cancelled task ends, even while it waits for an answer.               *)
CancelEnds == cancel = "event" ~> task = "none"

(* A follow-up queued at an idle run, with none before it, is started      *)
(* ("start explicitly queued idle work", _wake_queued_run).  The code does *)
(* not keep this: the wakeup of a failed turn may be about to end.         *)
IdleFollowupStarts ==
  \A i \in 1 .. MaxItem :
    (queueing = "store" /\ task = "none" /\ pending = {} /\ accepted = i - 1) ~> i \in Ran
=============================================================================
