------------------------------ MODULE RunStore ------------------------------
(***************************************************************************)
(* The durable files of one run (core/runs.py, class RunStore) and every   *)
(* thread that works on them.                                              *)
(*                                                                         *)
(* A run is a directory with meta.json (its state), events.jsonl (its      *)
(* journal) and queue.json (follow-up messages).  The TUI, the daemon and  *)
(* the CLI are processes, each with a RunStore of its own on the same      *)
(* directory.  An operation is a function running in a worker thread       *)
(* (asyncio.to_thread); every file read and every file write is a step of  *)
(* its own here, because that is where threads interleave.                 *)
(*                                                                         *)
(*   - lock[p], the asyncio.Lock of the instance in process p, is held by  *)
(*     the coroutine that awaits the thread.  If that coroutine is         *)
(*     cancelled, queue operations keep the lock until the thread is done  *)
(*     (_settled_io), the other operations free it at once while the       *)
(*     thread runs on.                                                     *)
(*   - flock is the queue.lock file, taken by the queue operations only.   *)
(*                                                                         *)
(* A follow-up is the number of its arrival; queue.json is the set of its  *)
(* entries, which created_at orders.                                       *)
(***************************************************************************)
EXTENDS Integers, FiniteSets, Sequences

CONSTANTS
  Proc,           \* processes: the TUI, the daemon, the CLI
  Thread,         \* worker threads
  ProcOf,         \* the process each thread belongs to
  NoThread,       \* nobody holds the lock
  QueueLimit,     \* 100 in the code
  TurnEnd,        \* the (state, drain_queue, hold_final_state) of finish_turn's callers
  SetState,       \* the states update_state and finish_run are called with
  MaxItem,        \* bound: follow-ups accepted when queue_message begins
  MaxJournal,     \* bound: lines of the journal when an operation begins
  MaxCrash,       \* bound: process crashes
  MaxFault,       \* bound: failed file writes
  MaxCancel,      \* bound: cancelled coroutines
  MaxAppend       \* bound: calls of append_event, set_workspace and set_runtime by clients

RunState == {"queued", "running", "blocked", "done", "failed", "cancelled"}

ASSUME StoreAssumption ==
  /\ ProcOf \in [Thread -> Proc]
  /\ NoThread \notin Thread
  /\ QueueLimit \in Nat /\ MaxItem \in Nat /\ MaxJournal \in Nat
  /\ MaxCrash \in Nat /\ MaxFault \in Nat /\ MaxCancel \in Nat /\ MaxAppend \in Nat
  /\ TurnEnd \subseteq RunState \X BOOLEAN \X BOOLEAN /\ SetState \subseteq RunState

(* The bounds on what may go wrong, and on what clients append and set. *)
Hazard == {"crash", "fault", "cancel", "append"}
Bound  == [k \in Hazard |-> CASE k = "crash" -> MaxCrash [] k = "fault" -> MaxFault
                              [] k = "cancel" -> MaxCancel [] k = "append" -> MaxAppend]

Item     == Nat \ {0}
NoItem   == 0

Kind == {"idle", "queue", "take", "release", "finish", "append", "update", "set"}

(* Operations that run under _settled_io and take the queue.lock file. *)
QueueKind == {"queue", "take", "release", "finish"}

EventType == {"event", "queued_message_started", "queued_message_returned",
              "turn_finished", "run_finished"}

Event == [type : EventType, item : Item \cup {NoItem}]
NoEvent == [type |-> "event", item |-> NoItem]

Line  == [id : Nat \ {0}, type : EventType, item : Item \cup {NoItem}]

Label == {"idle", "loadrun", "flock", "read", "load", "count", "append",
          "stamp", "snapshot", "publish", "return"}

VARIABLES
  meta,       \* the state field of meta.json
  journal,    \* events.jsonl
  queueFile,  \* the entries of queue.json
  nextItem,   \* the next follow-up to arrive
  flock,      \* holder of queue.lock
  lock,       \* holder of each instance's asyncio.Lock
  pc, kind,   \* where each thread is, and in which operation
  seen,       \* the run state a thread read from meta.json
  eid,        \* the id a thread computed for the event it appends
  event,      \* the event a thread is appending
  items,      \* queue.json as a thread is about to write it
  claim,      \* the follow-up a thread claims or returns
  target,     \* the run state a thread will publish
  drain,      \* finish_turn: whether the turn may claim a follow-up
  hold,       \* finish_turn: keep the run "running" (hold_final_state)
  cancels,    \* release_queued_message: the run is to be cancelled too
  detached,   \* the coroutine awaiting this thread was cancelled
  work,       \* per process: claimed follow-ups its clients have in hand
  executed,   \* follow-ups a client has run as a turn
  published,  \* history: the last state an operation published on purpose
  budget      \* what is left of MaxCrash, MaxFault, MaxCancel and MaxAppend

files == <<meta, journal, queueFile, nextItem>>
args  == <<kind, target, drain, hold>>
local == <<seen, eid, event, items, claim, cancels>>
client == <<work, executed>>

vars == <<files, flock, lock, pc, args, local, detached, client, published, budget>>

-----------------------------------------------------------------------------
(* The queue a reader reconstructs: queue.json corrected by the journal.    *)

Mark == {"queued_message_started", "queued_message_returned"}

(* The last mark the journal j has for follow-up i is of type m. *)
LastMark(j, i, m) ==
  \E k \in DOMAIN j :
    /\ j[k].item = i /\ j[k].type = m
    /\ \A n \in DOMAIN j : n > k /\ j[n].item = i => j[n].type \notin Mark

Started(j, i)  == LastMark(j, i, "queued_message_started")
Returned(j, i) == LastMark(j, i, "queued_message_returned")

ReadQueue(q, j) ==
  { i \in (q \cup {j[k].item : k \in DOMAIN j}) \ {NoItem} :
      (i \in q /\ ~Started(j, i)) \/ Returned(j, i) }

Queue == ReadQueue(queueFile, journal)

(* Mutant: the newest follow-up first. *)
Newest(i, S) == \A n \in S : i >= n

Oldest(i, S) == \A n \in S : i <= n

-----------------------------------------------------------------------------
Init ==
  /\ meta = "running" /\ journal = <<>> /\ queueFile = {} /\ nextItem = 1
  /\ flock = NoThread
  /\ lock = [p \in Proc |-> NoThread]
  /\ pc = [t \in Thread |-> "idle"]
  /\ kind = [t \in Thread |-> "idle"]
  /\ seen = [t \in Thread |-> "running"]
  /\ eid = [t \in Thread |-> 1]
  /\ event = [t \in Thread |-> NoEvent]
  /\ items = [t \in Thread |-> {}]
  /\ claim = [t \in Thread |-> NoItem]
  /\ target = [t \in Thread |-> "running"]
  /\ drain = [t \in Thread |-> FALSE]
  /\ hold = [t \in Thread |-> FALSE]
  /\ cancels = [t \in Thread |-> FALSE]
  /\ detached = [t \in Thread |-> FALSE]
  /\ work = [p \in Proc |-> {}]
  /\ executed = {}
  /\ published = "running"
  /\ budget = Bound

Spend(k) == budget[k] > 0 /\ budget' = [budget EXCEPT ![k] = @ - 1]

(* A thread starts an operation once its instance's lock is free. *)
Begin(t, k, l) ==
  /\ pc[t] = "idle" /\ lock[ProcOf[t]] = NoThread
  /\ Len(journal) < MaxJournal
  /\ lock' = [lock EXCEPT ![ProcOf[t]] = t]
  /\ pc' = [pc EXCEPT ![t] = l]
  /\ kind' = [kind EXCEPT ![t] = k]
  /\ UNCHANGED <<files, flock, seen, eid, event, items, detached, executed, published>>

(* Mutant: queueing without queue.lock. *)
QueueMessageUnlocked(t) ==
  /\ Begin(t, "queue", "read")
  /\ nextItem <= MaxItem
  /\ UNCHANGED <<claim, cancels, target, drain, hold, work, budget>>

QueueMessage(t) ==
  /\ Begin(t, "queue", "flock")
  /\ nextItem <= MaxItem
  /\ UNCHANGED <<claim, cancels, target, drain, hold, work, budget>>

TakeQueuedMessage(t) ==
  /\ Begin(t, "take", "flock")
  /\ UNCHANGED <<claim, cancels, target, drain, hold, work, budget>>

(* The follow-up leaves the client's hands the moment it asks for its return. *)
ReleaseQueuedMessage(t, i, cancelled) ==
  /\ i = NoItem => cancelled
  /\ Begin(t, "release", "loadrun")
  /\ claim' = [claim EXCEPT ![t] = i]
  /\ work' = [work EXCEPT ![ProcOf[t]] = @ \ {i}]
  /\ cancels' = [cancels EXCEPT ![t] = cancelled]
  /\ target' = [target EXCEPT ![t] = "cancelled"]
  /\ UNCHANGED <<drain, hold, budget>>

FinishTurn(t, state, d, h) ==
  /\ Begin(t, "finish", "flock")
  /\ target' = [target EXCEPT ![t] = state]
  /\ drain' = [drain EXCEPT ![t] = d]
  /\ hold' = [hold EXCEPT ![t] = h]
  /\ UNCHANGED <<claim, cancels, work, budget>>

AppendEvent(t) ==
  /\ Begin(t, "append", "load")
  /\ Spend("append")
  /\ UNCHANGED <<claim, cancels, target, drain, hold, work>>

(* update_state, and finish_run whose artifact files nothing here reads. *)
UpdateState(t, state) ==
  /\ Begin(t, "update", "publish")
  /\ target' = [target EXCEPT ![t] = state]
  /\ UNCHANGED <<claim, cancels, drain, hold, work, budget>>

(* set_workspace and set_runtime rewrite meta.json with the state they read.  *)
SetRuntime(t) ==
  /\ Begin(t, "set", "load")
  /\ Spend("append")
  /\ UNCHANGED <<claim, cancels, target, drain, hold, work>>

-----------------------------------------------------------------------------
(* Steps of a thread inside an operation.                                   *)

KeepsRest == UNCHANGED <<lock, args, detached, client, budget>>

(* Only release_queued_message looks at the state it loads before the lock. *)
LoadRun(t) ==
  /\ pc[t] = "loadrun"
  /\ cancels' = [cancels EXCEPT ![t] = @ /\ meta # "cancelled"]
  /\ pc' = [pc EXCEPT ![t] = "flock"]
  /\ KeepsRest /\ UNCHANGED <<files, flock, seen, eid, event, items, claim, published>>

Claims(t) == \/ kind[t] = "take"
             \/ kind[t] = "finish" /\ target[t] = "done" /\ drain[t] /\ ~hold[t]

(* Continue with appending an event of type ty about follow-up i. *)
Appending(t, ty, i) ==
  /\ pc' = [pc EXCEPT ![t] = "load"]
  /\ event' = [event EXCEPT ![t] = [type |-> ty, item |-> i]]

(* After the follow-up is back: cancel the run as well, or return. *)
AfterRelease(t) ==
  IF cancels[t]
  THEN Appending(t, "run_finished", NoItem)
  ELSE pc' = [pc EXCEPT ![t] = "return"] /\ UNCHANGED event

(* Mutant: queue.lock excludes nobody. *)
TakeFlockShared(t) ==
  /\ pc[t] = "flock"
  /\ flock' = t
  /\ \/ /\ kind[t] \in {"queue", "release"} \/ Claims(t)
        /\ pc' = [pc EXCEPT ![t] = "read"] /\ UNCHANGED event
     \/ /\ kind[t] = "finish" /\ ~Claims(t)
        /\ Appending(t, "turn_finished", NoItem)
  /\ KeepsRest /\ UNCHANGED <<files, seen, eid, items, claim, cancels, published>>

TakeFlock(t) ==
  /\ pc[t] = "flock" /\ flock = NoThread
  /\ flock' = t
  /\ \/ /\ kind[t] \in {"queue", "release"} \/ Claims(t)
        /\ pc' = [pc EXCEPT ![t] = "read"] /\ UNCHANGED event
     \/ /\ kind[t] = "finish" /\ ~Claims(t)
        /\ Appending(t, "turn_finished", NoItem)
  /\ KeepsRest /\ UNCHANGED <<files, seen, eid, items, claim, cancels, published>>

ReadToQueue(t) ==
  /\ kind[t] = "queue"
  /\ IF Cardinality(Queue) >= QueueLimit
     THEN pc' = [pc EXCEPT ![t] = "return"] /\ UNCHANGED items
     ELSE /\ pc' = [pc EXCEPT ![t] = "snapshot"]
          /\ items' = [items EXCEPT ![t] = Queue \cup {nextItem}]
  /\ UNCHANGED <<event, claim>>

(* Mutant: the claim is taken out of queue.json without a journal entry. *)
ReadToClaimUnjournalled(t) ==
  /\ Claims(t) /\ UNCHANGED event
  /\ \/ \E i \in Queue :
           /\ Oldest(i, Queue)
           /\ claim' = [claim EXCEPT ![t] = i]
           /\ items' = [items EXCEPT ![t] = Queue \ {i}]
           /\ pc' = [pc EXCEPT ![t] = "snapshot"]
     \/ /\ Queue = {} /\ UNCHANGED <<items, claim>>
        /\ pc' = [pc EXCEPT ![t] = "return"]

ReadToClaim(t) ==
  /\ Claims(t)
  /\ \/ \E i \in Queue :
           /\ Oldest(i, Queue)
           /\ claim' = [claim EXCEPT ![t] = i]
           /\ items' = [items EXCEPT ![t] = Queue \ {i}]
           /\ Appending(t, "queued_message_started", i)
     \/ /\ Queue = {}
        /\ IF kind[t] = "take"
           THEN pc' = [pc EXCEPT ![t] = "return"] /\ UNCHANGED event
           ELSE Appending(t, "turn_finished", NoItem)
        /\ UNCHANGED <<items, claim>>

(* The journal must show the claim being returned, else ValueError. *)
Recorded(i) ==
  \E k \in DOMAIN journal : journal[k].type = "queued_message_started" /\ journal[k].item = i

(* Mutant: a returned claim replaces the queue instead of joining it. *)
ReadToReleaseAlone(t) ==
  /\ kind[t] = "release" /\ claim[t] # NoItem
  /\ items' = [items EXCEPT ![t] = {claim[t]}]
  /\ Appending(t, "queued_message_returned", claim[t])
  /\ UNCHANGED claim

ReadToRelease(t) ==
  /\ kind[t] = "release"
  /\ \/ /\ claim[t] # NoItem /\ Recorded(claim[t]) /\ claim[t] \notin Queue
        /\ items' = [items EXCEPT ![t] = Queue \cup {claim[t]}]
        /\ Appending(t, "queued_message_returned", claim[t])
     \/ /\ claim[t] = NoItem \/ (Recorded(claim[t]) /\ claim[t] \in Queue)
        /\ AfterRelease(t) /\ UNCHANGED items
     \/ /\ claim[t] # NoItem /\ ~Recorded(claim[t])
        /\ pc' = [pc EXCEPT ![t] = "return"] /\ UNCHANGED <<event, items>>
  /\ UNCHANGED claim

ReadFiles(t) ==
  /\ pc[t] = "read"
  /\ ReadToQueue(t) \/ ReadToClaim(t) \/ ReadToRelease(t)
  /\ KeepsRest /\ UNCHANGED <<files, flock, seen, eid, cancels, published>>

(* _append_event_sync: load meta, count the lines, append, write meta. *)
AppendLoad(t) ==
  /\ pc[t] = "load"
  /\ seen' = [seen EXCEPT ![t] = meta]
  /\ pc' = [pc EXCEPT ![t] = IF kind[t] = "set" THEN "stamp" ELSE "count"]
  /\ KeepsRest /\ UNCHANGED <<files, flock, eid, event, items, claim, cancels, published>>

(* Mutant: ids count from zero. *)
NextEventIdFromZero(t) ==
  /\ pc[t] = "count"
  /\ eid' = [eid EXCEPT ![t] = Len(journal)]
  /\ pc' = [pc EXCEPT ![t] = "append"]
  /\ KeepsRest /\ UNCHANGED <<files, flock, seen, event, items, claim, cancels, published>>

NextEventId(t) ==
  /\ pc[t] = "count"
  /\ eid' = [eid EXCEPT ![t] = Len(journal) + 1]
  /\ pc' = [pc EXCEPT ![t] = "append"]
  /\ KeepsRest /\ UNCHANGED <<files, flock, seen, event, items, claim, cancels, published>>

AppendLine(t) ==
  /\ pc[t] = "append"
  /\ journal' = Append(journal, [id |-> eid[t], type |-> event[t].type, item |-> event[t].item])
  /\ pc' = [pc EXCEPT ![t] = "stamp"]
  /\ KeepsRest
  /\ UNCHANGED <<meta, queueFile, nextItem, flock, seen, eid, event, items, claim, cancels, published>>

(* Mutant: every append marks the run as running. *)
StampMetaRunning(t) ==
  /\ pc[t] = "stamp"
  /\ meta' = "running"
  /\ pc' = [pc EXCEPT ![t] = "return"] /\ UNCHANGED event
  /\ KeepsRest
  /\ UNCHANGED <<journal, queueFile, nextItem, flock, seen, eid, items, claim, cancels, published>>

(* The append ends by writing back the state it read at its beginning. *)
StampMeta(t) ==
  /\ pc[t] = "stamp"
  /\ meta' = seen[t]
  /\ LET ty == event[t].type IN
     \/ /\ ty = "event"
        /\ pc' = [pc EXCEPT ![t] = "return"] /\ UNCHANGED event
     \/ /\ ty \in Mark
        /\ pc' = [pc EXCEPT ![t] = "snapshot"] /\ UNCHANGED event
     \/ /\ ty = "turn_finished" /\ claim[t] = NoItem /\ ~hold[t]
        /\ Appending(t, "run_finished", NoItem)
     \/ /\ \/ ty = "run_finished"
           \/ ty = "turn_finished" /\ (claim[t] # NoItem \/ hold[t])
        /\ pc' = [pc EXCEPT ![t] = "publish"] /\ UNCHANGED event
  /\ KeepsRest
  /\ UNCHANGED <<journal, queueFile, nextItem, flock, seen, eid, items, claim, cancels, published>>

WriteQueue(t) ==
  /\ pc[t] = "snapshot"
  /\ queueFile' = items[t]
  /\ nextItem' = IF kind[t] = "queue" THEN nextItem + 1 ELSE nextItem
  /\ \/ /\ kind[t] \in {"queue", "take"}
        /\ pc' = [pc EXCEPT ![t] = "return"] /\ UNCHANGED event
     \/ /\ kind[t] = "finish"
        /\ Appending(t, "turn_finished", NoItem)
     \/ /\ kind[t] = "release"
        /\ AfterRelease(t)
  /\ KeepsRest
  /\ UNCHANGED <<meta, journal, flock, seen, eid, items, claim, cancels, published>>

FinalState(t) ==
  IF kind[t] = "finish" /\ (claim[t] # NoItem \/ hold[t]) THEN "running" ELSE target[t]

Publish(t) ==
  /\ pc[t] = "publish"
  /\ meta' = FinalState(t)
  /\ published' = FinalState(t)
  /\ pc' = [pc EXCEPT ![t] = "return"]
  /\ KeepsRest
  /\ UNCHANGED <<journal, queueFile, nextItem, flock, local>>

(* The threads in S are done: their locals are gone and their locks free. *)
Reset(f, S, v) == [t \in Thread |-> IF t \in S THEN v ELSE f[t]]

(* Mutant: queue.lock stays taken. *)
StopLocked(S) ==
  /\ pc' = Reset(pc, S, "idle") /\ kind' = Reset(kind, S, "idle")
  /\ seen' = Reset(seen, S, "running") /\ eid' = Reset(eid, S, 1)
  /\ event' = Reset(event, S, NoEvent)
  /\ items' = Reset(items, S, {}) /\ claim' = Reset(claim, S, NoItem)
  /\ target' = Reset(target, S, "running")
  /\ drain' = Reset(drain, S, FALSE) /\ hold' = Reset(hold, S, FALSE)
  /\ cancels' = Reset(cancels, S, FALSE)
  /\ detached' = Reset(detached, S, FALSE)
  /\ lock' = [p \in Proc |-> IF lock[p] \in S THEN NoThread ELSE lock[p]]
  /\ UNCHANGED <<flock, files, executed, published>>

Stop(S) ==
  /\ pc' = Reset(pc, S, "idle") /\ kind' = Reset(kind, S, "idle")
  /\ seen' = Reset(seen, S, "running") /\ eid' = Reset(eid, S, 1)
  /\ event' = Reset(event, S, NoEvent)
  /\ items' = Reset(items, S, {}) /\ claim' = Reset(claim, S, NoItem)
  /\ target' = Reset(target, S, "running")
  /\ drain' = Reset(drain, S, FALSE) /\ hold' = Reset(hold, S, FALSE)
  /\ cancels' = Reset(cancels, S, FALSE)
  /\ detached' = Reset(detached, S, FALSE)
  /\ flock' = IF flock \in S THEN NoThread ELSE flock
  /\ lock' = [p \in Proc |-> IF lock[p] \in S THEN NoThread ELSE lock[p]]
  /\ UNCHANGED <<files, executed, published>>

(* A claim reaches the client unless its coroutine was cancelled meanwhile. *)
Return(t) ==
  /\ pc[t] = "return"
  /\ work' = IF Claims(t) /\ claim[t] # NoItem /\ ~detached[t]
             THEN [work EXCEPT ![ProcOf[t]] = @ \cup {claim[t]}] ELSE work
  /\ Stop({t})
  /\ UNCHANGED budget

-----------------------------------------------------------------------------
(* Cancellation, failed writes, crashes, and what clients do with a claim.  *)

(* The coroutine awaiting t is cancelled.  Queue operations are settled:    *)
(* the lock stays until the thread ends and the result is dropped.          *)
Cancel(t) ==
  /\ pc[t] # "idle" /\ ~detached[t]
  /\ Spend("cancel")
  /\ detached' = [detached EXCEPT ![t] = TRUE]
  /\ lock' = IF kind[t] \in QueueKind THEN lock
             ELSE [lock EXCEPT ![ProcOf[t]] = NoThread]
  /\ UNCHANGED <<files, flock, pc, args, local, client, published>>

(* A write raises OSError: the operation ends and its locks are freed. *)
FaultyWrite(t) ==
  /\ pc[t] \in {"append", "stamp", "snapshot", "publish"}
  /\ Spend("fault")
  /\ Stop({t})
  /\ UNCHANGED work

(* The process dies: its threads stop where they are, its memory is lost. *)
Crash(p) ==
  /\ Spend("crash")
  /\ Stop({t \in Thread : ProcOf[t] = p})
  /\ work' = [work EXCEPT ![p] = {}]

(* A client runs a claimed follow-up as the next turn. *)
Execute(p, i) ==
  /\ work' = [work EXCEPT ![p] = @ \ {i}]
  /\ executed' = executed \cup {i}
  /\ UNCHANGED <<files, flock, lock, pc, args, local, detached, published, budget>>

-----------------------------------------------------------------------------
Request(t) ==
  \/ QueueMessage(t) \/ TakeQueuedMessage(t) \/ AppendEvent(t)
  \/ \E i \in work[ProcOf[t]] \cup {NoItem}, c \in BOOLEAN : ReleaseQueuedMessage(t, i, c)
  \/ \E e \in TurnEnd : FinishTurn(t, e[1], e[2], e[3])
  \/ SetRuntime(t)
  \/ \E s \in SetState : UpdateState(t, s)

Step(t) ==
  \/ LoadRun(t) \/ TakeFlock(t) \/ ReadFiles(t)
  \/ AppendLoad(t) \/ NextEventId(t) \/ AppendLine(t) \/ StampMeta(t)
  \/ WriteQueue(t) \/ Publish(t) \/ Return(t)

Next ==
  \/ \E t \in Thread : Request(t) \/ Step(t) \/ Cancel(t) \/ FaultyWrite(t)
  \/ \E p \in Proc : Crash(p) \/ \E i \in work[p] : Execute(p, i)

Spec == Init /\ [][Next]_vars

(* Threads are scheduled, and the kernel hands queue.lock to every waiter. *)
FairSpec == Spec /\ \A t \in Thread : WF_vars(Step(t)) /\ SF_vars(TakeFlock(t))

-----------------------------------------------------------------------------
TypeOK ==
  /\ meta \in RunState /\ published \in RunState
  /\ journal \in Seq(Line)
  /\ queueFile \subseteq Item
  /\ nextItem \in Item
  /\ flock \in Thread \cup {NoThread}
  /\ lock \in [Proc -> Thread \cup {NoThread}]
  /\ pc \in [Thread -> Label] /\ kind \in [Thread -> Kind]
  /\ seen \in [Thread -> RunState] /\ target \in [Thread -> RunState]
  /\ eid \in [Thread -> Nat \ {0}]
  /\ event \in [Thread -> Event]
  /\ items \in [Thread -> SUBSET Item]
  /\ claim \in [Thread -> Item \cup {NoItem}]
  /\ drain \in [Thread -> BOOLEAN] /\ hold \in [Thread -> BOOLEAN]
  /\ cancels \in [Thread -> BOOLEAN]
  /\ detached \in [Thread -> BOOLEAN]
  /\ work \in [Proc -> SUBSET Item]
  /\ executed \subseteq Item
  /\ budget \in [Hazard -> Nat]

(* No follow-up is run twice: one that a client has in hand is in nobody   *)
(* else's hands, is not in the queue any more and has not been run; one    *)
(* that was run never comes back to the queue ("A crash after this journal *)
(* entry must not replay an unknown side effect").                         *)
AtMostOnce ==
  /\ \A p, q \in Proc : p # q => work[p] \cap work[q] = {}
  /\ \A p \in Proc : work[p] \cap (Queue \cup executed) = {}
  /\ executed \cap Queue = {}

(* A follow-up that was accepted and is no longer offered has a started    *)
(* entry in the journal: whatever crashes, nothing vanishes without trace. *)
NoSilentLoss ==
  \A i \in 1 .. (nextItem - 1) : i \in Queue \/ Started(journal, i)

InFlight == {claim[t] : t \in {u \in Thread : claim[u] # NoItem}}

(* Follow-ups claimed and not yet run: in a client's hands, or on their way *)
(* to or from one inside a running operation.                               *)
Owned == (UNION {work[p] : p \in Proc}) \cup {i \in InFlight : Started(journal, i)}

(* As long as nothing crashes, fails or is cancelled, every accepted       *)
(* follow-up is queued, claimed or run: queueing, claiming and returning   *)
(* by several processes loses none.                                        *)
NothingLost ==
  (\A k \in {"crash", "fault", "cancel"} : budget[k] = Bound[k])
    => 1 .. (nextItem - 1) \subseteq Queue \cup Owned \cup executed

(* finish_turn publishes completion only over an empty queue: a follow-up  *)
(* cannot slip in between the check and the completion of the run.         *)
NoMissedFollowup ==
  \A t \in Thread :
    pc[t] = "publish" /\ Claims(t) /\ FinalState(t) = "done" => Queue = {}

(* The state of the run is the one last published by finish_turn,          *)
(* release_queued_message, update_state or finish_run: appending an event  *)
(* does not undo it ("publish completion after the session was saved").    *)
PublishedStateStands == meta = published

(* Event ids number the lines of the journal, so that a reader polling for *)
(* the events after an id misses none.                                     *)
EventIdsNumberLines == \A k \in DOMAIN journal : journal[k].id = k

(* Every operation ends: nobody waits for the queue lock forever.          *)
OperationsEnd == \A t \in Thread : pc[t] # "idle" ~> pc[t] = "idle"

(* The store implements the queue of follow-ups its clients believe in.    *)
F == INSTANCE FollowupQueue WITH
       pending <- Queue, owned <- Owned, executed <- executed,
       accepted <- nextItem - 1, Limit <- QueueLimit

FollowupQueueSpec == F!Spec
=============================================================================
