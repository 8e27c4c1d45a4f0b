---------------------------- MODULE Automations ----------------------------
(***************************************************************************)
(* Recurring runs: the store of automations (core/automations.py), the     *)
(* scheduler of the daemon that starts what is due, requests to run one    *)
(* now, and the life of a scheduled run from its creation to the state it  *)
(* publishes after report and delivery (daemon.py).                        *)
(*                                                                         *)
(* Everything in the daemon interleaves at awaits.  A store operation      *)
(* reads a record in a thread and writes it in a later step, under a lock  *)
(* of its store instance; a terminal, a bot or a schedule tool has an      *)
(* instance, and so a lock, of its own on the same files.                  *)
(***************************************************************************)
EXTENDS Integers, FiniteSets

CONSTANTS
  Automation,    \* automations; each has a provider of its own
  Period,        \* minutes between the occurrences of an automation
  Slot,          \* runs kept at a time; one that is over makes room
  Outside,       \* clients may use a store instance of their own
  MaxConcurrent, \* max_concurrent_runs
  MaxDue,        \* max_due_per_tick
  CooldownFirst, \* provider_cooldown_initial_seconds
  CooldownMax,   \* provider_cooldown_max_seconds
  MaxTime,       \* bound: minutes
  MaxDisturb     \* bound: requests of clients, failing starts, and crashes

ASSUME AutomationsAssumption ==
  /\ Period \in [Automation -> Nat \ {0}] /\ IsFiniteSet(Slot) /\ Slot \subseteq Nat
  /\ Outside \in BOOLEAN
  /\ MaxConcurrent \in Nat \ {0} /\ MaxDue \in Nat \ {0}
  /\ CooldownFirst \in Nat \ {0} /\ CooldownMax \in Nat \ {0}
  /\ MaxTime \in Nat /\ MaxDisturb \in Nat

VARIABLES
  now,      \* the clock
  record,   \* the file of each automation: its status and next_run_at
  op,       \* the store operation each actor is in
  loop,     \* _automation_loop is "asleep", is "listing", or is at "work"
  slots,    \* available_slots of the tick
  due,      \* the due automations the tick has still to consider
  start,    \* where each caller of _start_automation_run stands
  run,      \* the runs: their automation, durable state, task, local state
  cool,     \* _provider_cooldowns: when the provider's last one is over
  budget,   \* what is left of MaxDisturb
  decided,  \* history: the status of each automation as last decided
  fired     \* history: how often the scheduler ran each occurrence

storeVars == <<record, op, decided>>
tickVars  == <<loop, slots, due>>
vars == <<now, storeVars, tickVars, start, run, cool, budget, fired>>

Starter == {"tick", "request"}
Actor   == Starter \cup {"client"}   \* whoever calls the store
Store   == {"daemon", "own"}         \* its instances
Exists  == {"active", "paused"}
Status  == Exists \cup {"new", "deleted"}
Kind    == {"mark", "pause", "resume", "reschedule", "model"}

Final   == {"done", "failed", "cancelled"}
WrapUp    == {"partial", "report"}
Working == {"new", "turn"} \cup WrapUp

Time    == 0..(MaxTime + CHOOSE m \in {Period[a] : a \in Automation} : \A a \in Automation : Period[a] <= m)
NoOp    == [kind |-> "none"]
NoStart == [pc |-> "none"]
NoRun   == [task |-> "none"]
Over(meta, cut) == [task |-> "over", meta |-> meta, cut |-> cut]

Disturbs == budget > 0 /\ budget' = budget - 1

(* next_scheduled_at; the forms of schedules are module Schedule's. *)
NextScheduledAt(a, after) == after + Period[a]

IsDue(a) == record[a].status = "active" /\ record[a].next <= now

(* _provider_cooldown_remaining(...) > 0 *)
Cooling(a) == now < cool[a]

(* Mutant: a run that is over still counts. *)
ActiveForever == {r \in Slot : run[r].task \in Working \cup {"over"}}

(* _active_automation_count *)
Active == {r \in Slot : run[r].task \in Working}

Init ==
  /\ now = 0
  /\ record \in [Automation -> {[status |-> "new", next |-> 0], [status |-> "active", next |-> 0]}]
  /\ op = [x \in Actor |-> NoOp]
  /\ loop = "asleep" /\ slots = 0 /\ due = {}
  /\ start = [p \in Starter |-> NoStart]
  /\ run = [r \in Slot |-> NoRun]
  /\ cool = [a \in Automation |-> 0]
  /\ budget = MaxDisturb
  /\ decided = [a \in Automation |-> record[a].status]
  /\ fired = [a \in Automation |-> [t \in Time |-> 0]]

TimePasses ==
  /\ now < MaxTime /\ now' = now + 1
  /\ UNCHANGED <<storeVars, tickVars, start, run, cool, budget, fired>>

-----------------------------------------------------------------------------
(* The store.  An operation takes the lock of its instance and reads the   *)
(* record; unless there is none, it writes the changed record back.        *)

Locked(s) == \E x \in Actor : op[x].kind # "none" /\ op[x].store = s

(* Mutant: the operations of an instance are not serialised. *)
ReadsUnlocked(x, s, kind, a) ==
  /\ op[x].kind = "none" /\ record[a].status \in Exists
  /\ op' = [op EXCEPT ![x] = [kind |-> kind, auto |-> a, store |-> s, seen |-> record[a], at |-> now]]

Reads(x, s, kind, a) ==
  /\ op[x].kind = "none" /\ ~Locked(s) /\ record[a].status \in Exists
  /\ op' = [op EXCEPT ![x] = [kind |-> kind, auto |-> a, store |-> s, seen |-> record[a], at |-> now]]

(* Mutant: mark_run does not advance next_run_at. *)
ChangedUnmarked(o) ==
  [status |-> CASE o.kind = "pause" -> "paused" [] o.kind = "resume" -> "active"
                [] OTHER -> o.seen.status,
   next   |-> IF o.kind \in {"resume", "reschedule"} THEN NextScheduledAt(o.auto, o.at)
              ELSE o.seen.next]

(* The record an operation writes: pausing keeps the next time, a new model *)
(* keeps everything, the others compute the next time from the time at      *)
(* which they began.                                                        *)
Changed(o) ==
  [status |-> CASE o.kind = "pause" -> "paused" [] o.kind = "resume" -> "active"
                [] OTHER -> o.seen.status,
   next   |-> IF o.kind \in {"mark", "resume", "reschedule"} THEN NextScheduledAt(o.auto, o.at)
              ELSE o.seen.next]

Writes(x) ==
  /\ op[x].kind # "none"
  /\ record' = [record EXCEPT ![op[x].auto] = Changed(op[x])]
  /\ op' = [op EXCEPT ![x] = NoOp]

Decides(a, status) == decided' = [decided EXCEPT ![a] = status]

ClientStores == {"daemon"} \cup (IF Outside THEN {"own"} ELSE {})

(* pause_automation, resume_automation, update_automation (a new schedule), *)
(* update_global_model, and the same operations of a client's own instance. *)
ClientReads(a) ==
  /\ Disturbs
  /\ \E s \in ClientStores, kind \in Kind \ {"mark"} : Reads("client", s, kind, a)
  /\ UNCHANGED <<now, record, decided, tickVars, start, run, cool, fired>>

ClientWrites ==
  /\ Writes("client")
  /\ LET o == op["client"] IN
     IF o.kind \in {"pause", "resume"} THEN Decides(o.auto, Changed(o).status) ELSE UNCHANGED decided
  /\ UNCHANGED <<now, tickVars, start, run, cool, budget, fired>>

(* create gives the automation a file of a new name, delete unlinks it. *)
Create(a) ==
  /\ Disturbs
  /\ record[a].status = "new" /\ ~Locked("daemon")
  /\ \E status \in Exists :
       record' = [record EXCEPT ![a] = [status |-> status, next |-> NextScheduledAt(a, now)]]
       /\ Decides(a, status)
  /\ UNCHANGED <<now, op, tickVars, start, run, cool, fired>>

Delete(a) ==
  /\ Disturbs
  /\ record[a].status \in Exists
  /\ \E s \in ClientStores : ~Locked(s)
  /\ record' = [record EXCEPT ![a].status = "deleted"]
  /\ Decides(a, "deleted")
  /\ UNCHANGED <<now, op, tickVars, start, run, cool, fired>>

-----------------------------------------------------------------------------
(* The scheduler.                                                          *)

(* The slots are counted once per tick. *)
TickBegins ==
  /\ loop = "asleep" /\ Cardinality(Active) < MaxConcurrent
  /\ slots' = MaxConcurrent - Cardinality(Active)
  /\ loop' = "listing"
  /\ UNCHANGED <<now, storeVars, due, start, run, cool, budget, fired>>

(* due(): the first MaxDue of the due automations, the longest waiting first. *)
TickLists ==
  /\ loop = "listing"
  /\ \E D \in SUBSET {a \in Automation : IsDue(a)} :
       /\ \A a \in D, b \in Automation \ D : IsDue(b) => record[a].next <= record[b].next
       /\ \/ Cardinality(D) = MaxDue
          \/ Cardinality(D) < MaxDue /\ D = {a \in Automation : IsDue(a)}
       /\ due' = {[auto |-> a, next |-> record[a].next] : a \in D}
  /\ loop' = "work"
  /\ UNCHANGED <<now, storeVars, slots, start, run, cool, budget, fired>>

(* One due automation: passed over while its provider cools down, started   *)
(* otherwise, from the list read before.                                    *)
TickTakes ==
  /\ loop = "work" /\ start["tick"].pc = "none" /\ slots > 0
  /\ \E d \in due :
       /\ \A e \in due : d.next <= e.next
       /\ due' = due \ {d}
       /\ start' = IF Cooling(d.auto) THEN start
                   ELSE [start EXCEPT !["tick"] = [pc |-> "create", auto |-> d.auto, next |-> d.next]]
  /\ UNCHANGED <<now, storeVars, loop, slots, run, cool, budget, fired>>

TickEnds ==
  /\ loop = "work" /\ start["tick"].pc = "none" /\ (due = {} \/ slots = 0)
  /\ loop' = "asleep" /\ due' = {} /\ slots' = 0
  /\ UNCHANGED <<now, storeVars, start, run, cool, budget, fired>>

(* run_automation_now: neither the status nor a run in progress matters. *)
RunNow(a) ==
  /\ Disturbs
  /\ start["request"].pc = "none" /\ record[a].status \in Exists
  /\ Cardinality(Active) < MaxConcurrent /\ ~Cooling(a)
  /\ start' = [start EXCEPT !["request"] = [pc |-> "create", auto |-> a, next |-> record[a].next]]
  /\ UNCHANGED <<now, storeVars, tickVars, run, cool, fired>>

-----------------------------------------------------------------------------
(* _start_automation_run: create the run, move the automation to its next   *)
(* time, write the event, and create the task.                              *)

Goes(p, pc) == start' = [start EXCEPT ![p].pc = pc]

Taken == {start[p].run : p \in {q \in Starter : start[q].pc \in {"mark", "marking", "event"}}}

Free == {r \in Slot : run[r].task \in {"none", "over"}} \ Taken

CreateRun(p) ==
  /\ start[p].pc = "create"
  /\ \E r \in Free :
       /\ \A s \in Free : r <= s
       /\ run' = [run EXCEPT ![r] = [task |-> "none", auto |-> start[p].auto, meta |-> "queued",
                                     state |-> "done", by |-> p]]
       /\ start' = [start EXCEPT ![p] = [pc |-> "mark", auto |-> @.auto, next |-> @.next, run |-> r]]
  /\ UNCHANGED <<now, storeVars, tickVars, cool, budget, fired>>

MarkReads(p) ==
  /\ start[p].pc = "mark"
  /\ Reads(p, "daemon", "mark", start[p].auto)
  /\ Goes(p, "marking")
  /\ UNCHANGED <<now, record, decided, tickVars, run, cool, budget, fired>>

MarkWrites(p) ==
  /\ start[p].pc = "marking"
  /\ Writes(p)
  /\ Goes(p, "event")
  /\ UNCHANGED <<now, decided, tickVars, run, cool, budget, fired>>

(* The automation has been deleted: mark_run returns None, which nobody reads. *)
MarkMisses(p) ==
  /\ start[p].pc = "mark" /\ ~Locked("daemon") /\ record[start[p].auto].status \notin Exists
  /\ Goes(p, "event")
  /\ UNCHANGED <<now, storeVars, tickVars, run, cool, budget, fired>>

(* An error of the disk: a tick records it and goes on, a request fails.    *)
(* What was created stays.                                                  *)
StartFails(p) ==
  /\ start[p].pc \in {"create", "marking", "event"} /\ Disturbs
  /\ start' = [start EXCEPT ![p] = NoStart]
  /\ op' = [op EXCEPT ![p] = NoOp]
  /\ UNCHANGED <<now, record, decided, tickVars, run, cool, fired>>

(* Mutant: a start does not use up a slot. *)
LaunchUncounted(p) ==
  /\ start[p].pc = "event"
  /\ run' = [run EXCEPT ![start[p].run].task = "new"]
  /\ start' = [start EXCEPT ![p] = NoStart]
  /\ fired' = IF p = "tick" THEN [fired EXCEPT ![start[p].auto][start[p].next] = @ + 1] ELSE fired
  /\ UNCHANGED <<now, storeVars, tickVars, cool, budget>>

Launch(p) ==
  /\ start[p].pc = "event"
  /\ run' = [run EXCEPT ![start[p].run].task = "new"]
  /\ start' = [start EXCEPT ![p] = NoStart]
  /\ IF p = "tick"
     THEN slots' = slots - 1 /\ fired' = [fired EXCEPT ![start[p].auto][start[p].next] = @ + 1]
     ELSE UNCHANGED <<slots, fired>>
  /\ UNCHANGED <<now, storeVars, loop, due, cool, budget>>

-----------------------------------------------------------------------------
(* The task of a run, _run_automation_agent.                               *)

TaskKeeps == UNCHANGED <<now, storeVars, tickVars, start, fired>>

Begin(r) ==
  /\ run[r].task = "new"
  /\ run' = [run EXCEPT ![r].task = "turn", ![r].meta = "running"]
  /\ UNCHANGED <<cool, budget>> /\ TaskKeeps

Least(m, n) == IF m < n THEN m ELSE n

(* _record_provider_cooldown: the delay doubles from the first to the longest *)
(* with each failure.  It ends with the bound on time at the latest.          *)
CoolsUntil == {Least(now + delay, MaxTime) : delay \in CooldownFirst..CooldownMax}

(* Mutant: the turn publishes its state. *)
TurnEndsPublished(r) ==
  /\ run[r].task = "turn"
  /\ \E state \in {"done", "failed"} :
       run' = [run EXCEPT ![r].state = state, ![r].meta = state, ![r].task = "report"]
  /\ UNCHANGED <<cool, budget>> /\ TaskKeeps

(* The turn ends with its final state held back: the run goes on to a       *)
(* partial report unless it is done and has a summary, or its provider      *)
(* cools down.                                                              *)
TurnEnds(r) ==
  /\ run[r].task = "turn"
  /\ \E state \in {"done", "failed"}, summary \in BOOLEAN, limited \in BOOLEAN :
       LET a == run[r].auto IN
       /\ \/ limited /\ \E until \in CoolsUntil : cool' = [cool EXCEPT ![a] = until]
          \/ ~limited /\ cool' = [cool EXCEPT ![a] = IF state = "done" THEN 0 ELSE @]
       /\ run' = [run EXCEPT ![r].state = state,
                    ![r].task = IF (state = "done" /\ summary) \/ now < cool'[a]
                                THEN "report" ELSE "partial"]
  /\ UNCHANGED budget /\ TaskKeeps

(* _finalize_partial_automation, within its own timeout. *)
Partial(r) ==
  /\ run[r].task = "partial"
  /\ \E finalized \in BOOLEAN :
       run' = [run EXCEPT ![r].state = IF finalized THEN "done" ELSE @, ![r].task = "report"]
  /\ UNCHANGED <<cool, budget>> /\ TaskKeeps

(* The report is written and, perhaps, delivered; then the state is published. *)
Report(r) ==
  /\ run[r].task = "report"
  /\ \E written \in BOOLEAN :
       run' = [run EXCEPT ![r] = Over(IF written THEN @.state ELSE "failed", FALSE)]
  /\ UNCHANGED <<cool, budget>> /\ TaskKeeps

(* cancel_run.  A turn ends as cancelled and goes on to its report; a task  *)
(* that has not begun, or is past its turn, just ends ("cut"); without a    *)
(* task the state is written at once.                                       *)
Cancel(r) ==
  /\ Disturbs
  /\ \/ /\ run[r].task = "turn"
        /\ run' = [run EXCEPT ![r].task = "report", ![r].state = "cancelled"]
     \/ /\ run[r].task \in {"new"} \cup WrapUp
        /\ run' = [run EXCEPT ![r] = Over(@.meta, TRUE)]
     \/ /\ run[r] # NoRun /\ run[r].task \notin Working
        /\ run' = [run EXCEPT ![r].meta = "cancelled"]
  /\ UNCHANGED cool /\ TaskKeeps

(* The daemon dies and begins again: nobody takes up the runs it left. *)
Crash ==
  /\ Disturbs
  /\ op' = [x \in Actor |-> IF op[x].kind # "none" /\ op[x].store = "own" THEN op[x] ELSE NoOp]
  /\ loop' = "asleep" /\ slots' = 0 /\ due' = {}
  /\ start' = [p \in Starter |-> NoStart]
  /\ run' = [r \in Slot |-> IF run[r].task \in Working THEN Over(run[r].meta, TRUE) ELSE run[r]]
  /\ cool' = [a \in Automation |-> 0]
  /\ UNCHANGED <<now, record, decided, fired>>

-----------------------------------------------------------------------------
StartStep(p) == CreateRun(p) \/ MarkReads(p) \/ MarkWrites(p) \/ MarkMisses(p) \/ Launch(p)
TickStep     == TickBegins \/ TickLists \/ TickTakes \/ TickEnds
RunStep(r)   == Begin(r) \/ TurnEnds(r) \/ Partial(r) \/ Report(r)

Next ==
  \/ TimePasses
  \/ \E a \in Automation : ClientReads(a) \/ Create(a) \/ Delete(a) \/ RunNow(a)
  \/ ClientWrites
  \/ TickStep
  \/ \E p \in Starter : StartStep(p) \/ StartFails(p)
  \/ \E r \in Slot : RunStep(r) \/ Cancel(r)
  \/ Crash

Spec == Init /\ [][Next]_vars

(* The event loop resumes whoever can go on, turns and tails have timeouts, *)
(* and time passes.  Clients are not fair.                                  *)
FairSpec ==
  /\ Spec
  /\ WF_vars(TimePasses) /\ WF_vars(ClientWrites) /\ WF_vars(TickStep)
  /\ \A p \in Starter : WF_vars(StartStep(p))
  /\ \A r \in Slot : WF_vars(RunStep(r))

-----------------------------------------------------------------------------
Meta == {"queued", "running"} \cup Final
Run  == {NoRun} \cup {Over(meta, cut) : meta \in Meta, cut \in BOOLEAN}
        \cup [task : {"none"} \cup Working, auto : Automation, meta : Meta, state : Final, by : Starter]

(* Types of the variables. *)
TypeOK ==
  /\ now \in 0..MaxTime
  /\ record \in [Automation -> [status : Status, next : Time]]
  /\ \A x \in Actor : op[x] = NoOp \/
       op[x] \in [kind : Kind, auto : Automation, store : Store,
                 seen : [status : Exists, next : Time], at : 0..MaxTime]
  /\ loop \in {"asleep", "listing", "work"} /\ slots \in 0..MaxConcurrent
  /\ due \subseteq [auto : Automation, next : Time]
  /\ \A p \in Starter : start[p] = NoStart \/
       start[p] \in [pc : {"create"}, auto : Automation, next : Time]
               \cup [pc : {"mark", "marking", "event"}, auto : Automation, next : Time, run : Slot]
  /\ run \in [Slot -> Run]
  /\ cool \in [Automation -> 0..MaxTime]
  /\ budget \in 0..MaxDisturb
  /\ decided \in [Automation -> Status]
  /\ fired \in [Automation -> [Time -> Nat]]

(* The scheduler by itself keeps to max_concurrent_runs: it counts the      *)
(* active runs once per tick, several awaits before it starts the last.     *)
SchedulerWithinLimit ==
  Cardinality({r \in Slot : run[r].task \in Working /\ run[r].by = "tick"}) <= MaxConcurrent

(* The scheduler runs an occurrence at most once, whatever fails or crashes *)
(* between marking and starting, and although its list of due automations   *)
(* is old when it comes to the last of them.                                *)
OccurrenceOnce == \A a \in Automation, t \in Time : fired[a][t] <= 1

(* A pause, a resume or a deletion stands until the next one: mark_run, a   *)
(* new schedule and a new model write the record back and do not undo it.   *)
DecisionStands == \A a \in Automation : record[a].status = decided[a]

(* While a scheduled run is at work, down to its report and delivery, its   *)
(* record does not say that it is over.                                     *)
OpenUntilDelivered ==
  \A r \in Slot : run[r].task \in {"turn"} \cup WrapUp => run[r].meta = "running"

(* A due automation is run, paused or removed in the end: neither failing   *)
(* starts nor cooling providers nor full slots starve it.                   *)
EveryOccurrenceRuns == \A a \in Automation : IsDue(a) ~> ~IsDue(a)
=============================================================================
