----------------------------- MODULE AgentTurn -----------------------------
(***************************************************************************)
(* A turn of the agent (core/agent.py) over its session (core/session.py): *)
(* streaming with retries and fallback providers, batches of tool calls    *)
(* with permissions, steering and plan mode that arrive meanwhile, the     *)
(* deadline, compaction, checkpoints, and the recovery of what was         *)
(* interrupted.                                                            *)
(*                                                                         *)
(* The turn, its tool tasks and the handlers of control requests are       *)
(* coroutines of one event loop: an action runs from one await to the      *)
(* next.  A message keeps what pairing, compaction and steering look at; a *)
(* tool call keeps its kind and what the permission rules say of it.       *)
(***************************************************************************)
EXTENDS Integers, Sequences, SequencesExt, FiniteSets

CONSTANTS
  Batch,       \* the batches of tool calls a provider may ask for
  MaxCalls,    \* max_tool_calls_per_turn
  Retries,     \* provider_retry_attempts
  Providers,   \* the primary provider and the fallback providers
  KeepLast,    \* compact_keep_last
  Threshold,   \* messages whose estimated tokens reach auto_compact_threshold
  FreshIds,    \* no two calls of a session have the same id
  HasDeadline, \* the turn has a deadline
  MaxTurn,     \* bound: turns
  MaxBatch,    \* bound: batches of tool calls
  MaxControl,  \* bound: control requests
  MaxDisturb   \* bound: stopped turns, crashes, checkpoints that fail

Kind   == {"read", "write", "plugin"}  \* read-only; a shielded file write; any other tool
Policy == {"allow", "ask", "refuse"}   \* PermissionManager.check; an unknown tool is refused

ASSUME AgentTurnAssumption ==
  /\ \A b \in Batch : b \in Seq([kind : Kind, policy : Policy]) /\ b # <<>>
  /\ MaxCalls \in Nat /\ Retries \in Nat /\ Providers \in Nat \ {0} /\ KeepLast \in Nat
  /\ Threshold \in Nat \ {0}
  /\ FreshIds \in BOOLEAN /\ HasDeadline \in BOOLEAN
  /\ MaxTurn \in Nat /\ MaxBatch \in Nat /\ MaxControl \in Nat /\ MaxDisturb \in Nat

VARIABLES
  session,   \* the session: log, cut (messages archived), steering, mode
  saved,     \* session.json
  active,    \* the task's session object is in _active_sessions
  writes,    \* checkpoints on their way, as RunStore's lock orders them
  pc,        \* where the turn stands
  after,     \* where it goes on when its checkpoint is written
  request,   \* the request to a provider: which one, the attempt, what it has
             \* streamed, and whether the context had reached the threshold
  counted,   \* _turn_tool_calls
  batch,     \* tool_calls, each with its place in the transcript
  stage,     \* how far each of them is
  clock,     \* "early", "near" (within the reserve) or "past" the deadline
  handler,   \* the control request being served
  budget,    \* what is left of the bounds
  ran, accepted  \* history: calls that were executed; steering confirmed to a client

sessionVars  == <<session, saved, active, writes>>
batchVars    == <<counted, batch, stage>>
turnVars     == <<pc, after, request, batchVars>>
historyVars  == <<ran, accepted>>
vars == <<sessionVars, turnVars, clock, handler, budget, historyVars>>

Bound == [turn |-> MaxTurn, batch |-> MaxBatch, control |-> MaxControl, disturb |-> MaxDisturb]
Spend(b) == budget[b] > 0 /\ budget' = [budget EXCEPT ![b] = @ - 1]

Empty   == [log |-> <<>>, cut |-> 0, steering |-> <<>>, mode |-> "default"]
Nobody  == [pc |-> "none", note |-> 0, session |-> Empty]

Answered == {"no", "held", "ran", "stopped"}   \* calls that have their result
NoRequest == [provider |-> 1, attempt |-> 0, heard |-> {}, over |-> FALSE]
InFlight == {"checked", "running", "draining"}

Init ==
  /\ session = Empty /\ saved = Empty /\ active = FALSE /\ writes = <<>>
  /\ pc = "idle" /\ after = "idle"
  /\ request = NoRequest
  /\ counted = 0 /\ batch = <<>> /\ stage = <<>> /\ clock = "early"
  /\ handler = Nobody /\ budget = Bound /\ ran = {} /\ accepted = {}

-----------------------------------------------------------------------------
(* The session.  session.messages is the log without what is archived.     *)

User(note)    == [type |-> "user", note |-> note]  \* note 0: not steering
Text          == [type |-> "text"]
Request(cs)   == [type |-> "calls", calls |-> cs]
Results(as)   == [type |-> "results", answers |-> as]
Add(s, ms)    == [s EXCEPT !.log = @ \o ms]

Messages(s)   == SubSeq(s.log, s.cut + 1, Len(s.log))
Ids(cs)       == {cs[k].id : k \in DOMAIN cs}
AnswersIn(ms) == UNION {Ids(ms[i].answers) : i \in {j \in 1..Len(ms) : ms[j].type = "results"}}

(* The calls that have no later result. *)
Interrupted(ms) ==
  LET Told(c, i) == c.id \in AnswersIn(SubSeq(ms, i + 1, Len(ms)))
      OpenCalls(i) ==
        LET cs == ms[i].calls
        IN FlattenSeq([k \in 1..Len(cs) |-> IF Told(cs[k], i) THEN <<>> ELSE <<cs[k]>>])
  IN FlattenSeq([i \in 1..Len(ms) |-> IF ms[i].type = "calls" THEN OpenCalls(i) ELSE <<>>])

(* recover_interrupted_tools: they get one. *)
Recovered(s) ==
  LET open == Interrupted(Messages(s))
  IN IF open = <<>> THEN s
     ELSE Add(s, <<Results([i \in 1..Len(open) |->
                      [n |-> open[i].n, id |-> open[i].id, says |-> "unknown"]])>>)

(* Mutant: the cut goes back to the first request of the transcript. *)
CompactedFar(s) ==
  LET ms == Messages(s)
      first == CHOOSE i \in 0..Len(ms) : (i = 0 \/ ms[i].type = "calls") /\ \A j \in 1..(i - 1) : ms[j].type # "calls"
  IN IF Len(ms) <= KeepLast \/ first <= 1 THEN s ELSE [s EXCEPT !.cut = @ + first - 1]

(* compact: keep the last messages, and the request of a kept result.  The *)
(* first older message that has the id of a kept result moves the cut.     *)
Compacted(s) ==
  LET ms    == Messages(s)
      cut   == Len(ms) - (IF KeepLast > 1 THEN KeepLast ELSE 1)
      kept  == AnswersIn(SubSeq(ms, cut + 1, Len(ms)))
      Needs == {i \in 1..cut : ms[i].type = "calls" /\ Ids(ms[i].calls) \cap kept # {}}
  IN CASE Len(ms) <= KeepLast -> s
       [] Len(ms) > KeepLast /\ Needs = {} -> [s EXCEPT !.cut = @ + cut]
       [] OTHER -> [s EXCEPT !.cut = @ + (CHOOSE i \in Needs : \A j \in Needs : i <= j) - 1]

-----------------------------------------------------------------------------
(* Checkpoints: save_session copies the session at once and writes it when *)
(* it has the store's lock.                                                *)

Save(who, s) == writes' = Append(writes, [by |-> who, session |-> s])

(* _checkpoint, and then on to next. *)
Checkpoint(s, next) ==
  /\ session' = s /\ Save("turn", s)
  /\ pc' = "saving" /\ after' = next

(* The finally of _run_local; whatever ends the turn ends here. *)
Finish(s) == Checkpoint(s, "idle")

Written ==
  /\ writes # <<>>
  /\ saved' = Head(writes).session /\ writes' = Tail(writes)
  /\ IF Head(writes).by = "turn"
     THEN pc' = after /\ UNCHANGED <<handler, accepted>>
     ELSE /\ accepted' = IF handler.note > 0 THEN accepted \cup {handler.note} ELSE accepted
          /\ handler' = Nobody /\ UNCHANGED pc
  /\ UNCHANGED <<session, active, after, request, batchVars, clock, budget, ran>>

(* A write that fails: the turn ends by the exception, through its finally. *)
WriteFails ==
  /\ writes # <<>> /\ Spend("disturb")
  /\ IF Head(writes).by = "turn"
     THEN /\ UNCHANGED handler
          /\ IF after = "idle"
             THEN pc' = "idle" /\ writes' = Tail(writes) /\ UNCHANGED after
             ELSE pc' = "saving" /\ after' = "idle"
                  /\ writes' = Append(Tail(writes), [by |-> "turn", session |-> session])
     ELSE writes' = Tail(writes) /\ handler' = Nobody /\ UNCHANGED <<pc, after>>
  /\ UNCHANGED <<session, saved, active, request, batchVars, clock, historyVars>>
-----------------------------------------------------------------------------
(* The turn up to its request to a provider.                               *)

(* Mutant: what was interrupted is recovered after the message is added. *)
OpeningLate(s) == Recovered(Add(s, <<User(0)>>))

(* _run_turn up to its first checkpoint. *)
Opening(s) == Add(Recovered(s), <<User(0)>>)

(* Mutant: a session is loaded beside a control request that changes it. *)
BeginTurnUnlocked ==
  /\ pc = "idle" /\ Spend("turn")
  /\ \/ active /\ Checkpoint(Opening(session), "loop")
     \/ ~active /\ Checkpoint(Opening(saved), "loop")
  /\ active' = TRUE /\ counted' = 0 /\ clock' = "early"
  /\ batch' = <<>> /\ stage' = <<>>
  /\ UNCHANGED <<saved, request, handler, historyVars>>

(* A follow-up goes on with the session object.  Otherwise it is loaded,   *)
(* under the run's start lock, which a control request holds as well.      *)
BeginTurn ==
  /\ pc = "idle" /\ Spend("turn")
  /\ \/ active /\ Checkpoint(Opening(session), "loop")
     \/ ~active /\ handler = Nobody /\ Checkpoint(Opening(saved), "loop")
  /\ active' = TRUE /\ counted' = 0 /\ clock' = "early"
  /\ batch' = <<>> /\ stage' = <<>>
  /\ UNCHANGED <<saved, request, handler, historyVars>>

(* run_agent: no follow-up, the session object is let go. *)
Leave ==
  /\ pc = "idle" /\ active /\ active' = FALSE
  /\ UNCHANGED <<session, saved, writes, turnVars, clock, handler, budget, historyVars>>

(* consume_steering: each note becomes a message of the user. *)
Steered(s) ==
  [Add(s, [i \in 1..Len(s.steering) |-> User(s.steering[i])]) EXCEPT !.steering = <<>>]

Loop ==
  /\ pc = "loop"
  /\ IF session.steering # <<>>
     THEN Checkpoint(Steered(session), "refresh")
     ELSE pc' = "refresh" /\ UNCHANGED <<session, writes, after>>
  /\ UNCHANGED <<saved, active, request, batchVars, clock, handler, budget, historyVars>>

(* _maybe_compact_session, then provider.complete. *)
Ask(provider, attempt) ==
  /\ LET over == Len(Messages(session)) >= Threshold
     IN /\ request' = [provider |-> provider, attempt |-> attempt, heard |-> {}, over |-> over]
        /\ session' = IF over THEN Compacted(session) ELSE session
  /\ pc' = "streaming" /\ UNCHANGED <<writes, after>>

(* The instructions are read again.  A fallback that answered is asked     *)
(* first, until the primary is due for another attempt.                    *)
Refreshed ==
  /\ pc = "refresh"
  /\ IF clock = "past"
     THEN Finish(session) /\ UNCHANGED request
     ELSE \E provider \in 1..Providers : Ask(provider, 0)
  /\ UNCHANGED <<saved, active, batchVars, clock, handler, budget, historyVars>>

Hear ==
  /\ pc = "streaming"
  /\ \E e \in {"text", "calls"} \ request.heard : request' = [request EXCEPT !.heard = @ \cup {e}]
  /\ UNCHANGED <<sessionVars, pc, after, batchVars, clock, handler, budget, historyVars>>

(* _save_assistant_text, if there is any. *)
Spoken == IF "text" \in request.heard THEN Add(session, <<Text>>) ELSE session

Reply ==
  /\ pc = "streaming" /\ request.heard = {"text"} /\ request' = NoRequest
  /\ Checkpoint(Spoken, "replied")
  /\ UNCHANGED <<saved, active, batchVars, clock, handler, budget, historyVars>>

(* Guidance that came meanwhile keeps the turn going. *)
Replied ==
  /\ pc = "replied"
  /\ IF session.steering # <<>>
     THEN pc' = "loop" /\ UNCHANGED <<session, writes, after>>
     ELSE Finish(session)
  /\ UNCHANGED <<saved, active, request, batchVars, clock, handler, budget, historyVars>>

(* The stream fails, or ends without anything: try again, fall back, or end. *)
StreamFails ==
  /\ pc = "streaming"
  /\ \/ /\ request.heard = {} /\ request.attempt < Retries
        /\ request' = [request EXCEPT !.attempt = @ + 1] /\ pc' = "retrying"
        /\ UNCHANGED <<session, writes, after>>
     \/ request.heard = {} /\ request.provider < Providers /\ Ask(request.provider + 1, 0)
     \/ /\ request.heard # {} \/ request.provider = Providers
        /\ request' = NoRequest /\ Finish(Spoken)
  /\ UNCHANGED <<saved, active, batchVars, clock, handler, budget, historyVars>>

Retry ==
  /\ pc = "retrying" /\ Ask(request.provider, request.attempt)
  /\ UNCHANGED <<saved, active, batchVars, clock, handler, budget, historyVars>>

(* Mutant: the deadline is looked at before the first event only. *)
StreamDeadlineFirst ==
  /\ pc = "streaming" /\ clock = "past" /\ request.heard = {}
  /\ request' = NoRequest /\ Finish(Spoken)
  /\ UNCHANGED <<saved, active, batchVars, clock, handler, budget, historyVars>>

(* _AgentDeadlineReached *)
StreamDeadline ==
  /\ pc = "streaming" /\ clock = "past" /\ request' = NoRequest /\ Finish(Spoken)
  /\ UNCHANGED <<saved, active, batchVars, clock, handler, budget, historyVars>>

-----------------------------------------------------------------------------
(* A batch of tool calls.                                                  *)

(* A call is known by its place, whatever its id. *)
Calls(b) ==
  LET place == Len(session.log) + 1
  IN [i \in 1..Len(b) |-> [n |-> <<place, i>>, id |-> <<IF FreshIds THEN place ELSE 0, i>>,
                           kind |-> b[i].kind, policy |-> b[i].policy]]

(* Mutant: the calls are decided while the request is being saved. *)
StreamEndsUnsaved ==
  /\ pc = "streaming" /\ "calls" \in request.heard /\ request' = NoRequest /\ Spend("batch")
  /\ \E b \in Batch :
       /\ counted' = counted + Len(b)
       /\ IF counted' > MaxCalls
          THEN Finish(session) /\ UNCHANGED <<batch, stage>>
          ELSE /\ batch' = Calls(b) /\ stage' = [i \in 1..Len(b) |-> "open"]
               /\ session' = Add(session, <<Request(batch')>>)
               /\ pc' = "deciding" /\ UNCHANGED <<writes, after>>
  /\ UNCHANGED <<saved, active, clock, handler, historyVars>>

(* Done with tool calls: the limit, then the request is saved. *)
StreamEnds ==
  /\ pc = "streaming" /\ "calls" \in request.heard /\ request' = NoRequest /\ Spend("batch")
  /\ \E b \in Batch :
       /\ counted' = counted + Len(b)
       /\ IF counted' > MaxCalls
          THEN Finish(session) /\ UNCHANGED <<batch, stage>>
          ELSE /\ batch' = Calls(b) /\ stage' = [i \in 1..Len(b) |-> "open"]
               /\ Checkpoint(Add(session, <<Request(batch')>>), "deciding")
  /\ UNCHANGED <<saved, active, clock, handler, historyVars>>

Held(c) == session.steering # <<>> \/ (session.mode = "plan" /\ c.kind # "read")

At(s)   == {i \in DOMAIN stage : stage[i] \in s}
First(is) == CHOOSE i \in is : \A j \in is : i <= j

(* The loop over tool_calls, up to the next request for permission. *)
Decide ==
  /\ pc = "deciding"
  /\ LET asks == {i \in At({"open"}) : batch[i].policy = "ask" /\ ~Held(batch[i])}
         Before(i) == asks = {} \/ i < First(asks)
     IN /\ stage' = [i \in DOMAIN stage |->
              CASE stage[i] = "open" /\ Before(i) ->
                     IF batch[i].policy = "refuse" \/ Held(batch[i]) THEN "no" ELSE "chosen"
                [] asks # {} /\ i = First(asks) -> "asking"
                [] OTHER -> stage[i]]
        /\ pc' = IF asks # {} THEN "asking"
                 ELSE IF \E i \in DOMAIN stage : stage'[i] = "chosen" THEN "preparing" ELSE "executing"
  /\ UNCHANGED <<sessionVars, after, request, counted, batch, clock, handler, budget, historyVars>>

(* The user answers: approved or not. *)
Resolve ==
  /\ pc = "asking" /\ pc' = "deciding"
  /\ \E v \in {"chosen", "no"} : stage' = [i \in DOMAIN stage |-> IF stage[i] = "asking" THEN v ELSE stage[i]]
  /\ UNCHANGED <<sessionVars, after, request, counted, batch, clock, handler, budget, historyVars>>

AskDeadline ==
  /\ pc = "asking" /\ clock = "past" /\ Finish(session)
  /\ UNCHANGED <<saved, active, request, batchVars, clock, handler, budget, historyVars>>

(* _execute_tools: the instructions for the paths of the calls are read.   *)
Prepared ==
  /\ pc = "preparing" /\ pc' = "executing"
  /\ UNCHANGED <<sessionVars, after, request, batchVars, clock, handler, budget, historyVars>>

-----------------------------------------------------------------------------
(* Execution.  "held" is a call that was chosen and is not executed after  *)
(* all; a call is executed from the moment it is dispatched.               *)

Dispatched(is) == ran' = ran \cup {batch[i].n : i \in is}
Move(is, s)    == stage' = [i \in DOMAIN stage |-> IF i \in is THEN s ELSE stage[i]]

(* execute_group: all calls at once if they only read, one by one else.    *)
StartGroup ==
  /\ pc = "executing" /\ At(InFlight) = {} /\ At({"chosen"}) # {}
  /\ LET together == \A i \in DOMAIN stage : stage[i] # "no" => batch[i].kind = "read"
         group == IF together THEN At({"chosen"}) ELSE {First(At({"chosen"}))}
         held  == {i \in group : clock # "early" \/ Held(batch[i])}
         reads == {i \in group \ held : batch[i].kind = "read"}
     IN /\ stage' = [i \in DOMAIN stage |->
               CASE i \notin group -> stage[i]
                 [] i \in held     -> "held"
                 [] i \in reads    -> "running"
                 [] OTHER          -> "checked"]
        /\ Dispatched(reads)
  /\ UNCHANGED <<sessionVars, pc, after, request, counted, batch, clock, handler, budget, accepted>>

(* execute_one: the instructions are read again, and may have changed.     *)
Checked(i) ==
  /\ stage[i] = "checked"
  /\ \/ Move({i}, "held") /\ UNCHANGED ran
     \/ Move({i}, "running") /\ Dispatched({i})
  /\ UNCHANGED <<sessionVars, pc, after, request, counted, batch, clock, handler, budget, accepted>>

(* A tool returns or raises. *)
CallEnds(i) ==
  /\ stage[i] = "running" /\ Move({i}, "ran")
  /\ UNCHANGED <<sessionVars, pc, after, request, counted, batch, clock, handler, budget, historyVars>>

(* The thread of a cancelled file write ends. *)
Drained(i) ==
  /\ stage[i] = "draining" /\ Move({i}, "stopped")
  /\ UNCHANGED <<sessionVars, pc, after, request, counted, batch, clock, handler, budget, historyVars>>

(* Cancelling the tasks of a group: file writes are shielded. *)
Cut == [i \in DOMAIN stage |->
          CASE stage[i] = "running" /\ batch[i].kind = "write" -> "draining"
            [] stage[i] = "running" /\ batch[i].kind # "write" -> "stopped"
            [] stage[i] = "checked" -> "stopped"
            [] OTHER -> stage[i]]

(* asyncio.wait(tasks, timeout=available) is over before the tasks are. *)
GroupDeadline ==
  /\ pc = "executing" /\ clock # "early" /\ At({"checked", "running"}) # {} /\ stage' = Cut
  /\ UNCHANGED <<sessionVars, pc, after, request, counted, batch, clock, handler, budget, historyVars>>

Says(i) == CASE stage[i] = "ran" -> "ran" [] stage[i] = "stopped" -> "unknown" [] OTHER -> "no"

(* Mutant: the executed calls are paired with all calls of the batch. *)
ResultMispaired(i) ==
  LET executed == SelectSeq([j \in DOMAIN batch |-> j], LAMBDA j : stage[j] # "no")
  IN [n |-> batch[i].n, id |-> batch[i].id,
      says |-> IF i \in DOMAIN executed THEN Says(executed[i]) ELSE "no"]

Result(i) == [n |-> batch[i].n, id |-> batch[i].id, says |-> Says(i)]

(* The results in the order of the calls; then they are saved. *)
ResultsReady ==
  /\ pc = "executing" /\ At(Answered) = DOMAIN stage
  /\ Checkpoint(Add(session, <<Results([i \in DOMAIN batch |-> Result(i)])>>), "results")
  /\ UNCHANGED <<saved, active, request, batchVars, clock, handler, budget, historyVars>>

(* A plugin's result may add context to the session, or end the turn. *)
AfterResults ==
  /\ pc = "results"
  /\ \/ pc' = "loop" /\ UNCHANGED <<session, writes, after>>
     \/ /\ \E i \in At({"ran"}) : batch[i].kind = "plugin"
        /\ \/ session' = Add(session, <<User(0)>>) /\ pc' = "loop" /\ UNCHANGED <<writes, after>>
           \/ Checkpoint(session, "ending")
  /\ batch' = <<>> /\ stage' = <<>>
  /\ UNCHANGED <<saved, active, request, counted, clock, handler, budget, historyVars>>

Ending ==
  /\ pc = "ending" /\ Finish(session)
  /\ UNCHANGED <<saved, active, request, batchVars, clock, handler, budget, historyVars>>

-----------------------------------------------------------------------------
(* What arrives from outside.                                              *)

TimePasses ==
  /\ HasDeadline /\ pc # "idle" /\ clock # "past"
  /\ clock' = IF clock = "early" THEN "near" ELSE "past"
  /\ UNCHANGED <<sessionVars, turnVars, handler, budget, historyVars>>

(* What is left when the turn's write is withdrawn: one of the handler. *)
Others(ws) ==
  LET others == {i \in DOMAIN ws : ws[i].by # "turn"}
  IN IF others = {} THEN <<>> ELSE <<ws[CHOOSE i \in others : TRUE]>>

(* The task is cancelled at an await.  A checkpoint it waits for may have  *)
(* been written; file writes are waited for; the finally saves the session. *)
Stop ==
  /\ pc \notin {"idle", "stopping"} /\ Spend("disturb")
  /\ saved' \in {saved} \cup {writes[i].session : i \in {j \in DOMAIN writes : j = 1 /\ writes[j].by = "turn"}}
  /\ stage' = Cut /\ request' = NoRequest
  /\ \/ /\ pc = "saving" /\ after = "idle"
        /\ pc' = "idle" /\ writes' = Others(writes) /\ UNCHANGED after
     \/ /\ ~(pc = "saving" /\ after = "idle")
        /\ IF \E i \in DOMAIN stage : stage'[i] = "draining"
           THEN pc' = "stopping" /\ UNCHANGED <<writes, after>>
           ELSE /\ pc' = "saving" /\ after' = "idle"
                /\ writes' = Append(Others(writes), [by |-> "turn", session |-> session])
  /\ UNCHANGED <<session, active, counted, batch, clock, handler, historyVars>>

Stopped ==
  /\ pc = "stopping" /\ At({"draining"}) = {} /\ Finish(session)
  /\ UNCHANGED <<saved, active, request, batchVars, clock, handler, budget, historyVars>>

(* The process dies; what was being written may have been written.         *)
Crash ==
  /\ active \/ handler # Nobody
  /\ Spend("disturb")
  /\ saved' \in {saved} \cup {writes[i].session : i \in {j \in DOMAIN writes : j = 1}}
  /\ session' = saved' /\ active' = FALSE /\ writes' = <<>> /\ handler' = Nobody
  /\ pc' = "idle" /\ stage' = Cut /\ request' = NoRequest
  /\ UNCHANGED <<after, counted, batch, clock, historyVars>>

(* control_run: steering, and plan mode on or off. *)
Note == MaxControl - budget.control + 1

Controlled(s, note) ==
  IF note > 0 THEN [s EXCEPT !.steering = Append(@, note)]
  ELSE [s EXCEPT !.mode = IF @ = "plan" THEN "default" ELSE "plan"]

(* The session object of the turn is changed, and a copy is saved. *)
Control ==
  /\ active /\ handler.pc = "none" /\ Spend("control")
  /\ \E note \in {0, Note} :
       /\ session' = Controlled(session, note)
       /\ handler' = [Nobody EXCEPT !.pc = "saving", !.note = note]
  /\ Save("control", session')
  /\ UNCHANGED <<saved, active, turnVars, clock, historyVars>>

(* Of an idle task the session is loaded, changed and saved. *)
ControlLoads ==
  /\ ~active /\ handler.pc = "none" /\ Spend("control")
  /\ \E note \in {0, Note} : handler' = [pc |-> "loaded", note |-> note, session |-> saved]
  /\ UNCHANGED <<sessionVars, turnVars, clock, historyVars>>

ControlSaves ==
  /\ handler.pc = "loaded" /\ handler' = [handler EXCEPT !.pc = "saving"]
  /\ Save("control", Controlled(handler.session, handler.note))
  /\ UNCHANGED <<session, saved, active, turnVars, clock, budget, historyVars>>

-----------------------------------------------------------------------------
Tools == \E i \in DOMAIN stage : Checked(i) \/ Drained(i)

Turn ==
  \/ Loop \/ Refreshed \/ Retry \/ Replied \/ StreamDeadline
  \/ Decide \/ AskDeadline \/ Prepared \/ StartGroup \/ Tools \/ GroupDeadline
  \/ ResultsReady \/ AfterResults \/ Ending \/ Stopped

Next ==
  \/ BeginTurn \/ Leave \/ Turn
  \/ Hear \/ Reply \/ StreamFails \/ StreamEnds \/ Resolve
  \/ \E i \in DOMAIN stage : CallEnds(i)
  \/ Written \/ WriteFails
  \/ TimePasses \/ Stop \/ Crash
  \/ Control \/ ControlLoads \/ ControlSaves

Spec == Init /\ [][Next]_vars

(* The event loop resumes what can go on, files are written, time passes;  *)
(* providers, tools and people may never answer.                           *)
FairSpec == Spec /\ WF_vars(Turn) /\ WF_vars(Written) /\ WF_vars(TimePasses)

-----------------------------------------------------------------------------
(* Properties.                                                             *)

SessionOK(s) ==
  /\ s.cut \in 0..Len(s.log) /\ s.mode \in {"default", "plan"}
  /\ \A i \in DOMAIN s.log : s.log[i].type \in {"user", "text", "calls", "results"}

(* Every value the code keeps is one it can have: the sessions, the places *)
(* of the turn and of its calls, and the counters within their limits.     *)
TypeOK ==
  /\ \A s \in {session, saved} \cup {writes[i].session : i \in DOMAIN writes} : SessionOK(s)
  /\ pc \in {"idle", "saving", "loop", "refresh", "streaming", "retrying", "replied", "deciding",
             "asking", "preparing", "executing", "results", "ending", "stopping"}
  /\ request.provider \in 1..Providers /\ request.attempt \in 0..Retries
  /\ DOMAIN batch = DOMAIN stage
  /\ \A i \in DOMAIN stage : stage[i] \in {"open", "asking", "chosen"} \cup Answered \cup InFlight
  /\ \A i, j \in DOMAIN writes : writes[i].by = writes[j].by => i = j

(* A provider is never sent a transcript it would reject: each request for *)
(* tools is followed at once by the results of just these calls, and no    *)
(* result stands without its request, after whatever was stopped, steered, *)
(* crashed, recovered or compacted away.                                   *)
Paired ==
  pc = "streaming" =>
    LET ms == Messages(session)
        Numbers(cs) == [k \in 1..Len(cs) |-> cs[k].n]
    IN \A i \in 1..Len(ms) :
         /\ ms[i].type = "calls" => i < Len(ms) /\ ms[i + 1].type = "results"
         /\ ms[i].type = "results" => /\ i > 1 /\ ms[i - 1].type = "calls"
                                      /\ Numbers(ms[i].answers) = Numbers(ms[i - 1].calls)

(* Whatever a tool did, the session that survives a crash has its request: *)
(* the next turn can be told that its outcome is unknown.                  *)
EffectsSaved ==
  \A n \in ran : \E i \in DOMAIN saved.log :
    saved.log[i].type = "calls" /\ \E k \in DOMAIN saved.log[i].calls : saved.log[i].calls[k].n = n

(* The results tell the model the truth: a call said not to have been      *)
(* executed was not, and one said to have been executed was.               *)
ResultsTell ==
  \A i \in DOMAIN session.log : session.log[i].type = "results" =>
    LET said == session.log[i].answers
    IN \A k \in DOMAIN said : /\ said[k].says = "no" => said[k].n \notin ran
                              /\ said[k].says = "ran" => said[k].n \in ran

(* Steering confirmed to a client is neither lost nor given twice: it      *)
(* waits in the session, or stands in its transcript, also after a crash.  *)
Holds(s, note) ==
  Cardinality({i \in DOMAIN s.steering : s.steering[i] = note})
    + Cardinality({i \in DOMAIN s.log : s.log[i] = User(note)}) = 1

SteeringKept == \A note \in accepted : Holds(saved, note) /\ (active => Holds(session, note))

(* A request made over the threshold is compacted to the messages to keep, *)
(* and at most the one request whose result is the first of them.          *)
PromptBounded ==
  pc = "streaming" /\ request.over => Len(Messages(session)) <= (IF KeepLast > 1 THEN KeepLast ELSE 1) + 1

(* A turn with a deadline ends, although provider, tools and people may    *)
(* never answer.                                                           *)
DeadlineEnds == HasDeadline => (pc # "idle" ~> pc = "idle")
=============================================================================
