-------------------------- MODULE SubagentsProofs --------------------------
(***************************************************************************)
(* Theorems about Subagents for any workers, paths and limits, and any     *)
(* number of turns, stops, crashes, failed checkpoints and requests, but   *)
(* where a theorem says otherwise.                                         *)
(***************************************************************************)
EXTENDS Subagents, FiniteSetTheorems, TLAPS

Busy == {"think", "count", "act", "block", "ask", "write"}

(* A worker's task works only while the worker is active, an active worker *)
(* has one unless its start is being saved, and the end of a turn leaves   *)
(* neither.                                                                *)
Tasks ==
  \A w \in Worker :
    /\ task[w] \in Busy => status[w] \in ActiveState
    /\ status[w] \in ActiveState => task[w] \in Busy \/ (turn = "save" /\ w \in op.ws)
    /\ turn \in {"closing", "final", "idle"} => status[w] \notin ActiveState
    /\ turn \in {"final", "idle"} => task[w] = "none"
    /\ status[w] = "none" => task[w] = "none"
    /\ status[w] = "interrupted" /\ turn # "closing" => task[w] = "none"

(* What was admitted before the await of _build_child still fits after it. *)
Admitted == turn = "build" => Fits(op.ws, owns)

(* The workers of a start, from its admission to their first step. *)
Starting ==
  /\ turn \in {"build", "save"} =>
       /\ op.kind \in {"spawn", "batch", "resume", "recover"}
       /\ \A w \in op.ws : task[w] = "none" /\ calls[w] < MaxCalls
  /\ turn = "build" =>
       \A w \in op.ws :
         IF Fresh THEN status[w] = "none" /\ saved[w].status = "none" /\ w \notin dropped
                  ELSE status[w] # "none"
  /\ turn = "save" =>
       /\ Cardinality(op.ws) <= started
       /\ \A w \in op.ws : status[w] \in {"running", "cancelled"} /\ (Fresh => calls[w] = 0)

(* The turn awaits its own cancel(), of workers already cancelled. *)
Joining ==
  /\ joining["turn"].pc # "none" <=> turn = "cancel"
  /\ joining["turn"].pc = "join" => joining["turn"].ws \subseteq dropped

(* A tool runs when its call is counted and saved. *)
Counting ==
  \A w \in Worker :
    /\ session[w].calls = calls[w]
    /\ ran[w] <= saved[w].calls /\ saved[w].calls <= calls[w]
    /\ task[w] = "count" => ran[w] < calls[w]
    /\ task[w] \in {"act", "block", "ask"} => ran[w] < saved[w].calls
    /\ task[w] \in Busy \ {"count"} => calls[w] <= MaxCalls
    /\ ran[w] <= MaxCalls
    /\ status[w] = "none" => calls[w] = 0
    /\ saved[w].status = "none" => saved[w].calls = 0

(* The session never is behind the workers about who exists or is settled. *)
Settling ==
  \A w \in Worker :
    /\ session[w].status = "none" <=> status[w] = "none"
    /\ session[w].status \in SettledState => status[w] \in SettledState
    /\ saved[w].status \in SettledState =>
         {status[w], session[w].status} \subseteq SettledState \cup {"none"}

(* A worker cancelled on request is out of the game. *)
Dropping == \A w \in dropped : status[w] \in SettledState \cup {"none"}

Inv ==
  TypeOK /\ Tasks /\ Admitted /\ Starting /\ AdmissionHolds /\ Joining /\ Counting /\ Settling
    /\ Dropping

-----------------------------------------------------------------------------
(* The writes in flight, where at most one checkpoint fails. *)
Resumes(s) == s \in ActiveState \cup {"interrupted"}

(* A write stays within what its worker owns, as long as the worker goes on. *)
Owned == \A w \in Worker \ dropped : thread[w] \subseteq owns[w]

(* A write outlives its worker's tool only if the worker is cancelled on   *)
(* request, and nobody finds that worker resumable afterwards.              *)
Outlived ==
  \A w \in Worker : thread[w] # {} /\ task[w] \notin {"write", "drain"} =>
    /\ w \in dropped
    /\ task[w] = "end" => turn \in {"ending", "closing"}
    /\ task[w] = "none" =>
         /\ ~Resumes(session[w].status)
         /\ Resumes(saved[w].status) => budget["fault"] = 0 /\ turn # "idle"

(* The end of a turn alone makes other writes drain. *)
Draining == \A w \in Worker \ dropped : task[w] = "drain" => turn = "closing"

(* A worker that is being started does not write. *)
Unwritten == turn \in {"build", "save"} => \A w \in op.ws : thread[w] = {}

(* The parent writes where nobody works. *)
Parent ==
  /\ parent # {} => turn \in {"write", "drain"}
  /\ \A w \in Active : owns[w] \cap parent = {}

(* One checkpoint fails at most. *)
Faults == "fault" \in DOMAIN budget /\ budget["fault"] \in {0, 1}

WriteInv ==
  Owned /\ Outlived /\ Draining /\ Unwritten /\ Parent /\ Faults /\ WritersDisjoint

(* The client records the end of a run when the turn has come to its own. *)
Streams == ClosesStream => client # "left" /\ (client = "over" <=> turn = "idle")

(* The steps that leave the workers and their tasks alone. *)
Quiet ==
  \/ TakeRequests \/ RequestsTaken \/ Recovered \/ Report \/ Reported
  \/ ParentWrite \/ ParentWritten \/ Answered \/ Errs \/ Closed \/ EndTurn \/ ClientEnds
  \/ \E w \in Worker : Resume(w) \/ RequestResume(w) \/ Recover(w)
  \/ \E c \in Canceller : CancelJoined(c) \/ CancelSaved(c)

-----------------------------------------------------------------------------
(* What an action leaves alone is visible in every proof below. *)
USE DEF vars, workerVars, storeVars, turnVars, historyVars, WorkerStep, Unsaved

(* Sets of workers are finite, and a subset has no more members. *)
LEMMA FiniteWorkers ==
  \A S \in SUBSET Worker :
    /\ IsFiniteSet(S) /\ Cardinality(S) \in Nat
    /\ \A R \in SUBSET S : Cardinality(R) <= Cardinality(S)
BY SubagentsAssumption, FS_Subset, FS_CardinalityType DEF SubagentsAssumption

(* A restored worker is not active, and its record is the one restored.     *)
LEMMA RestoreFacts ==
  ASSUME NEW x \in [Worker -> [status : Status, calls : 0..MaxCalls + 1]], RestoreFrom(x),
         NEW w \in Worker
  PROVE  /\ status'[w] \in Status \ ActiveState
         /\ status'[w] = x[w].status \/ (x[w].status \in ActiveState /\ status'[w] = "interrupted")
         /\ calls'[w] = x[w].calls
         /\ owns'[w] = owns[w] \/ (x[w].status = "none" /\ owns'[w] = {})
         /\ session'[w].status = status'[w] /\ session'[w].calls = calls'[w]
         /\ w \in dropped' <=> (w \in dropped /\ status'[w] # "interrupted")
BY DEF RestoreFrom, Restore, Status, ActiveState, SettledState, Snapshot

(* So it keeps its type. *)
LEMMA RestoreTypes ==
  ASSUME TypeOK, NEW x \in [Worker -> [status : Status, calls : 0..MaxCalls + 1]], RestoreFrom(x)
  PROVE  /\ status' \in [Worker -> Status] /\ calls' \in [Worker -> 0..MaxCalls + 1]
         /\ owns' \in [Worker -> SUBSET Path]
         /\ session' \in [Worker -> [status : Status, calls : 0..MaxCalls + 1]]
         /\ dropped' \subseteq Worker
<1>0. \A w \in Worker : x[w].status \in Status /\ x[w].calls \in 0..MaxCalls + 1
  OBVIOUS
<1>1. \A w \in Worker : status'[w] \in Status /\ calls'[w] \in 0..MaxCalls + 1
                        /\ owns'[w] \in SUBSET Path
  BY ZenonT(60), <1>0, RestoreFacts DEF TypeOK
<1>2. session' = Snapshot(status', calls')
  BY DEF RestoreFrom
<1>3. session' \in [Worker -> [status : Status, calls : 0..MaxCalls + 1]]
  BY <1>1, <1>2 DEF Snapshot
<1> QED BY Zenon, <1>1, <1>3 DEF RestoreFrom, TypeOK

(* What a copy of the workers is. *)
LEMMA SnapshotType ==
  ASSUME NEW s \in [Worker -> Status], NEW c \in [Worker -> 0..MaxCalls + 1]
  PROVE  Snapshot(s, c) \in [Worker -> [status : Status, calls : 0..MaxCalls + 1]]
BY DEF Snapshot

(* Only the registration of a start makes workers active. *)
LEMMA ActiveShrinks ==
  ASSUME Inv, [Next]_vars, ~Register
  PROVE  /\ Active' \subseteq Active
         /\ \A w \in Active' : owns'[w] = owns[w]
<1> USE DEF Inv, TypeOK, Tasks, Starting, Active, ActiveState, Status, SettledState,
      Busy
<1>1. CASE BeginTurn \/ Crash
  BY <1>1, RestoreFacts DEF BeginTurn, Crash, Canceller, Idle, NoOp
<1>2. CASE Spawn \/ BuildFails
  BY <1>2 DEF Spawn, BuildFails, Unused, Refuse, Break, Forget, NoOp,
      AnswerRequest, Fresh, Set
<1>3. CASE Launch \/ LaunchRefused \/ LaunchFails
  BY <1>3 DEF Launch, LaunchRefused, LaunchFails, Checkpoint, Set, NoOp, Withdraw,
      Refuse, Break, Rollback, GiveUp, AnswerRequest, SaveStates, Snapshot
<1>4. CASE Quiet
  BY Zenon, <1>4 DEF Quiet, TakeRequests, RequestsTaken, Recovered, Report, Reported,
      ParentWrite, ParentWritten, Answered, Errs, Closed, EndTurn, ClientEnds,
      Resume, RequestResume, Recover, Canceller, CancelJoined, CancelSaved,
      Checkpoint, NoOp, Leaves, ActiveState, AnswerRequest, Idle
<1>5. ASSUME NEW w \in Worker, WorkerNext(w) PROVE Active' \subseteq Active /\ owns' = owns
  BY <1>5 DEF WorkerNext, Call, Counted, Ask, Asked, Denied, Run, Written, Finish,
      Heartbeat, End, Checkpoint, SaveStates, ActiveState
<1>6. ASSUME NEW w \in Worker, TurnCancels(w) \/ ControlCancels(w)
      PROVE  Active' \subseteq Active /\ owns' = owns
  BY <1>6 DEF TurnCancels, ControlCancels, CancelWorker, ActiveState
<1>7. CASE Stop
  BY <1>7 DEF Stop, Leaves, NoOp, Checkpoint, Withdraw, Forget, Idle, Rollback,
      GiveUp, Fresh, Set, SaveStates
<1>8. CASE Close
  BY <1>8 DEF Close, Set
<1>9. CASE UNCHANGED vars
  BY <1>9
<1> QED BY <1>1, <1>2, <1>3, <1>4, <1>5, <1>6, <1>7, <1>8, <1>9 DEF Next, Quiet


(* A batch that fits does so until it is registered. *)
LEMMA FitsStill ==
  ASSUME TypeOK, NEW ws \in SUBSET Worker, NEW o, Fits(ws, o), started' = started,
         Active' \subseteq Active
  PROVE  Fits(ws, o)'
<1>1. /\ Cardinality(Active) \in Nat /\ Cardinality(Active') \in Nat /\ Cardinality(ws) \in Nat
      /\ Cardinality(Active') <= Cardinality(Active)
  BY FiniteWorkers DEF Active
<1> QED BY <1>1, SubagentsAssumption DEF SubagentsAssumption, Fits

-----------------------------------------------------------------------------
(* The variables keep their types, a part of TypeOK at a time.             *)

WorkerType ==
  /\ status \in [Worker -> Status] /\ calls \in [Worker -> 0..MaxCalls + 1]
  /\ task \in [Worker -> {"none", "think", "count", "act", "block", "ask", "write",
                           "drain", "end"}]

WriteType ==
  /\ owns \in [Worker -> SUBSET Path] /\ thread \in [Worker -> SUBSET Path]
  /\ parent \subseteq Path /\ ran \in [Worker -> Nat]

StoreType ==
  /\ session \in [Worker -> [status : Status, calls : 0..MaxCalls + 1]]
  /\ saved \in [Worker -> [status : Status, calls : 0..MaxCalls + 1]]
  /\ pending \subseteq Worker /\ savedPending \subseteq Worker

TurnType ==
  /\ turn \in {"idle", "open", "build", "save", "taken", "next", "watch", "report", "write",
               "cancel", "drain", "ending", "closing", "final"}
  /\ requests \subseteq Worker
  /\ interrupted \in BOOLEAN /\ client \in {"reading", "left", "over"}

OtherType ==
  /\ joining \in [Canceller -> [pc : {"none", "join", "save"}, ws : SUBSET Worker]]
  /\ dropped \subseteq Worker /\ asked \subseteq Worker

(* Workers keep theirs: a call is counted while the budget is not exceeded. *)
LEMMA WorkerTypeKept == Inv /\ [Next]_vars => WorkerType'
<1> SUFFICES ASSUME Inv, [Next]_vars PROVE WorkerType'
  OBVIOUS
<1> USE DEF Inv, WorkerType, TypeOK, Counting, Busy, Status, ActiveState, SettledState
<1>1. CASE BeginTurn \/ Crash
  BY <1>1, RestoreTypes DEF BeginTurn, Crash, Canceller, Idle, NoOp
<1>2. CASE Spawn \/ Register \/ BuildFails
  BY <1>2 DEF Spawn, Register, BuildFails, Unused, Fresh, Set, SaveStates, Refuse,
      Break, Forget, NoOp, Snapshot, AnswerRequest
<1>3. CASE Launch \/ LaunchRefused \/ LaunchFails
  BY <1>3 DEF Launch, LaunchRefused, LaunchFails, Checkpoint, Set, NoOp, Withdraw,
      Refuse, Break, Rollback, GiveUp, AnswerRequest, SaveStates, Snapshot
<1>4. CASE Quiet
  BY ZenonT(60), <1>4 DEF Quiet, TakeRequests, RequestsTaken, Recovered, Report, Reported,
      ParentWrite, ParentWritten, Answered, Errs, Closed, EndTurn, ClientEnds,
      Resume, RequestResume, Recover, Canceller, CancelJoined, CancelSaved,
      Snapshot, Checkpoint, NoOp, Leaves, ActiveState, AnswerRequest, Idle
<1>5. ASSUME NEW w \in Worker, WorkerNext(w) PROVE WorkerType'
  <2>1. CASE Call(w)
    BY SMTT(60), <2>1, SubagentsAssumption DEF Call, SubagentsAssumption
  <2>2. CASE Written(w)
    BY <2>2 DEF Written
  <2>3. CASE Counted(w) \/ Asked(w)
    BY ZenonT(60), <2>3 DEF Counted, Asked, Checkpoint
  <2>4. CASE Finish(w)
    BY <2>4 DEF Finish
  <2>5. CASE Ask(w) \/ Denied(w) \/ Run(w) \/ Heartbeat(w) \/ End(w)
    BY ZenonT(60), <2>5 DEF Ask, Denied, Run, Heartbeat, End, SaveStates, ActiveState
  <2> QED BY <1>5, <2>1, <2>2, <2>3, <2>4, <2>5 DEF WorkerNext
<1>6. ASSUME NEW w \in Worker, TurnCancels(w) \/ ControlCancels(w) PROVE WorkerType'
  BY ZenonT(60), <1>6 DEF TurnCancels, ControlCancels, CancelWorker, ActiveState, CancelTask,
      Snapshot
<1>7. CASE Stop
  <2>1. CASE turn = "save"
    BY <1>7, <2>1 DEF Stop, NoOp, Withdraw, Idle, Rollback, GiveUp, Set
  <2>2. CASE turn = "build"
    BY <1>7, <2>2 DEF Stop, NoOp, Forget, Idle, Fresh, Set
  <2>3. CASE turn = "cancel"
    BY <1>7, <2>3 DEF Stop, NoOp, CancelTask, Idle
  <2>4. CASE turn \notin {"save", "build", "cancel"}
    BY <1>7, <2>4 DEF Stop, NoOp, Idle
  <2> QED BY <2>1, <2>2, <2>3, <2>4
<1>8. CASE Close
  BY <1>8 DEF Close, Set, CancelTask
<1>9. CASE UNCHANGED vars
  BY <1>9
<1> QED BY <1>1, <1>2, <1>3, <1>4, <1>5, <1>6, <1>7, <1>8, <1>9 DEF Next, Quiet

(* So do the variables of ownership and writing, *)
LEMMA WriteTypeKept == Inv /\ [Next]_vars => WriteType'
<1> SUFFICES ASSUME Inv, [Next]_vars PROVE WriteType'
  OBVIOUS
<1> USE DEF Inv, WriteType, TypeOK
<1>1. CASE BeginTurn \/ Crash
  BY <1>1, RestoreTypes DEF BeginTurn, Crash, Canceller, Idle, NoOp
<1>2. CASE Spawn \/ Register \/ BuildFails
  BY SMTT(60), <1>2 DEF Spawn, Register, BuildFails, Unused, Fresh, Set, SaveStates, Refuse,
      Break, Forget, NoOp, Snapshot, AnswerRequest
<1>3. CASE Launch \/ LaunchRefused \/ LaunchFails
  BY Zenon, <1>3 DEF Launch, LaunchRefused, LaunchFails, Checkpoint, Set, NoOp, Withdraw,
      Refuse, Break, Rollback, GiveUp, AnswerRequest, SaveStates, Snapshot
<1>4. CASE Quiet
  BY Zenon, <1>4 DEF Quiet, TakeRequests, RequestsTaken, Recovered, Report, Reported,
      ParentWrite, ParentWritten, Answered, Errs, Closed, EndTurn, ClientEnds,
      Resume, RequestResume, Recover, Canceller, CancelJoined, CancelSaved,
      Snapshot, Checkpoint, NoOp, Leaves, ActiveState, AnswerRequest, Idle
<1>5. ASSUME NEW w \in Worker, WorkerNext(w) PROVE WriteType'
  BY <1>5 DEF WorkerNext, Call, Counted, Ask, Asked, Denied, Run, Written, Finish,
      Heartbeat, End, Snapshot, Checkpoint, SaveStates, ActiveState
<1>6. ASSUME NEW w \in Worker, TurnCancels(w) \/ ControlCancels(w) PROVE WriteType'
  BY <1>6 DEF TurnCancels, ControlCancels, CancelWorker, ActiveState, CancelTask,
      Snapshot
<1>7. CASE Stop
  <2>1. CASE turn = "save"
    BY <1>7, <2>1 DEF Stop, NoOp, Withdraw, Idle, Rollback, GiveUp, Set
  <2>2. CASE turn = "build"
    BY Zenon, <1>7, <2>2 DEF Stop, NoOp, Forget, Idle, Fresh, Set
  <2>3. CASE turn = "cancel"
    BY <1>7, <2>3 DEF Stop, NoOp, CancelTask, Idle
  <2>4. CASE turn \notin {"save", "build", "cancel"}
    BY <1>7, <2>4 DEF Stop, NoOp, Idle
  <2> QED BY <2>1, <2>2, <2>3, <2>4
<1>8. CASE Close
  BY <1>8 DEF Close, Set, CancelTask
<1>9. CASE UNCHANGED vars
  BY <1>9
<1> QED BY <1>1, <1>2, <1>3, <1>4, <1>5, <1>6, <1>7, <1>8, <1>9 DEF Next, Quiet

(* What a step may do to the session and to its checkpoint. *)
Copies ==
  /\ session' \in {session, Snapshot(status', calls')}
  /\ saved' \in {saved, session, session'} /\ savedPending' \in {savedPending, pending, pending'}
  /\ pending' \subseteq pending \cup savedPending \cup Worker

(* What a step may do to op. *)
Ops ==
  \/ op' = op \/ op' = NoOp
  \/ \E k \in {"spawn", "batch", "resume", "recover", "close"}, ws \in SUBSET Worker :
       op' = [kind |-> k, ws |-> ws]

(* The session is left alone or becomes a copy of the workers, and the     *)
(* checkpoint is left alone or becomes the session.                        *)
LEMMA StoreStep == Inv /\ [Next]_vars => Copies
<1> SUFFICES ASSUME Inv, [Next]_vars PROVE Copies
  OBVIOUS
<1> USE DEF Copies
<1>1. CASE BeginTurn \/ Crash
  BY <1>1 DEF BeginTurn, Crash, Canceller, Idle, RestoreFrom, NoOp
<1>2. CASE Spawn \/ Register \/ BuildFails
  BY <1>2 DEF Spawn, Register, BuildFails, Unused, Fresh, SaveStates, NoOp
<1>3. CASE Launch \/ LaunchRefused \/ LaunchFails
  BY <1>3 DEF Launch, LaunchRefused, LaunchFails, Checkpoint, NoOp, Withdraw,
      Rollback, GiveUp, SaveStates
<1>4. CASE Quiet
  BY Zenon, <1>4 DEF Quiet, TakeRequests, RequestsTaken, Recovered, Report, Reported,
      ParentWrite, ParentWritten, Answered, Errs, Closed, EndTurn, ClientEnds,
      Resume, RequestResume, Recover, Canceller, CancelJoined, CancelSaved,
      Checkpoint, NoOp, Leaves, ActiveState, Idle
<1>5. ASSUME NEW w \in Worker, WorkerNext(w) PROVE Copies
  BY <1>5 DEF WorkerNext, Call, Counted, Ask, Asked, Denied, Run, Written, Finish,
      Heartbeat, End, Checkpoint, SaveStates, ActiveState
<1>6. ASSUME NEW w \in Worker, TurnCancels(w) \/ ControlCancels(w) PROVE Copies
  BY <1>6 DEF TurnCancels, ControlCancels, CancelWorker, ActiveState
<1>7. CASE Stop
  BY <1>7 DEF Stop, Leaves, NoOp, Checkpoint, Withdraw, Idle, Rollback, GiveUp,
      SaveStates
<1>8. CASE Close
  BY <1>8 DEF Close
<1>9. CASE UNCHANGED vars
  BY <1>9
<1> QED BY <1>1, <1>2, <1>3, <1>4, <1>5, <1>6, <1>7, <1>8, <1>9 DEF Next, Quiet

(* The turn starts, watches or closes workers, or nothing. *)
LEMMA OpStep == Inv /\ [Next]_vars => Ops
<1> SUFFICES ASSUME Inv, [Next]_vars PROVE Ops
  OBVIOUS
<1> USE DEF Ops
<1>1. CASE BeginTurn \/ Crash
  BY <1>1 DEF BeginTurn, Crash, Canceller, Idle, Active
<1>2. CASE Spawn \/ Register \/ BuildFails
  BY <1>2 DEF Spawn, Register, BuildFails, Unused, Fresh, SaveStates, Active
<1>3. CASE Launch \/ LaunchRefused \/ LaunchFails
  BY <1>3 DEF Launch, LaunchRefused, LaunchFails, Active
<1>4. CASE Quiet
  BY Zenon, <1>4 DEF Quiet, TakeRequests, RequestsTaken, Recovered, Report, Reported,
      ParentWrite, ParentWritten, Answered, Errs, Closed, EndTurn, ClientEnds,
      Resume, RequestResume, Recover, Canceller, CancelJoined, CancelSaved,
      Leaves, ActiveState, Idle, Active
<1>5. ASSUME NEW w \in Worker, WorkerNext(w) PROVE Ops
  BY <1>5 DEF WorkerNext, Call, Counted, Ask, Asked, Denied, Run, Written, Finish,
      Heartbeat, End, SaveStates, ActiveState, Active
<1>6. ASSUME NEW w \in Worker, TurnCancels(w) \/ ControlCancels(w) PROVE Ops
  BY <1>6 DEF TurnCancels, ControlCancels, CancelWorker, ActiveState, Active
<1>7. CASE Stop
  BY <1>7 DEF Stop, Leaves, Idle, Active
<1>8. CASE Close
  BY Zenon, <1>8 DEF Close, Active
<1>9. CASE UNCHANGED vars
  BY <1>9
<1> QED BY <1>1, <1>2, <1>3, <1>4, <1>5, <1>6, <1>7, <1>8, <1>9 DEF Next, Quiet


(* So the session and its checkpoint keep their types. *)
LEMMA StoreTypeKept == Inv /\ [Next]_vars => StoreType'
<1> SUFFICES ASSUME Inv, [Next]_vars PROVE StoreType'
  OBVIOUS
<1>1. Copies /\ WorkerType' /\ StoreType
  BY StoreStep, WorkerTypeKept DEF Inv, TypeOK, StoreType
<1>2. Snapshot(status', calls') \in [Worker -> [status : Status, calls : 0..MaxCalls + 1]]
  BY <1>1, SnapshotType DEF WorkerType
<1> QED BY <1>1, <1>2 DEF Copies, StoreType

(* What the turn works on keeps its type. *)
LEMMA OpTypeKept ==
  Inv /\ [Next]_vars =>
    op' \in [kind : {"none", "spawn", "batch", "resume", "recover", "close"}, ws : SUBSET Worker]
<1> SUFFICES ASSUME Inv, [Next]_vars
             PROVE  op' \in [kind : {"none", "spawn", "batch", "resume", "recover", "close"},
                             ws : SUBSET Worker]
  OBVIOUS
<1>1. Ops
  BY OpStep
<1> QED BY <1>1 DEF Inv, TypeOK, Ops, NoOp

(* The rest of the turn keeps its type, but for the count of starts. *)
LEMMA TurnTypeKept == Inv /\ [Next]_vars => TurnType'
<1> SUFFICES ASSUME Inv, [Next]_vars PROVE TurnType'
  OBVIOUS
<1> USE DEF Inv, TurnType, TypeOK
<1>1. CASE BeginTurn \/ Crash
  BY Zenon, <1>1 DEF BeginTurn, Crash, Canceller, Idle
<1>2. CASE Spawn \/ Register \/ BuildFails
  BY <1>2 DEF Spawn, Register, BuildFails, Unused, Fresh, SaveStates, Refuse,
      Break, AnswerRequest
<1>3. CASE Launch \/ LaunchRefused \/ LaunchFails
  BY <1>3 DEF Launch, LaunchRefused, LaunchFails, Refuse, Break, AnswerRequest
<1>4. CASE Quiet
  <2>1. CASE TakeRequests \/ RequestsTaken
    BY <2>1 DEF TakeRequests, RequestsTaken
  <2>5. CASE Recovered \/ Report \/ Reported
    BY <2>5 DEF Recovered, Report, Reported
  <2>6. CASE ParentWrite \/ ParentWritten \/ Answered \/ Errs
    BY Zenon, <2>6 DEF ParentWrite, ParentWritten, Answered, Errs, Leaves
  <2>2. CASE Closed \/ EndTurn \/ ClientEnds
    BY <2>2 DEF Closed, EndTurn, ClientEnds
  <2>3. ASSUME NEW w \in Worker, Resume(w) \/ RequestResume(w) \/ Recover(w)
        PROVE  TurnType'
    BY <2>3 DEF Resume, RequestResume, Recover, ActiveState, AnswerRequest
  <2>4. ASSUME NEW c \in Canceller, CancelJoined(c) \/ CancelSaved(c)
        PROVE  TurnType'
    BY <2>4 DEF CancelJoined, CancelSaved, Idle
  <2> QED BY <1>4, <2>1, <2>2, <2>3, <2>4, <2>5, <2>6 DEF Quiet
<1>5. ASSUME NEW w \in Worker, WorkerNext(w) PROVE TurnType'
  BY <1>5 DEF WorkerNext, Call, Counted, Ask, Asked, Denied, Run, Written, Finish,
      Heartbeat, End, SaveStates, ActiveState
<1>6. ASSUME NEW w \in Worker, TurnCancels(w) \/ ControlCancels(w) PROVE TurnType'
  BY <1>6 DEF TurnCancels, ControlCancels, CancelWorker, ActiveState
<1>7. CASE Stop
  BY <1>7 DEF Stop, Leaves, Idle
<1>8. CASE Close
  BY <1>8 DEF Close
<1>9. CASE UNCHANGED vars
  BY <1>9
<1> QED BY <1>1, <1>2, <1>3, <1>4, <1>5, <1>6, <1>7, <1>8, <1>9 DEF Next, Quiet

(* The count of starts stays within its limit. *)
LEMMA StartedKept == Inv /\ [Next]_vars => (started \in 0..MaxTotal)'
<1> SUFFICES ASSUME Inv, [Next]_vars PROVE (started \in 0..MaxTotal)'
  OBVIOUS
<1> USE DEF Inv, TypeOK
<1>1. CASE BeginTurn \/ Crash
  BY <1>1, SubagentsAssumption DEF BeginTurn, Crash, SubagentsAssumption
<1>2. CASE Spawn \/ Register \/ BuildFails
  <2>1. CASE Register
    <3>1. started + Cardinality(op.ws) <= MaxTotal /\ started' = started + Cardinality(op.ws)
      BY <2>1 DEF Register, Admitted, Fits
    <3> QED BY <3>1, FiniteWorkers, SubagentsAssumption DEF SubagentsAssumption
  <2> QED BY <1>2, <2>1 DEF Spawn, BuildFails
<1>3. CASE Launch \/ LaunchRefused \/ LaunchFails
  <2>1. Cardinality(op.ws) <= started /\ Cardinality(op.ws) \in Nat
    BY <1>3, FiniteWorkers DEF Starting, Launch, LaunchRefused, LaunchFails
  <2>2. started' \in {started, started - Cardinality(op.ws)}
    BY <1>3 DEF Launch, LaunchRefused, LaunchFails, Withdraw, Rollback, GiveUp
  <2> QED BY <2>1, <2>2, SubagentsAssumption DEF SubagentsAssumption
<1>4. CASE Quiet
  BY Zenon, <1>4 DEF Quiet, TakeRequests, RequestsTaken, Recovered, Report, Reported,
      ParentWrite, ParentWritten, Answered, Errs, Closed, EndTurn, ClientEnds,
      Resume, RequestResume, Recover, Canceller, CancelJoined, CancelSaved,
      Leaves, ActiveState, Idle
<1>5. ASSUME NEW w \in Worker, WorkerNext(w) PROVE (started \in 0..MaxTotal)'
  BY <1>5 DEF WorkerNext, Call, Counted, Ask, Asked, Denied, Run, Written, Finish,
      Heartbeat, End, Snapshot, Checkpoint, SaveStates, ActiveState
<1>6. ASSUME NEW w \in Worker, TurnCancels(w) \/ ControlCancels(w) PROVE (started \in 0..MaxTotal)'
  BY <1>6 DEF TurnCancels, ControlCancels, CancelWorker, ActiveState, CancelTask,
      Snapshot
<1>7. CASE Stop
  <2>1. CASE turn = "save"
    <3>1. Cardinality(op.ws) <= started /\ Cardinality(op.ws) \in Nat
      BY <2>1, FiniteWorkers DEF Starting
    <3>2. started' \in {started, started - Cardinality(op.ws)}
      BY <1>7, <2>1 DEF Stop, Withdraw, Rollback, GiveUp
    <3> QED BY <3>1, <3>2, SubagentsAssumption DEF SubagentsAssumption
  <2> QED BY <1>7, <2>1 DEF Stop
<1>8. CASE Close
  BY <1>8 DEF Close, Set, CancelTask
<1>9. CASE UNCHANGED vars
  BY <1>9
<1> QED BY <1>1, <1>2, <1>3, <1>4, <1>5, <1>6, <1>7, <1>8, <1>9 DEF Next, Quiet

(* The bounds are spent, never refilled. *)
Spends == budget' = budget \/ \E b \in {"turn", "stop", "crash", "fault", "request"} : Spend(b)

(* A step spends one of them at most. *)
LEMMA SpendStep == Inv /\ [Next]_vars => Spends
<1> SUFFICES ASSUME Inv, [Next]_vars PROVE Spends
  OBVIOUS
<1> USE DEF Spends
<1>1. CASE BeginTurn \/ Crash
  BY <1>1 DEF BeginTurn, Crash, Canceller, Idle
<1>2. CASE Spawn \/ Register \/ BuildFails
  BY <1>2 DEF Spawn, Register, BuildFails, Unused, Fresh
<1>3. CASE Launch \/ LaunchRefused \/ LaunchFails
  BY <1>3 DEF Launch, LaunchRefused, LaunchFails
<1>4. CASE Quiet
  BY Zenon, <1>4 DEF Quiet, TakeRequests, RequestsTaken, Recovered, Report, Reported,
      ParentWrite, ParentWritten, Answered, Errs, Closed, EndTurn, ClientEnds,
      Resume, RequestResume, Recover, Canceller, CancelJoined, CancelSaved,
      Leaves, ActiveState, AnswerRequest, Idle
<1>5. ASSUME NEW w \in Worker, WorkerNext(w) PROVE Spends
  BY <1>5 DEF WorkerNext, Call, Counted, Ask, Asked, Denied, Run, Written, Finish,
      Heartbeat, End, ActiveState
<1>6. ASSUME NEW w \in Worker, TurnCancels(w) \/ ControlCancels(w) PROVE Spends
  BY <1>6 DEF TurnCancels, ControlCancels, CancelWorker, ActiveState
<1>7. CASE Stop
  BY <1>7 DEF Stop, Leaves, Idle
<1>8. CASE Close
  BY <1>8 DEF Close
<1>9. CASE UNCHANGED vars
  BY <1>9
<1> QED BY <1>1, <1>2, <1>3, <1>4, <1>5, <1>6, <1>7, <1>8, <1>9 DEF Next, Quiet

(* And so do cancellations and histories. *)
LEMMA OtherTypeKept == Inv /\ [Next]_vars => OtherType'
<1> SUFFICES ASSUME Inv, [Next]_vars PROVE OtherType'
  OBVIOUS
<1> USE DEF Inv, OtherType, TypeOK
<1>1. CASE BeginTurn \/ Crash
  BY <1>1, RestoreTypes DEF BeginTurn, Crash, Canceller, Idle
<1>2. CASE Spawn \/ Register \/ BuildFails
  BY <1>2 DEF Spawn, Register, BuildFails, Unused, Fresh, Refuse, Break,
      AnswerRequest, Idle
<1>3. CASE Launch \/ LaunchRefused \/ LaunchFails
  BY <1>3 DEF Launch, LaunchRefused, LaunchFails, Withdraw, Refuse, Break,
      Rollback, GiveUp, AnswerRequest, Idle
<1>4. CASE Quiet
  <2>1. CASE TakeRequests \/ RequestsTaken
    BY <2>1 DEF TakeRequests, RequestsTaken, Idle
  <2>5. CASE Recovered \/ Report \/ Reported
    BY <2>5 DEF Recovered, Report, Reported, Idle
  <2>6. CASE ParentWrite \/ ParentWritten \/ Answered \/ Errs
    BY Zenon, <2>6 DEF ParentWrite, ParentWritten, Answered, Errs, Leaves, Idle
  <2>2. CASE Closed \/ EndTurn \/ ClientEnds
    BY <2>2 DEF Closed, EndTurn, ClientEnds, Idle
  <2>3. ASSUME NEW w \in Worker, Resume(w) \/ RequestResume(w) \/ Recover(w)
        PROVE  OtherType'
    BY <2>3 DEF Resume, RequestResume, Recover, ActiveState, AnswerRequest, Idle
  <2>4. ASSUME NEW c \in Canceller, CancelJoined(c) \/ CancelSaved(c)
        PROVE  OtherType'
    BY SMTT(60), <2>4 DEF CancelJoined, CancelSaved, Idle
  <2> QED BY <1>4, <2>1, <2>2, <2>3, <2>4, <2>5, <2>6 DEF Quiet
<1>5. ASSUME NEW w \in Worker, WorkerNext(w) PROVE OtherType'
  BY <1>5 DEF WorkerNext, Call, Counted, Ask, Asked, Denied, Run, Written, Finish,
      Heartbeat, End, ActiveState, Idle
<1>6. ASSUME NEW w \in Worker, TurnCancels(w) \/ ControlCancels(w) PROVE OtherType'
  BY <1>6 DEF TurnCancels, ControlCancels, CancelWorker, ActiveState, Idle
<1>7. CASE Stop
  <2>1. CASE turn = "save"
    BY <1>7, <2>1 DEF Stop, Withdraw, Idle, Rollback, GiveUp
  <2>2. CASE turn = "build"
    BY <1>7, <2>2 DEF Stop, Idle
  <2>3. CASE turn = "cancel"
    <3>1. joining' = [joining EXCEPT !["turn"] = Idle] /\ UNCHANGED <<dropped, asked>>
      BY <1>7, <2>3 DEF Stop
    <3> QED BY <3>1 DEF Idle, Canceller
  <2>4. CASE turn \notin {"save", "build", "cancel"}
    BY <1>7, <2>4 DEF Stop, Idle
  <2> QED BY <2>1, <2>2, <2>3, <2>4
<1>8. CASE Close
  BY <1>8 DEF Close, Idle
<1>9. CASE UNCHANGED vars
  BY <1>9
<1> QED BY <1>1, <1>2, <1>3, <1>4, <1>5, <1>6, <1>7, <1>8, <1>9 DEF Next, Quiet

(* All together. *)
LEMMA TypeKept == Inv /\ [Next]_vars => TypeOK'
<1> SUFFICES ASSUME Inv, [Next]_vars PROVE TypeOK'
  OBVIOUS
<1>1. (\A b \in DOMAIN budget : budget[b] \in Nat)'
  <2>1. Spends /\ \A b \in DOMAIN budget : budget[b] \in Nat
    BY SpendStep DEF Inv, TypeOK
  <2> QED BY <2>1 DEF Spends, Spend
<1> QED BY <1>1, WorkerTypeKept, WriteTypeKept, StoreTypeKept, OpTypeKept, TurnTypeKept,
           StartedKept, OtherTypeKept
        DEF TypeOK, WorkerType, WriteType, StoreType, TurnType, OtherType

-----------------------------------------------------------------------------
(* The invariant.                                                          *)

(* Registered workers are those that fit. *)
LEMMA AdmissionKept == Inv /\ [Next]_vars => AdmissionHolds'
<1> SUFFICES ASSUME Inv, [Next]_vars PROVE AdmissionHolds'
  OBVIOUS
<1>1. CASE Register
  <2>1. /\ Fits(op.ws, owns) /\ op.ws \subseteq Worker /\ UNCHANGED owns
        /\ Active' = Active \cup op.ws
    BY <1>1 DEF Register, Inv, Admitted, TypeOK, Active, Set, ActiveState
  <2>2. Active \subseteq Worker /\ Active' \subseteq Worker
    BY <2>1 DEF Active
  <2>3. Cardinality(Active') <= Cardinality(Active) + Cardinality(op.ws)
    <3>1. Cardinality(Active') =
            Cardinality(Active) + Cardinality(op.ws) - Cardinality(Active \cap op.ws)
      BY <2>1, <2>2, FiniteWorkers, FS_Union
    <3> QED BY <2>1, <2>2, <3>1, FiniteWorkers
  <2>4. Cardinality(Active') <= MaxConcurrent
    BY <2>1, <2>2, <2>3, FiniteWorkers, SubagentsAssumption DEF Fits, SubagentsAssumption
  <2>5. \A v, w \in Active' : v # w => owns'[v] \cap owns'[w] = {}
    BY <2>1 DEF Fits, Inv, AdmissionHolds
  <2> QED BY <2>4, <2>5 DEF AdmissionHolds
<1>2. CASE ~Register
  <2>1. Active' \subseteq Active /\ \A w \in Active' : owns'[w] = owns[w]
    BY <1>2, ActiveShrinks
  <2>2. Cardinality(Active') <= Cardinality(Active) /\ Cardinality(Active) \in Nat
        /\ Cardinality(Active') \in Nat
    BY <2>1, FiniteWorkers DEF Active
  <2> QED BY <2>1, <2>2, SubagentsAssumption DEF SubagentsAssumption, Inv, AdmissionHolds
<1> QED BY <1>1, <1>2

(* What a restart does to the workers, if it restores them. *)
LEMMA RestartFacts ==
  ASSUME Inv, BeginTurn \/ Crash
  PROVE  \/ BeginTurn /\ UNCHANGED <<status, owns, calls, session, dropped>>
         \/ \E x \in {session, saved} : \A w \in Worker :
              /\ status'[w] \in Status \ ActiveState
              /\ status'[w] = x[w].status \/ (x[w].status \in ActiveState /\ status'[w] = "interrupted")
              /\ calls'[w] = x[w].calls
              /\ session'[w].status = status'[w] /\ session'[w].calls = calls'[w]
              /\ w \in dropped' <=> (w \in dropped /\ status'[w] # "interrupted")
<1>1. /\ session \in [Worker -> [status : Status, calls : 0..MaxCalls + 1]]
      /\ saved \in [Worker -> [status : Status, calls : 0..MaxCalls + 1]]
  BY DEF Inv, TypeOK
<1>2. CASE RestoreFrom(session)
  BY <1>1, <1>2, RestoreFacts
<1>3. CASE RestoreFrom(saved)
  BY <1>1, <1>3, RestoreFacts
<1> QED BY Zenon, <1>2, <1>3 DEF BeginTurn, Crash

(* After it nobody runs. *)
LEMMA RestartIdle ==
  ASSUME Inv, BeginTurn \/ Crash
  PROVE  /\ turn' \in {"idle", "open"} /\ UNCHANGED <<saved, ran>>
         /\ \A w \in Worker : task'[w] = "none" /\ status'[w] \in Status \ ActiveState
<1>1. turn' \in {"idle", "open"} /\ UNCHANGED <<saved, ran>>
  BY DEF BeginTurn, Crash
<1>2. \A w \in Worker : task'[w] = "none"
  BY DEF BeginTurn, Crash, Inv, Tasks
<1>3. CASE BeginTurn /\ UNCHANGED <<status, owns, calls, session, dropped>>
  BY <1>1, <1>2, <1>3 DEF BeginTurn, Inv, Tasks, TypeOK
<1> QED BY <1>1, <1>2, <1>3, RestartFacts

(* What taking back a start does to the workers. *)
LEMMA WithdrawFacts ==
  ASSUME Inv, turn = "save", Withdraw, NEW w \in Worker
  PROVE  /\ w \notin op.ws => status'[w] = status[w] /\ owns'[w] = owns[w]
         /\ w \in op.ws => \/ op.kind = "batch" /\ status'[w] = "none" /\ owns'[w] = {}
                           \/ owns'[w] = owns[w] /\ status'[w] = "interrupted" /\ status[w] = "running"
                           \/ owns'[w] = owns[w] /\ status'[w] = "cancelled" /\ status[w] = "cancelled"
         /\ session'[w].status = status'[w] /\ session'[w].calls = calls[w]
BY DEF Withdraw, Rollback, GiveUp, Set, SaveStates, Snapshot, Inv, Starting, TypeOK

(* What fits when it is admitted fits until it is registered. *)
LEMMA AdmittedKept == Inv /\ [Next]_vars => Admitted'
<1> SUFFICES ASSUME Inv, [Next]_vars, turn' = "build" PROVE Fits(op.ws, owns)'
  BY DEF Admitted
<1>1. ~Register
  BY DEF Register
<1>2. Active' \subseteq Active /\ op.ws \in SUBSET Worker
  BY <1>1, ActiveShrinks DEF Inv, TypeOK
<1>3. CASE turn = "build"
  <2>1. UNCHANGED <<op, owns, started>>
    BY <1>1, <1>3 DEF Next, BeginTurn, Spawn, BuildFails, Launch, LaunchRefused,
        LaunchFails, TakeRequests, RequestsTaken, Recovered, Report, Reported,
        ParentWrite, ParentWritten, Answered, Errs, Stop, Close, Closed,
        EndTurn, ClientEnds, Crash, Resume, RequestResume, Recover, TurnCancels,
        ControlCancels, WorkerNext, Canceller, CancelJoined, CancelSaved, Idle,
        Unused, Refuse, Break, NoOp, ActiveState, CancelWorker, Call, Counted,
        Ask, Asked, Denied, Run, Written, Finish, Heartbeat, End, Inv, Joining
  <2>2. Fits(op.ws, owns)
    BY <1>3 DEF Inv, Admitted
  <2> QED BY <1>2, <2>1, <2>2, FitsStill DEF Inv, Fits
<1>4. CASE Spawn
  <2>1. UNCHANGED <<status, started>> /\ \E ws : Fits(ws, owns') /\ op'.ws = ws
    BY <1>4 DEF Spawn
  <2>2. Active' = Active
    BY <2>1 DEF Active
  <2> QED BY <2>1, <2>2 DEF Fits
<1>5. ASSUME NEW w \in Worker, Resume(w) \/ Recover(w), turn # "build" PROVE Fits(op.ws, owns)'
  <2>1. UNCHANGED <<status, owns, started>> /\ Fits({w}, owns) /\ op'.ws = {w}
    BY <1>5 DEF Resume, Recover, Resumable
  <2>2. Active' = Active
    BY <2>1 DEF Active
  <2> QED BY <2>1, <2>2 DEF Fits
<1>6. ASSUME turn # "build", ~Spawn, \A w \in Worker : ~Resume(w) /\ ~Recover(w) PROVE FALSE
  BY <1>1, <1>6 DEF Next, BeginTurn, BuildFails, Launch, LaunchRefused,
      LaunchFails, TakeRequests, RequestsTaken, Recovered, Report, Reported,
      ParentWrite, ParentWritten, Answered, Errs, Stop, Close, Closed, EndTurn,
      ClientEnds, Crash, RequestResume, TurnCancels, ControlCancels, WorkerNext,
      Canceller, CancelJoined, CancelSaved, Idle, Refuse, Break, NoOp,
      ActiveState, CancelWorker, Call, Counted, Ask, Asked, Denied, Run, Written,
      Finish, Heartbeat, End, Inv, Joining
<1> QED BY <1>3, <1>4, <1>5, <1>6

(* A task is made for an active worker and ends with its activity. *)
LEMMA TasksKept == Inv /\ [Next]_vars => Tasks'
<1> SUFFICES ASSUME Inv, [Next]_vars PROVE Tasks'
  OBVIOUS
<1> USE DEF Inv, TypeOK, Tasks, Starting, Joining, Dropping, Busy, Status,
      ActiveState, SettledState
<1>1. CASE BeginTurn \/ Crash
  BY Zenon, <1>1, RestartIdle DEF BeginTurn, Crash
<1>2. CASE Spawn \/ Register \/ BuildFails
  BY <1>2 DEF Spawn, Register, BuildFails, Unused, Fresh, Set, Refuse, Break,
      Forget, NoOp, AnswerRequest, Active
<1>3. CASE Launch \/ LaunchRefused \/ LaunchFails
  <2>1. CASE Launch
    BY <2>1 DEF Launch, Set, NoOp, Active
  <2>2. CASE LaunchRefused
    BY <2>2, WithdrawFacts DEF LaunchRefused, Refuse, NoOp, AnswerRequest, Active
  <2>3. CASE LaunchFails
    BY <2>3, WithdrawFacts DEF LaunchFails, Break, NoOp, Active
  <2> QED BY <1>3, <2>1, <2>2, <2>3
<1>4. CASE Quiet
  <2>1. CASE TakeRequests \/ RequestsTaken
    BY <2>1 DEF TakeRequests, RequestsTaken, Active
  <2>5. CASE Recovered \/ Report \/ Reported
    BY <2>5 DEF Recovered, Report, Reported, NoOp, Active
  <2>6. CASE ParentWrite \/ ParentWritten \/ Answered \/ Errs
    BY ZenonT(60), <2>6 DEF ParentWrite, ParentWritten, Answered, Errs, Leaves, Active
  <2>2. CASE Closed \/ EndTurn \/ ClientEnds
    BY <2>2 DEF Closed, EndTurn, ClientEnds, NoOp, Active
  <2>3. ASSUME NEW w \in Worker, Resume(w) \/ RequestResume(w) \/ Recover(w)
        PROVE  Tasks'
    BY <2>3 DEF Resume, RequestResume, Recover, ActiveState, AnswerRequest, Active
  <2>4. ASSUME NEW c \in Canceller, CancelJoined(c) \/ CancelSaved(c)
        PROVE  Tasks'
    BY <2>4 DEF CancelJoined, CancelSaved, Idle, Active
  <2> QED BY <1>4, <2>1, <2>2, <2>3, <2>4, <2>5, <2>6 DEF Quiet
<1>5. ASSUME NEW w \in Worker, WorkerNext(w) PROVE Tasks'
  <2>1. CASE Call(w)
    BY <2>1 DEF Call, Active
  <2>2. CASE Counted(w)
    BY <2>2 DEF Counted, Active
  <2>3. CASE Ask(w)
    BY <2>3 DEF Ask, Active
  <2>4. CASE Asked(w)
    BY <2>4 DEF Asked, Active
  <2>5. CASE Denied(w)
    BY <2>5 DEF Denied, Active
  <2>6. CASE Run(w)
    BY <2>6 DEF Run, Active
  <2>7. CASE Written(w)
    BY <2>7 DEF Written, Active
  <2>8. CASE Finish(w) \/ Heartbeat(w)
    BY <2>8 DEF Finish, Heartbeat, ActiveState, Active
  <2>9. CASE End(w)
    BY <2>9 DEF End, Active
  <2> QED BY <1>5, <2>1, <2>2, <2>3, <2>4, <2>5, <2>6, <2>7, <2>8, <2>9 DEF WorkerNext
<1>6. ASSUME NEW w \in Worker, TurnCancels(w) \/ ControlCancels(w) PROVE Tasks'
  BY <1>6 DEF TurnCancels, ControlCancels, CancelWorker, ActiveState, CancelTask, Active
<1>7. CASE Stop
  <2>1. CASE turn = "save"
    BY <1>7, <2>1, WithdrawFacts DEF Stop, Leaves, NoOp, Idle, Active
  <2>2. CASE turn = "build"
    BY <1>7, <2>2 DEF Stop, Leaves, NoOp, Forget, Idle, Fresh, Set, Active
  <2>3. CASE turn = "cancel"
    <3>1. turn' = "ending" /\ UNCHANGED status
      BY <1>7, <2>3 DEF Stop
    <3>2. \A w \in Worker :
            \/ task'[w] = task[w]
            \/ /\ w \in dropped /\ task'[w] \in {"none", "drain", "end"}
               /\ task[w] = "none" => task'[w] = "none"
      <4>1. task' = IF joining["turn"].pc = "join"
                      THEN [w \in Worker |-> IF w \in joining["turn"].ws THEN CancelTask(task[w])
                                                                        ELSE task[w]]
                      ELSE task
        <5> HIDE DEF Inv, TypeOK, Tasks, Starting, Joining, Dropping
        <5> QED BY <1>7, <2>3 DEF Stop
      <4>2. \A pc : /\ CancelTask(pc) \in {"none", "drain", "end"}
                    /\ pc = "none" => CancelTask(pc) = "none"
        BY DEF CancelTask
      <4> HIDE DEF CancelTask
      <4>3. CASE joining["turn"].pc = "join"
        BY <4>1, <4>2, <4>3
      <4> QED BY <4>1, <4>3
    <3> QED BY SMTT(60), <2>3, <3>1, <3>2
  <2>4. CASE turn \notin {"save", "build", "cancel"}
    BY <1>7, <2>4 DEF Stop, Leaves, NoOp, Idle, Active
  <2> QED BY <2>1, <2>2, <2>3, <2>4
<1>8. CASE Close
  BY <1>8 DEF Close, Set, CancelTask, Active
<1>9. CASE UNCHANGED vars
  BY <1>9
<1> QED BY <1>1, <1>2, <1>3, <1>4, <1>5, <1>6, <1>7, <1>8, <1>9 DEF Next, Quiet

(* A cancelled worker stays settled. *)
LEMMA DroppingKept == Inv /\ [Next]_vars => Dropping'
<1> SUFFICES ASSUME Inv, [Next]_vars PROVE Dropping'
  OBVIOUS
<1> USE DEF Inv, TypeOK, Tasks, Starting, Dropping, Busy, Status, ActiveState,
      SettledState
<1>1. CASE BeginTurn \/ Crash
  <2>1. CASE BeginTurn /\ UNCHANGED <<status, owns, calls, session, dropped>>
    BY <2>1
  <2>2. dropped' \subseteq Worker
    BY TypeKept DEF TypeOK
  <2> QED BY <1>1, <2>1, <2>2, RestartIdle, RestartFacts
<1>2. CASE Spawn \/ Register \/ BuildFails
  BY <1>2 DEF Spawn, Register, BuildFails, Unused, Fresh, Set, Refuse, Break,
      Forget, NoOp, AnswerRequest, Active
<1>3. CASE Launch \/ LaunchRefused \/ LaunchFails
  <2>1. CASE Launch
    BY <2>1 DEF Launch, Set, NoOp, Active
  <2>2. CASE LaunchRefused
    BY <2>2, WithdrawFacts DEF LaunchRefused, Refuse, NoOp, AnswerRequest, Active
  <2>3. CASE LaunchFails
    BY <2>3, WithdrawFacts DEF LaunchFails, Break, NoOp, Active
  <2> QED BY <1>3, <2>1, <2>2, <2>3
<1>4. CASE Quiet
  <2>1. CASE TakeRequests \/ RequestsTaken
    BY <2>1 DEF TakeRequests, RequestsTaken, Active
  <2>5. CASE Recovered \/ Report \/ Reported
    BY <2>5 DEF Recovered, Report, Reported, NoOp, Active
  <2>6. CASE ParentWrite \/ ParentWritten \/ Answered \/ Errs
    BY Zenon, <2>6 DEF ParentWrite, ParentWritten, Answered, Errs, Leaves, Active
  <2>2. CASE Closed \/ EndTurn \/ ClientEnds
    BY <2>2 DEF Closed, EndTurn, ClientEnds, NoOp, Active
  <2>3. ASSUME NEW w \in Worker, Resume(w) \/ RequestResume(w) \/ Recover(w)
        PROVE  Dropping'
    BY <2>3 DEF Resume, RequestResume, Recover, ActiveState, AnswerRequest, Active
  <2>4. ASSUME NEW c \in Canceller, CancelJoined(c) \/ CancelSaved(c)
        PROVE  Dropping'
    BY <2>4 DEF CancelJoined, CancelSaved, Idle, Active
  <2> QED BY <1>4, <2>1, <2>2, <2>3, <2>4, <2>5, <2>6 DEF Quiet
<1>5. ASSUME NEW w \in Worker, WorkerNext(w) PROVE Dropping'
  <2>1. CASE Call(w)
    BY <2>1 DEF Call, Active
  <2>2. CASE Counted(w)
    BY <2>2 DEF Counted, Active
  <2>3. CASE Ask(w)
    BY <2>3 DEF Ask, Active
  <2>4. CASE Asked(w)
    BY <2>4 DEF Asked, Active
  <2>5. CASE Denied(w)
    BY <2>5 DEF Denied, Active
  <2>6. CASE Run(w)
    BY <2>6 DEF Run, Active
  <2>7. CASE Written(w)
    BY <2>7 DEF Written, Active
  <2>8. CASE Finish(w) \/ Heartbeat(w)
    BY <2>8 DEF Finish, Heartbeat, ActiveState, Active
  <2>9. CASE End(w)
    BY <2>9 DEF End, Active
  <2> QED BY <1>5, <2>1, <2>2, <2>3, <2>4, <2>5, <2>6, <2>7, <2>8, <2>9 DEF WorkerNext
<1>6. ASSUME NEW w \in Worker, TurnCancels(w) \/ ControlCancels(w) PROVE Dropping'
  BY <1>6 DEF TurnCancels, ControlCancels, CancelWorker, ActiveState, CancelTask, Active
<1>7. CASE Stop
  <2>1. CASE turn = "save"
    BY Zenon, <1>7, <2>1, WithdrawFacts DEF Stop, Leaves, NoOp, Idle, Active
  <2>2. CASE turn = "build"
    BY <1>7, <2>2 DEF Stop, Leaves, NoOp, Forget, Idle, Fresh, Set, Active
  <2>3. CASE turn = "cancel"
    BY <1>7, <2>3 DEF Stop, NoOp, CancelTask, Idle, Active
  <2>4. CASE turn \notin {"save", "build", "cancel"}
    BY <1>7, <2>4 DEF Stop, Leaves, NoOp, Idle, Active
  <2> QED BY <2>1, <2>2, <2>3, <2>4
<1>8. CASE Close
  BY <1>8 DEF Close, Set, CancelTask, Active
<1>9. CASE UNCHANGED vars
  BY <1>9
<1> QED BY <1>1, <1>2, <1>3, <1>4, <1>5, <1>6, <1>7, <1>8, <1>9 DEF Next, Quiet

(* Settled workers and their copies. *)
LEMMA SettlingKept == Inv /\ [Next]_vars => Settling'
<1> SUFFICES ASSUME Inv, [Next]_vars PROVE Settling'
  OBVIOUS
<1> USE DEF Inv, TypeOK, Tasks, Starting, Settling, Busy, Status, ActiveState,
      SettledState
<1>1. CASE BeginTurn \/ Crash
  BY SMTT(60), <1>1, RestartIdle, RestartFacts
<1>2. CASE Spawn \/ Register \/ BuildFails
  BY <1>2 DEF Spawn, Register, BuildFails, Unused, Fresh, Set, SaveStates, Refuse,
      Break, Forget, NoOp, Snapshot, AnswerRequest, Active
<1>3. CASE Launch \/ LaunchRefused \/ LaunchFails
  <2>1. CASE Launch
    BY <2>1 DEF Launch, Checkpoint, Set, NoOp, Active
  <2>2. CASE LaunchRefused
    BY <2>2, WithdrawFacts DEF LaunchRefused, Checkpoint, Refuse, NoOp,
        AnswerRequest, Active
  <2>3. CASE LaunchFails
    BY <2>3, WithdrawFacts DEF LaunchFails, Break, NoOp, Active
  <2> QED BY <1>3, <2>1, <2>2, <2>3
<1>4. CASE Quiet
  <2>1. CASE TakeRequests \/ RequestsTaken
    BY <2>1 DEF TakeRequests, RequestsTaken, Snapshot, Checkpoint, Active
  <2>5. CASE Recovered \/ Report \/ Reported
    BY <2>5 DEF Recovered, Report, Reported, NoOp, Snapshot, Checkpoint, Active
  <2>6. CASE ParentWrite \/ ParentWritten \/ Answered \/ Errs
    BY ZenonT(60), <2>6 DEF ParentWrite, ParentWritten, Answered, Errs, Leaves, Active
  <2>2. CASE Closed \/ EndTurn \/ ClientEnds
    BY <2>2 DEF Closed, EndTurn, ClientEnds, Snapshot, NoOp, Checkpoint, Active
  <2>3. ASSUME NEW w \in Worker, Resume(w) \/ RequestResume(w) \/ Recover(w)
        PROVE  Settling'
    BY <2>3 DEF Resume, RequestResume, Recover, ActiveState, AnswerRequest, Active
  <2>4. ASSUME NEW c \in Canceller, CancelJoined(c) \/ CancelSaved(c)
        PROVE  Settling'
    BY <2>4 DEF CancelJoined, CancelSaved, Snapshot, Idle, Checkpoint, Active
  <2> QED BY <1>4, <2>1, <2>2, <2>3, <2>4, <2>5, <2>6 DEF Quiet
<1>5. ASSUME NEW w \in Worker, WorkerNext(w) PROVE Settling'
  <2>1. CASE Call(w)
    BY <2>1 DEF Call, Snapshot, Active
  <2>2. CASE Counted(w)
    BY <2>2 DEF Counted, Checkpoint, Active
  <2>3. CASE Ask(w)
    BY <2>3 DEF Ask, SaveStates, Snapshot, Active
  <2>4. CASE Asked(w)
    BY <2>4 DEF Asked, Checkpoint, Active
  <2>5. CASE Denied(w)
    BY <2>5 DEF Denied, Active
  <2>6. CASE Run(w)
    BY <2>6 DEF Run, Active
  <2>7. CASE Written(w)
    BY <2>7 DEF Written, Active
  <2>8. CASE Finish(w) \/ Heartbeat(w)
    BY <2>8 DEF Finish, Heartbeat, ActiveState, Snapshot, Active
  <2>9. CASE End(w)
    BY <2>9 DEF End, SaveStates, Snapshot, Active
  <2> QED BY <1>5, <2>1, <2>2, <2>3, <2>4, <2>5, <2>6, <2>7, <2>8, <2>9 DEF WorkerNext
<1>6. ASSUME NEW w \in Worker, TurnCancels(w) \/ ControlCancels(w) PROVE Settling'
  BY <1>6 DEF TurnCancels, ControlCancels, CancelWorker, ActiveState, CancelTask,
      Snapshot, Active
<1>7. CASE Stop
  <2>1. CASE turn = "save"
    BY <1>7, <2>1, WithdrawFacts DEF Stop, Leaves, NoOp, Checkpoint, Idle, Active
  <2>2. CASE turn = "build"
    BY <1>7, <2>2 DEF Stop, Leaves, NoOp, Checkpoint, Forget, Idle, Fresh, Set, Active
  <2>3. CASE turn = "cancel"
    BY <1>7, <2>3 DEF Stop, NoOp, Checkpoint, CancelTask, Idle, Active
  <2>4. CASE turn \notin {"save", "build", "cancel"}
    BY <1>7, <2>4 DEF Stop, Leaves, NoOp, Checkpoint, Idle, Active
  <2> QED BY <2>1, <2>2, <2>3, <2>4
<1>8. CASE Close
  BY <1>8 DEF Close, Set, CancelTask, Active
<1>9. CASE UNCHANGED vars
  BY <1>9
<1> QED BY <1>1, <1>2, <1>3, <1>4, <1>5, <1>6, <1>7, <1>8, <1>9 DEF Next, Quiet

(* Calls and runs. *)
LEMMA CountingKept == Inv /\ [Next]_vars => Counting'
<1> SUFFICES ASSUME Inv, [Next]_vars PROVE Counting'
  OBVIOUS
<1> USE DEF Inv, TypeOK, Tasks, Starting, Settling, Counting, Busy, Fresh, Status,
      ActiveState, SettledState, SubagentsAssumption
<1>1. CASE BeginTurn \/ Crash
  BY SMTT(60), <1>1, RestartIdle, RestartFacts
<1>2. CASE Spawn \/ Register \/ BuildFails
  BY <1>2, SubagentsAssumption, SubagentsAssumption DEF Spawn, Register,
      BuildFails, Unused, Fresh, Set, SaveStates, Refuse, Break, Forget, NoOp,
      Snapshot, AnswerRequest, Active
<1>3. CASE Launch \/ LaunchRefused \/ LaunchFails
  <2>1. CASE Launch
    BY <2>1, SubagentsAssumption DEF Launch, Checkpoint, Set, NoOp, Active
  <2>2. CASE LaunchRefused
    BY <2>2, SubagentsAssumption, WithdrawFacts DEF LaunchRefused, Checkpoint,
        Refuse, NoOp, AnswerRequest, Active
  <2>3. CASE LaunchFails
    BY <2>3, SubagentsAssumption, WithdrawFacts DEF LaunchFails, Break, NoOp, Active
  <2> QED BY <1>3, <2>1, <2>2, <2>3
<1>4. CASE Quiet
  <2>1. CASE TakeRequests \/ RequestsTaken
    BY <2>1, SubagentsAssumption DEF TakeRequests, RequestsTaken, Snapshot,
        Checkpoint, Active
  <2>5. CASE Recovered \/ Report \/ Reported
    BY <2>5, SubagentsAssumption DEF Recovered, Report, Reported, NoOp,
        Snapshot, Checkpoint, Active
  <2>6. CASE ParentWrite \/ ParentWritten \/ Answered \/ Errs
    <3>1. UNCHANGED <<calls, task, status, ran, session, saved>>
      BY Zenon, <2>6 DEF ParentWrite, ParentWritten, Answered, Errs
    <3> QED BY <3>1
  <2>2. CASE Closed \/ EndTurn \/ ClientEnds
    BY <2>2, SubagentsAssumption DEF Closed, EndTurn, ClientEnds, Snapshot,
        NoOp, Checkpoint, Active
  <2>3. ASSUME NEW w \in Worker, Resume(w) \/ RequestResume(w) \/ Recover(w)
        PROVE  Counting'
    BY <2>3, SubagentsAssumption DEF Resume, RequestResume, Recover,
        ActiveState, AnswerRequest, Active
  <2>4. ASSUME NEW c \in Canceller, CancelJoined(c) \/ CancelSaved(c)
        PROVE  Counting'
    BY <2>4, SubagentsAssumption DEF CancelJoined, CancelSaved, Snapshot, Idle,
        Checkpoint, Active
  <2> QED BY <1>4, <2>1, <2>2, <2>3, <2>4, <2>5, <2>6 DEF Quiet
<1>5. ASSUME NEW w \in Worker, WorkerNext(w) PROVE Counting'
  <2>1. CASE Call(w)
    BY <2>1, SubagentsAssumption DEF Call, Snapshot, Active
  <2>2. CASE Counted(w)
    BY <2>2, SubagentsAssumption DEF Counted, Checkpoint, Active
  <2>3. CASE Ask(w)
    BY <2>3, SubagentsAssumption DEF Ask, SaveStates, Snapshot, Active
  <2>4. CASE Asked(w)
    BY <2>4, SubagentsAssumption DEF Asked, Checkpoint, Active
  <2>5. CASE Denied(w)
    BY <2>5, SubagentsAssumption DEF Denied, Active
  <2>6. CASE Run(w)
    BY <2>6, SubagentsAssumption DEF Run, Active
  <2>7. CASE Written(w)
    BY <2>7, SubagentsAssumption DEF Written, Active
  <2>8. CASE Finish(w) \/ Heartbeat(w)
    BY <2>8, SubagentsAssumption DEF Finish, Heartbeat, ActiveState, Snapshot, Active
  <2>9. CASE End(w)
    BY <2>9, SubagentsAssumption DEF End, SaveStates, Snapshot, Active
  <2> QED BY <1>5, <2>1, <2>2, <2>3, <2>4, <2>5, <2>6, <2>7, <2>8, <2>9 DEF WorkerNext
<1>6. ASSUME NEW w \in Worker, TurnCancels(w) \/ ControlCancels(w) PROVE Counting'
  BY <1>6, SubagentsAssumption, SubagentsAssumption DEF TurnCancels,
      ControlCancels, CancelWorker, ActiveState, CancelTask, Snapshot, Active
<1>7. CASE Stop
  <2>1. CASE turn = "save"
    BY <1>7, <2>1, SubagentsAssumption, WithdrawFacts DEF Stop, Leaves, NoOp,
        Checkpoint, Idle, Active
  <2>2. CASE turn = "build"
    BY <1>7, <2>2, SubagentsAssumption DEF Stop, Leaves, NoOp, Checkpoint,
        Forget, Idle, Fresh, Set, Active
  <2>3. CASE turn = "cancel"
    BY SMTT(60), <1>7, <2>3, SubagentsAssumption DEF Stop, NoOp, Checkpoint, CancelTask,
        Idle, Active
  <2>4. CASE turn \notin {"save", "build", "cancel"}
    BY <1>7, <2>4, SubagentsAssumption DEF Stop, Leaves, NoOp, Checkpoint, Idle, Active
  <2> QED BY <2>1, <2>2, <2>3, <2>4
<1>8. CASE Close
  BY <1>8, SubagentsAssumption, SubagentsAssumption DEF Close, Set, CancelTask, Active
<1>9. CASE UNCHANGED vars
  BY <1>9, SubagentsAssumption
<1> QED BY <1>1, <1>2, <1>3, <1>4, <1>5, <1>6, <1>7, <1>8, <1>9 DEF Next, Quiet

(* A start under way stays as it was begun. *)
LEMMA StartingKept == Inv /\ [Next]_vars => Starting'
<1> SUFFICES ASSUME Inv, [Next]_vars PROVE Starting'
  OBVIOUS
<1> USE DEF Inv, TypeOK, Tasks, Starting, Joining, Settling, Counting, Busy, Fresh,
      SubagentsAssumption, Status, ActiveState, SettledState
<1>1. CASE BeginTurn \/ Crash
  BY <1>1, RestartIdle
<1>2. CASE Spawn \/ Register \/ BuildFails
  <2>1. CASE Spawn
    BY <2>1, SubagentsAssumption, FiniteWorkers DEF Spawn, Unused
  <2>2. CASE Register
    BY <2>2, SubagentsAssumption, FiniteWorkers DEF Register, Fresh, Set,
        SaveStates, Snapshot
  <2>3. CASE BuildFails
    BY <2>3, SubagentsAssumption, FiniteWorkers DEF BuildFails, Refuse, Break,
        Forget, NoOp, AnswerRequest, Fresh, Set
  <2> QED BY <1>2, <2>1, <2>2, <2>3
<1>3. CASE Launch \/ LaunchRefused \/ LaunchFails
  <2>1. CASE Launch
    BY <2>1, SubagentsAssumption, FiniteWorkers DEF Launch, Checkpoint, Set,
        NoOp, Active, Fresh
  <2>2. CASE LaunchRefused
    BY <2>2, SubagentsAssumption, FiniteWorkers, WithdrawFacts DEF
        LaunchRefused, Checkpoint, Refuse, NoOp, AnswerRequest, Active, Fresh
  <2>3. CASE LaunchFails
    BY <2>3, SubagentsAssumption, FiniteWorkers, WithdrawFacts DEF LaunchFails,
        Break, NoOp, Active, Fresh
  <2> QED BY <1>3, <2>1, <2>2, <2>3
<1>4. CASE Quiet
  <2>1. CASE TakeRequests \/ RequestsTaken
    BY <2>1, SubagentsAssumption, FiniteWorkers DEF TakeRequests, RequestsTaken,
        Snapshot, Checkpoint, Active, Fresh
  <2>5. CASE Recovered \/ Report \/ Reported
    BY <2>5, SubagentsAssumption, FiniteWorkers DEF Recovered, Report, Reported,
        NoOp, Snapshot, Checkpoint, Active, Fresh
  <2>6. CASE ParentWrite \/ ParentWritten \/ Answered \/ Errs
    BY Zenon, <2>6, SubagentsAssumption, FiniteWorkers DEF ParentWrite, ParentWritten,
        Answered, Errs, Leaves, Active, Fresh
  <2>2. CASE Closed \/ EndTurn \/ ClientEnds
    BY <2>2, SubagentsAssumption, FiniteWorkers DEF Closed, EndTurn, ClientEnds,
        Snapshot, NoOp, Checkpoint, Active, Fresh
  <2>3. ASSUME NEW w \in Worker, Resume(w) \/ RequestResume(w) \/ Recover(w)
        PROVE  Starting'
    BY <2>3, SubagentsAssumption, FiniteWorkers DEF Resume, RequestResume,
        Recover, Resumable, ActiveState, AnswerRequest, Active, Fresh
  <2>4. ASSUME NEW c \in Canceller, CancelJoined(c) \/ CancelSaved(c)
        PROVE  Starting'
    BY <2>4, SubagentsAssumption, FiniteWorkers DEF CancelJoined, CancelSaved,
        Snapshot, Idle, Checkpoint, Active, Fresh
  <2> QED BY <1>4, <2>1, <2>2, <2>3, <2>4, <2>5, <2>6 DEF Quiet
<1>5. ASSUME NEW w \in Worker, WorkerNext(w) PROVE Starting'
  <2>1. CASE Call(w)
    BY <2>1, SubagentsAssumption, FiniteWorkers DEF Call, Snapshot, Active, Fresh
  <2>2. CASE Counted(w)
    BY <2>2, SubagentsAssumption, FiniteWorkers DEF Counted, Checkpoint, Active, Fresh
  <2>3. CASE Ask(w)
    BY <2>3, SubagentsAssumption, FiniteWorkers DEF Ask, SaveStates, Snapshot,
        Active, Fresh
  <2>4. CASE Asked(w)
    BY <2>4, SubagentsAssumption, FiniteWorkers DEF Asked, Checkpoint, Active, Fresh
  <2>5. CASE Denied(w)
    BY <2>5, SubagentsAssumption, FiniteWorkers DEF Denied, Active, Fresh
  <2>6. CASE Run(w)
    BY <2>6, SubagentsAssumption, FiniteWorkers DEF Run, Active, Fresh
  <2>7. CASE Written(w)
    BY <2>7, SubagentsAssumption, FiniteWorkers DEF Written, Active, Fresh
  <2>8. CASE Finish(w) \/ Heartbeat(w)
    BY <2>8, SubagentsAssumption, FiniteWorkers DEF Finish, Heartbeat,
        ActiveState, Snapshot, Active, Fresh
  <2>9. CASE End(w)
    BY <2>9, SubagentsAssumption, FiniteWorkers DEF End, SaveStates, Snapshot,
        Active, Fresh
  <2> QED BY <1>5, <2>1, <2>2, <2>3, <2>4, <2>5, <2>6, <2>7, <2>8, <2>9 DEF WorkerNext
<1>6. ASSUME NEW w \in Worker, TurnCancels(w) \/ ControlCancels(w) PROVE Starting'
  <2>1. CASE TurnCancels(w)
    BY <2>1 DEF TurnCancels
  <2>2. CASE ControlCancels(w)
    <3>1. /\ UNCHANGED <<turn, op, calls, saved, started>> /\ status[w] # "none"
          /\ \/ /\ status' = [status EXCEPT ![w] = "cancelled"]
                /\ task' = [task EXCEPT ![w] = CancelTask(@)] /\ dropped' = dropped \cup {w}
             \/ UNCHANGED <<status, task, dropped>>
      BY <2>2 DEF ControlCancels, CancelWorker
    <3>2. CancelTask("none") = "none"
      BY DEF CancelTask
    <3>3. CASE UNCHANGED <<status, task, dropped>>
      BY <3>1, <3>3
    <3>4. CASE /\ status' = [status EXCEPT ![w] = "cancelled"]
               /\ task' = [task EXCEPT ![w] = CancelTask(task[w])] /\ dropped' = dropped \cup {w}
      <4>1. \A v \in Worker : task[v] = "none" => task'[v] = "none"
        BY <3>2, <3>4
      <4>2. \A v \in Worker : status'[v] = IF v = w THEN "cancelled" ELSE status[v]
        BY <3>4
      <4>3. op.ws \subseteq Worker
        OBVIOUS
      <4> QED BY <3>1, <3>4, <4>1, <4>2, <4>3
    <3> QED BY <3>1, <3>3, <3>4
  <2> QED BY <1>6, <2>1, <2>2
<1>7. CASE Stop
  <2>1. CASE turn = "save"
    BY <1>7, <2>1, SubagentsAssumption, FiniteWorkers, WithdrawFacts DEF Stop,
        Leaves, NoOp, Checkpoint, Idle, Active, Fresh
  <2>2. CASE turn = "build"
    BY <1>7, <2>2, SubagentsAssumption, FiniteWorkers DEF Stop, Leaves, NoOp,
        Checkpoint, Forget, Idle, Fresh, Set, Active
  <2>3. CASE turn = "cancel"
    BY <1>7, <2>3, SubagentsAssumption, FiniteWorkers DEF Stop, NoOp,
        Checkpoint, CancelTask, Idle, Active, Fresh
  <2>4. CASE turn \notin {"save", "build", "cancel"}
    BY <1>7, <2>4, SubagentsAssumption, FiniteWorkers DEF Stop, Leaves, NoOp,
        Checkpoint, Idle, Active, Fresh
  <2> QED BY <2>1, <2>2, <2>3, <2>4
<1>8. CASE Close
  BY <1>8, SubagentsAssumption, FiniteWorkers DEF Close, Set, CancelTask, Active, Fresh
<1>9. CASE UNCHANGED vars
  BY <1>9
<1> QED BY <1>1, <1>2, <1>3, <1>4, <1>5, <1>6, <1>7, <1>8, <1>9 DEF Next, Quiet

(* The turn joins what it cancels. *)
LEMMA JoiningKept == Inv /\ [Next]_vars => Joining'
<1> SUFFICES ASSUME Inv, [Next]_vars PROVE Joining'
  OBVIOUS
<1> USE DEF Inv, TypeOK, Joining, Dropping, Canceller
<1>1. CASE BeginTurn \/ Crash
  BY <1>1 DEF BeginTurn, Crash, Canceller, Idle, RestoreFrom, NoOp, Restore,
      Snapshot, ActiveState
<1>2. CASE Spawn \/ Register \/ BuildFails
  BY <1>2 DEF Spawn, Register, BuildFails, Unused, Fresh, Set, Refuse, Break,
      Forget, NoOp, AnswerRequest, Active
<1>3. CASE Launch \/ LaunchRefused \/ LaunchFails
  <2>1. CASE Launch
    BY <2>1 DEF Launch, Set, NoOp, Active
  <2>2. CASE LaunchRefused
    BY <2>2, WithdrawFacts DEF LaunchRefused, Refuse, NoOp, AnswerRequest, Active
  <2>3. CASE LaunchFails
    BY <2>3, WithdrawFacts DEF LaunchFails, Break, NoOp, Active
  <2> QED BY <1>3, <2>1, <2>2, <2>3
<1>4. CASE Quiet
  <2>1. CASE TakeRequests \/ RequestsTaken
    BY <2>1 DEF TakeRequests, RequestsTaken, Active
  <2>5. CASE Recovered \/ Report \/ Reported
    BY <2>5 DEF Recovered, Report, Reported, NoOp, Active
  <2>6. CASE ParentWrite \/ ParentWritten \/ Answered \/ Errs
    BY Zenon, <2>6 DEF ParentWrite, ParentWritten, Answered, Errs, Leaves, Active
  <2>2. CASE Closed \/ EndTurn \/ ClientEnds
    BY <2>2 DEF Closed, EndTurn, ClientEnds, NoOp, Active
  <2>3. ASSUME NEW w \in Worker, Resume(w) \/ RequestResume(w) \/ Recover(w)
        PROVE  Joining'
    BY <2>3 DEF Resume, RequestResume, Recover, ActiveState, AnswerRequest, Active
  <2>4. ASSUME NEW c \in Canceller, CancelJoined(c) \/ CancelSaved(c)
        PROVE  Joining'
    BY <2>4 DEF CancelJoined, CancelSaved, Idle, Active
  <2> QED BY <1>4, <2>1, <2>2, <2>3, <2>4, <2>5, <2>6 DEF Quiet
<1>5. ASSUME NEW w \in Worker, WorkerNext(w) PROVE Joining'
  <2>1. CASE Call(w)
    BY <2>1 DEF Call, Active
  <2>2. CASE Counted(w)
    BY <2>2 DEF Counted, Active
  <2>3. CASE Ask(w)
    BY <2>3 DEF Ask, Active
  <2>4. CASE Asked(w)
    BY <2>4 DEF Asked, Active
  <2>5. CASE Denied(w)
    BY <2>5 DEF Denied, Active
  <2>6. CASE Run(w)
    BY <2>6 DEF Run, Active
  <2>7. CASE Written(w)
    BY <2>7 DEF Written, Active
  <2>8. CASE Finish(w) \/ Heartbeat(w)
    BY <2>8 DEF Finish, Heartbeat, ActiveState, Active
  <2>9. CASE End(w)
    BY <2>9 DEF End, Active
  <2> QED BY <1>5, <2>1, <2>2, <2>3, <2>4, <2>5, <2>6, <2>7, <2>8, <2>9 DEF WorkerNext
<1>6. ASSUME NEW w \in Worker, TurnCancels(w) \/ ControlCancels(w) PROVE Joining'
  BY <1>6 DEF TurnCancels, ControlCancels, CancelWorker, ActiveState, CancelTask, Active
<1>7. CASE Stop
  <2>1. CASE turn = "save"
    BY <1>7, <2>1, WithdrawFacts DEF Stop, Leaves, NoOp, Idle, Active
  <2>2. CASE turn = "build"
    BY <1>7, <2>2 DEF Stop, Leaves, NoOp, Forget, Idle, Fresh, Set, Active
  <2>3. CASE turn = "cancel"
    BY <1>7, <2>3 DEF Stop, NoOp, CancelTask, Idle, Active
  <2>4. CASE turn \notin {"save", "build", "cancel"}
    BY <1>7, <2>4 DEF Stop, Leaves, NoOp, Idle, Active
  <2> QED BY <2>1, <2>2, <2>3, <2>4
<1>8. CASE Close
  BY <1>8 DEF Close, Set, CancelTask, Active
<1>9. CASE UNCHANGED vars
  BY <1>9
<1> QED BY <1>1, <1>2, <1>3, <1>4, <1>5, <1>6, <1>7, <1>8, <1>9 DEF Next, Quiet

(* The invariant is one. *)
LEMMA Invariant == Spec => []Inv
<1>1. Init => Inv
  <2> SUFFICES ASSUME Init PROVE Inv
    OBVIOUS
  <2>1. TypeOK
    <3>1. Bound \in [{"turn", "stop", "crash", "fault", "request"} -> Nat]
      BY SubagentsAssumption DEF Bound, SubagentsAssumption
    <3>2. 0 \in 0..MaxCalls + 1 /\ 0 \in 0..MaxTotal
      BY SubagentsAssumption DEF SubagentsAssumption
    <3>3. WorkerType /\ WriteType
      BY <3>2 DEF Init, WorkerType, WriteType, Status
    <3>4. StoreType
      BY <3>2, <3>3, SnapshotType DEF Init, StoreType, WorkerType
    <3>5. /\ op \in [kind : {"none", "spawn", "batch", "resume", "recover", "close"},
                    ws : SUBSET Worker]
          /\ joining \in [Canceller -> [pc : {"none", "join", "save"}, ws : SUBSET Worker]]
      BY DEF Init, NoOp, Idle
    <3> QED BY ZenonT(60), <3>1, <3>2, <3>3, <3>4, <3>5 DEF Init, TypeOK, WorkerType, WriteType, StoreType
  <2>2. Active = {} /\ Cardinality(Active) = 0
    BY FS_EmptySet DEF Init, Active, ActiveState
  <2>3. AdmissionHolds
    BY <2>2, SubagentsAssumption DEF AdmissionHolds, SubagentsAssumption
  <2>4. Tasks /\ Starting /\ Admitted /\ Dropping
    BY DEF Init, Tasks, Starting, Admitted, Dropping, Busy, ActiveState
  <2>5. Counting /\ Settling /\ Joining
    BY SubagentsAssumption
       DEF Init, Counting, Settling, Joining, Busy, Snapshot, SettledState, SubagentsAssumption,
           Idle, Canceller
  <2> QED BY <2>1, <2>3, <2>4, <2>5 DEF Inv
<1>2. Inv /\ [Next]_vars => Inv'
  BY TypeKept, TasksKept, AdmittedKept, StartingKept, AdmissionKept, JoiningKept, CountingKept,
     SettlingKept, DroppingKept
  DEF Inv
<1> QED BY <1>1, <1>2, PTL DEF Spec

-----------------------------------------------------------------------------
(* Without conditions. *)

(* Every variable keeps its type, whatever is cancelled, crashes or fails. *)
THEOREM TypeCorrect == Spec => []TypeOK
BY Invariant, PTL DEF Inv

(* Whatever is spawned, batched, resumed or recovered across the await of   *)
(* _build_child, active workers own disjoint paths and stay within the     *)
(* limit: the checks of _check_batch and _check_available suffice.          *)
THEOREM AdmissionKeeps == Spec => []AdmissionHolds
BY Invariant, PTL DEF Inv

(* Over turns, crashes and recoveries a worker runs no more tools than its *)
(* budget, and none that the last checkpoint has not counted.              *)
THEOREM BudgetsHold == Spec => []CallsWithinBudget
<1>1. Inv => CallsWithinBudget
  BY DEF Inv, Counting, CallsWithinBudget
<1> QED BY Invariant, <1>1, PTL

(* No resume, request, crash or late checkpoint brings a worker back that   *)
(* is saved as done, failed or cancelled.                                  *)
THEOREM SettledIsFinal == Spec => []SettledStaysSettled
<1>1. Inv => SettledStaysSettled
  BY DEF Inv, Settling, SettledStaysSettled
<1> QED BY Invariant, <1>1, PTL

(* A worker cancelled on request, at whatever moment of its start, runs no *)
(* tool from then on.                                                      *)
THEOREM CancelledIsDead == Spec => CancelledNeverRuns
<1>1. Inv /\ [Next]_vars => [\A w \in dropped : ran'[w] = ran[w]]_vars
  <2> SUFFICES ASSUME Inv, [Next]_vars, NEW v \in dropped PROVE ran'[v] = ran[v]
    OBVIOUS
  <2>1. task[v] \notin Busy /\ v \in Worker
    BY Zenon DEF Inv, TypeOK, Dropping, Tasks, SettledState, ActiveState
  <2>2. CASE \E w \in Worker : Run(w)
    BY <2>1, <2>2 DEF Run, Inv, TypeOK, Busy
  <2>3. ASSUME ~(\E w \in Worker : Run(w)) PROVE UNCHANGED ran
    BY ZenonT(60), <2>3 DEF Next, BeginTurn, Spawn, Register, BuildFails, Launch,
        LaunchRefused, LaunchFails, TakeRequests, RequestsTaken, Recovered,
        Report, Reported, ParentWrite, ParentWritten, Answered, Errs, Stop,
        Close, Closed, EndTurn, ClientEnds, Crash, Resume, RequestResume,
        Recover, TurnCancels, ControlCancels, WorkerNext, Canceller,
        CancelJoined, CancelSaved, Idle, Unused, Fresh, NoOp, ActiveState,
        CancelWorker, Call, Counted, Ask, Asked, Denied, Written, Finish,
        Heartbeat, End
  <2> QED BY <2>2, <2>3
<1> QED BY Invariant, <1>1, PTL DEF Spec, CancelledNeverRuns
-----------------------------------------------------------------------------
(* The writes in flight.                                                   *)

(* A failed checkpoint is the only one. *)
LEMMA FaultSpent ==
  ASSUME Inv, Faults, [Next]_vars
  PROVE  /\ Faults'
         /\ budget["fault"] = 0 => budget'["fault"] = 0 /\ ~Spend("fault")
         /\ Spend("fault") => budget'["fault"] = 0
<1>1. Spends /\ \A b \in DOMAIN budget : budget[b] \in Nat
  BY SpendStep DEF Inv, TypeOK
<1> QED BY <1>1 DEF Spends, Spend, Faults

(* Paths are taken from a worker only when it does not write. *)
LEMMA OwnedKept == Inv /\ WriteInv /\ [Next]_vars => Owned'
<1> SUFFICES ASSUME Inv, WriteInv, [Next]_vars PROVE Owned'
  OBVIOUS
<1> USE DEF Inv, WriteInv, TypeOK, Tasks, Joining, Dropping, Busy, Resumes, Status,
      ActiveState, SettledState, Owned, Outlived, Unwritten, Fresh
<1>1. CASE BeginTurn \/ Crash
  <2>1. CASE Crash
    BY <1>1, <2>1 DEF Crash
  <2>2. CASE BeginTurn /\ ~RestoreFrom(session) /\ ~RestoreFrom(saved)
    BY <2>2 DEF BeginTurn
  <2>3. ASSUME BeginTurn, NEW x \in {session, saved}, RestoreFrom(x) PROVE Owned'
    <3>1. turn = "idle" /\ \A w \in Worker :
            thread'[w] = thread[w] /\ task[w] = "none" /\ task'[w] = "none"
      BY <2>3 DEF BeginTurn
    <3>2. \A w \in Worker : thread[w] # {} => w \in dropped /\ ~Resumes(x[w].status)
      BY Zenon, <2>3, <3>1
    <3>3. x \in [Worker -> [status : Status, calls : 0..MaxCalls + 1]]
      BY <2>3
    <3>4. \A w \in Worker : thread[w] # {} => w \in dropped'
      <4> SUFFICES ASSUME NEW w \in Worker, thread[w] # {} PROVE w \in dropped'
        OBVIOUS
      <4>1. /\ status'[w] = x[w].status \/ (x[w].status \in ActiveState /\ status'[w] = "interrupted")
            /\ w \in dropped' <=> (w \in dropped /\ status'[w] # "interrupted")
        BY Zenon, <2>3, <3>3, RestoreFacts
      <4> QED BY <3>2, <4>1
    <3> QED BY <3>1, <3>4
  <2> QED BY Zenon, <1>1, <2>1, <2>2, <2>3 DEF BeginTurn
<1>2. CASE Spawn \/ Register \/ BuildFails
  <2>1. CASE Spawn
    <3>1. \A w \in Unused : thread[w] = {}
      BY DEF Unused
    <3>2. /\ \A w \in Worker \ Unused : owns'[w] = owns[w]
          /\ UNCHANGED <<thread, dropped>>
      BY <2>1 DEF Spawn
    <3> QED BY Zenon, <3>1, <3>2
  <2>2. CASE Register
    BY <2>2 DEF Register, Fresh, Set
  <2>3. CASE BuildFails
    BY <2>3 DEF BuildFails, Forget, NoOp, Fresh, Set
  <2> QED BY <1>2, <2>1, <2>2, <2>3
<1>3. CASE Launch \/ LaunchRefused \/ LaunchFails
  <2>1. CASE Launch
    BY <2>1 DEF Launch, Set, NoOp, Active
  <2>2. CASE LaunchRefused
    BY Zenon, <2>2, WithdrawFacts DEF LaunchRefused, Refuse, NoOp, AnswerRequest, Active
  <2>3. CASE LaunchFails
    BY Zenon, <2>3, WithdrawFacts DEF LaunchFails, Break, NoOp, Active
  <2> QED BY <1>3, <2>1, <2>2, <2>3
<1>4. CASE Quiet
  <2>1. CASE TakeRequests \/ RequestsTaken
    BY <2>1 DEF TakeRequests, RequestsTaken, Active
  <2>5. CASE Recovered \/ Report \/ Reported
    BY <2>5 DEF Recovered, Report, Reported, NoOp, Active
  <2>6. CASE ParentWrite \/ ParentWritten \/ Answered \/ Errs
    BY Zenon, <2>6 DEF ParentWrite, ParentWritten, Answered, Errs, Leaves, Active
  <2>2. CASE Closed \/ EndTurn \/ ClientEnds
    BY <2>2 DEF Closed, EndTurn, ClientEnds, NoOp, Active
  <2>3. ASSUME NEW w \in Worker, Resume(w) \/ RequestResume(w) \/ Recover(w)
        PROVE  Owned'
    BY <2>3 DEF Resume, RequestResume, Recover, Resumable, ActiveState,
        AnswerRequest, Active
  <2>4. ASSUME NEW c \in Canceller, CancelJoined(c) \/ CancelSaved(c)
        PROVE  Owned'
    BY <2>4 DEF CancelJoined, CancelSaved, Idle, Active
  <2> QED BY <1>4, <2>1, <2>2, <2>3, <2>4, <2>5, <2>6 DEF Quiet
<1>5. ASSUME NEW w \in Worker, WorkerNext(w) PROVE Owned'
  <2>1. CASE Call(w)
    BY <2>1 DEF Call, Active
  <2>2. CASE Counted(w)
    BY <2>2 DEF Counted, Active
  <2>3. CASE Ask(w)
    BY <2>3 DEF Ask, Active
  <2>4. CASE Asked(w)
    BY <2>4 DEF Asked, Active
  <2>5. CASE Denied(w)
    BY <2>5 DEF Denied, Active
  <2>6. CASE Run(w)
    BY <2>6 DEF Run, Active
  <2>7. CASE Written(w)
    BY <2>7 DEF Written, Active
  <2>8. CASE Finish(w) \/ Heartbeat(w)
    BY <2>8 DEF Finish, Heartbeat, ActiveState, Active
  <2>9. CASE End(w)
    BY <2>9 DEF End, Active
  <2> QED BY <1>5, <2>1, <2>2, <2>3, <2>4, <2>5, <2>6, <2>7, <2>8, <2>9 DEF WorkerNext
<1>6. ASSUME NEW w \in Worker, TurnCancels(w) \/ ControlCancels(w) PROVE Owned'
  BY <1>6 DEF TurnCancels, ControlCancels, CancelWorker, ActiveState, CancelTask, Active
<1>7. CASE Stop
  <2>1. CASE turn = "save"
    BY Zenon, <1>7, <2>1, WithdrawFacts DEF Stop, NoOp, Idle, Active
  <2>2. CASE turn = "build"
    BY SMTT(60), <1>7, <2>2 DEF Stop, NoOp, Forget, Idle, Fresh, Set, Active
  <2>3. CASE turn = "cancel"
    BY <1>7, <2>3 DEF Stop, NoOp, CancelTask, Idle, Active
  <2>4. CASE turn \notin {"save", "build", "cancel"}
    BY <1>7, <2>4 DEF Stop, NoOp, Idle, Active
  <2> QED BY <2>1, <2>2, <2>3, <2>4
<1>8. CASE Close
  BY <1>8 DEF Close, Set, CancelTask, Active
<1>9. CASE UNCHANGED vars
  BY <1>9
<1> QED BY <1>1, <1>2, <1>3, <1>4, <1>5, <1>6, <1>7, <1>8, <1>9 DEF Next, Quiet

(* Close alone makes workers drain that nobody cancelled. *)
LEMMA DrainingKept == Inv /\ WriteInv /\ [Next]_vars => Draining'
<1> SUFFICES ASSUME Inv, WriteInv, [Next]_vars PROVE Draining'
  OBVIOUS
<1> USE DEF Inv, WriteInv, TypeOK, Tasks, Joining, Dropping, Busy, Resumes, Status,
      ActiveState, SettledState, Draining
<1>1. CASE BeginTurn \/ Crash
  <2>1. CASE Crash
    BY <1>1, <2>1, RestartIdle, RestartFacts DEF Crash, NoOp, Canceller, Idle
  <2>2. CASE BeginTurn
    BY SMTT(60), <1>1, <2>2, RestartIdle, RestartFacts DEF BeginTurn, Canceller, Idle,
        RestoreFrom, Restore, Snapshot, ActiveState
  <2> QED BY <1>1, <2>1, <2>2
<1>2. CASE Spawn \/ Register \/ BuildFails
  BY <1>2 DEF Spawn, Register, BuildFails, Unused, Fresh, Set, Refuse, Break,
      Forget, NoOp, AnswerRequest, Active
<1>3. CASE Launch \/ LaunchRefused \/ LaunchFails
  <2>1. CASE Launch
    BY <2>1 DEF Launch, Set, NoOp, Active
  <2>2. CASE LaunchRefused
    BY <2>2, WithdrawFacts DEF LaunchRefused, Refuse, NoOp, AnswerRequest, Active
  <2>3. CASE LaunchFails
    BY <2>3, WithdrawFacts DEF LaunchFails, Break, NoOp, Active
  <2> QED BY <1>3, <2>1, <2>2, <2>3
<1>4. CASE Quiet
  <2>1. CASE TakeRequests \/ RequestsTaken
    BY <2>1 DEF TakeRequests, RequestsTaken, Active
  <2>5. CASE Recovered \/ Report \/ Reported
    BY <2>5 DEF Recovered, Report, Reported, NoOp, Active
  <2>6. CASE ParentWrite \/ ParentWritten \/ Answered \/ Errs
    BY Zenon, <2>6 DEF ParentWrite, ParentWritten, Answered, Errs, Leaves, Active
  <2>2. CASE Closed \/ EndTurn \/ ClientEnds
    BY <2>2 DEF Closed, EndTurn, ClientEnds, NoOp, Active
  <2>3. ASSUME NEW w \in Worker, Resume(w) \/ RequestResume(w) \/ Recover(w)
        PROVE  Draining'
    BY <2>3 DEF Resume, RequestResume, Recover, Resumable, ActiveState,
        AnswerRequest, Active
  <2>4. ASSUME NEW c \in Canceller, CancelJoined(c) \/ CancelSaved(c)
        PROVE  Draining'
    BY <2>4 DEF CancelJoined, CancelSaved, Idle, Active
  <2> QED BY <1>4, <2>1, <2>2, <2>3, <2>4, <2>5, <2>6 DEF Quiet
<1>5. ASSUME NEW w \in Worker, WorkerNext(w) PROVE Draining'
  <2>1. CASE Call(w)
    BY <2>1 DEF Call, Active
  <2>2. CASE Counted(w)
    BY <2>2 DEF Counted, Active
  <2>3. CASE Ask(w)
    BY <2>3 DEF Ask, Active
  <2>4. CASE Asked(w)
    BY <2>4 DEF Asked, Active
  <2>5. CASE Denied(w)
    BY <2>5 DEF Denied, Active
  <2>6. CASE Run(w)
    BY <2>6 DEF Run, Active
  <2>7. CASE Written(w)
    BY <2>7 DEF Written, Active
  <2>8. CASE Finish(w) \/ Heartbeat(w)
    BY <2>8 DEF Finish, Heartbeat, ActiveState, Active
  <2>9. CASE End(w)
    BY <2>9 DEF End, Active
  <2> QED BY <1>5, <2>1, <2>2, <2>3, <2>4, <2>5, <2>6, <2>7, <2>8, <2>9 DEF WorkerNext
<1>6. ASSUME NEW w \in Worker, TurnCancels(w) \/ ControlCancels(w) PROVE Draining'
  BY <1>6 DEF TurnCancels, ControlCancels, CancelWorker, ActiveState, CancelTask, Active
<1>7. CASE Stop
  <2>1. CASE turn = "save"
    BY <1>7, <2>1, WithdrawFacts DEF Stop, NoOp, Idle, Active
  <2>2. CASE turn = "build"
    BY <1>7, <2>2 DEF Stop, NoOp, Forget, Idle, Fresh, Set, Active
  <2>3. CASE turn = "cancel"
    BY <1>7, <2>3 DEF Stop, NoOp, CancelTask, Idle, Active
  <2>4. CASE turn \notin {"save", "build", "cancel"}
    BY <1>7, <2>4 DEF Stop, NoOp, Idle, Active
  <2> QED BY <2>1, <2>2, <2>3, <2>4
<1>8. CASE Close
  BY <1>8 DEF Close, Set, CancelTask, Active
<1>9. CASE UNCHANGED vars
  BY <1>9
<1> QED BY <1>1, <1>2, <1>3, <1>4, <1>5, <1>6, <1>7, <1>8, <1>9 DEF Next, Quiet

(* Only workers that do not write are started. *)
LEMMA UnwrittenKept == Inv /\ WriteInv /\ [Next]_vars => Unwritten'
<1> SUFFICES ASSUME Inv, WriteInv, [Next]_vars PROVE Unwritten'
  OBVIOUS
<1> USE DEF Inv, WriteInv, TypeOK, Tasks, Joining, Dropping, Busy, Resumes, Status,
      ActiveState, SettledState, Outlived, Unwritten, Starting
<1>1. CASE BeginTurn \/ Crash
  <2>1. CASE Crash
    BY <1>1, <2>1, RestartIdle, RestartFacts DEF Crash, NoOp, Canceller, Idle
  <2>2. CASE BeginTurn
    BY SMTT(60), <1>1, <2>2, RestartIdle, RestartFacts DEF BeginTurn, Canceller, Idle,
        RestoreFrom, Restore, Snapshot, ActiveState
  <2> QED BY <1>1, <2>1, <2>2
<1>2. CASE Spawn \/ Register \/ BuildFails
  <2>1. CASE Spawn
    BY SMTT(60), <2>1 DEF Spawn, Unused
  <2>2. CASE Register
    BY <2>2 DEF Register, Fresh
  <2>3. CASE BuildFails
    BY <2>3 DEF BuildFails, Refuse, Break, Forget, NoOp, AnswerRequest, Fresh
  <2> QED BY <1>2, <2>1, <2>2, <2>3
<1>3. CASE Launch \/ LaunchRefused \/ LaunchFails
  <2>1. CASE Launch
    BY <2>1 DEF Launch, Set, NoOp, Active
  <2>2. CASE LaunchRefused
    BY <2>2, WithdrawFacts DEF LaunchRefused, Refuse, NoOp, AnswerRequest, Active
  <2>3. CASE LaunchFails
    BY <2>3, WithdrawFacts DEF LaunchFails, Break, NoOp, Active
  <2> QED BY <1>3, <2>1, <2>2, <2>3
<1>4. CASE Quiet
  <2>1. CASE TakeRequests \/ RequestsTaken
    BY <2>1 DEF TakeRequests, RequestsTaken, Active
  <2>5. CASE Recovered \/ Report \/ Reported
    BY <2>5 DEF Recovered, Report, Reported, NoOp, Active
  <2>6. CASE ParentWrite \/ ParentWritten \/ Answered \/ Errs
    BY Zenon, <2>6 DEF ParentWrite, ParentWritten, Answered, Errs, Leaves, Active
  <2>2. CASE Closed \/ EndTurn \/ ClientEnds
    BY <2>2 DEF Closed, EndTurn, ClientEnds, NoOp, Active
  <2>3. ASSUME NEW w \in Worker, Resume(w) \/ RequestResume(w) \/ Recover(w)
        PROVE  Unwritten'
    BY SMTT(60), <2>3 DEF Resume, RequestResume, Recover, Resumable, ActiveState,
        AnswerRequest, Active
  <2>4. ASSUME NEW c \in Canceller, CancelJoined(c) \/ CancelSaved(c)
        PROVE  Unwritten'
    BY <2>4 DEF CancelJoined, CancelSaved, Idle, Active
  <2> QED BY <1>4, <2>1, <2>2, <2>3, <2>4, <2>5, <2>6 DEF Quiet
<1>5. ASSUME NEW w \in Worker, WorkerNext(w) PROVE Unwritten'
  <2>1. CASE Call(w)
    BY <2>1 DEF Call, Active
  <2>2. CASE Counted(w)
    BY <2>2 DEF Counted, Active
  <2>3. CASE Ask(w)
    BY <2>3 DEF Ask, Active
  <2>4. CASE Asked(w)
    BY <2>4 DEF Asked, Active
  <2>5. CASE Denied(w)
    BY <2>5 DEF Denied, Active
  <2>6. CASE Run(w)
    BY SMTT(60), <2>6 DEF Run, Active
  <2>7. CASE Written(w)
    BY <2>7 DEF Written, Active
  <2>8. CASE Finish(w) \/ Heartbeat(w)
    BY <2>8 DEF Finish, Heartbeat, ActiveState, Active
  <2>9. CASE End(w)
    BY <2>9 DEF End, Active
  <2> QED BY <1>5, <2>1, <2>2, <2>3, <2>4, <2>5, <2>6, <2>7, <2>8, <2>9 DEF WorkerNext
<1>6. ASSUME NEW w \in Worker, TurnCancels(w) \/ ControlCancels(w) PROVE Unwritten'
  BY <1>6 DEF TurnCancels, ControlCancels, CancelWorker, ActiveState, CancelTask, Active
<1>7. CASE Stop
  <2>1. CASE turn = "save"
    BY <1>7, <2>1, WithdrawFacts DEF Stop, NoOp, Idle, Active
  <2>2. CASE turn = "build"
    BY <1>7, <2>2 DEF Stop, NoOp, Forget, Idle, Fresh, Set, Active
  <2>3. CASE turn = "cancel"
    BY <1>7, <2>3 DEF Stop, NoOp, CancelTask, Idle, Active
  <2>4. CASE turn \notin {"save", "build", "cancel"}
    BY <1>7, <2>4 DEF Stop, NoOp, Idle, Active
  <2> QED BY <2>1, <2>2, <2>3, <2>4
<1>8. CASE Close
  BY <1>8 DEF Close, Set, CancelTask, Active
<1>9. CASE UNCHANGED vars
  BY <1>9
<1> QED BY <1>1, <1>2, <1>3, <1>4, <1>5, <1>6, <1>7, <1>8, <1>9 DEF Next, Quiet

(* Workers that are started meanwhile do not get what the parent writes. *)
LEMMA ParentKept == Inv /\ WriteInv /\ [Next]_vars => Parent'
<1> SUFFICES ASSUME Inv, WriteInv, [Next]_vars PROVE Parent'
  OBVIOUS
<1> USE DEF Inv, WriteInv, TypeOK, Tasks, Joining, Dropping, Busy, Resumes, Status,
      ActiveState, SettledState, Parent, AdmissionHolds, Active
<1>1. CASE BeginTurn \/ Crash
  <2>1. CASE Crash
    BY <1>1, <2>1, RestartIdle, RestartFacts DEF Crash, NoOp, Canceller, Idle
  <2>2. CASE BeginTurn
    BY SMTT(60), <1>1, <2>2, RestartIdle, RestartFacts DEF BeginTurn, Canceller, Idle,
        RestoreFrom, Restore, Snapshot, ActiveState
  <2> QED BY <1>1, <2>1, <2>2
<1>2. CASE Spawn \/ Register \/ BuildFails
  BY <1>2 DEF Spawn, Register, BuildFails, Unused, Fresh, Set, Refuse, Break,
      Forget, NoOp, AnswerRequest, Active
<1>3. CASE Launch \/ LaunchRefused \/ LaunchFails
  <2>1. CASE Launch
    BY <2>1 DEF Launch, Set, NoOp, Active
  <2>2. CASE LaunchRefused
    BY <2>2, WithdrawFacts DEF LaunchRefused, Refuse, NoOp, AnswerRequest, Active
  <2>3. CASE LaunchFails
    BY <2>3, WithdrawFacts DEF LaunchFails, Break, NoOp, Active
  <2> QED BY <1>3, <2>1, <2>2, <2>3
<1>4. CASE Quiet
  <2>1. CASE TakeRequests \/ RequestsTaken
    BY <2>1 DEF TakeRequests, RequestsTaken, Active
  <2>5. CASE Recovered \/ Report \/ Reported
    BY <2>5 DEF Recovered, Report, Reported, NoOp, Active
  <2>6. CASE ParentWrite \/ ParentWritten \/ Answered \/ Errs
    BY Zenon, <2>6 DEF ParentWrite, ParentWritten, Answered, Errs, Leaves, Active
  <2>2. CASE Closed \/ EndTurn \/ ClientEnds
    BY <2>2 DEF Closed, EndTurn, ClientEnds, NoOp, Active
  <2>3. ASSUME NEW w \in Worker, Resume(w) \/ RequestResume(w) \/ Recover(w)
        PROVE  Parent'
    BY <2>3 DEF Resume, RequestResume, Recover, Resumable, ActiveState,
        AnswerRequest, Active
  <2>4. ASSUME NEW c \in Canceller, CancelJoined(c) \/ CancelSaved(c)
        PROVE  Parent'
    BY <2>4 DEF CancelJoined, CancelSaved, Idle, Active
  <2> QED BY <1>4, <2>1, <2>2, <2>3, <2>4, <2>5, <2>6 DEF Quiet
<1>5. ASSUME NEW w \in Worker, WorkerNext(w) PROVE Parent'
  <2>1. CASE Call(w)
    BY <2>1 DEF Call, Active
  <2>2. CASE Counted(w)
    BY <2>2 DEF Counted, Active
  <2>3. CASE Ask(w)
    BY <2>3 DEF Ask, Active
  <2>4. CASE Asked(w)
    BY <2>4 DEF Asked, Active
  <2>5. CASE Denied(w)
    BY <2>5 DEF Denied, Active
  <2>6. CASE Run(w)
    BY <2>6 DEF Run, Active
  <2>7. CASE Written(w)
    BY <2>7 DEF Written, Active
  <2>8. CASE Finish(w) \/ Heartbeat(w)
    BY <2>8 DEF Finish, Heartbeat, ActiveState, Active
  <2>9. CASE End(w)
    BY <2>9 DEF End, Active
  <2> QED BY <1>5, <2>1, <2>2, <2>3, <2>4, <2>5, <2>6, <2>7, <2>8, <2>9 DEF WorkerNext
<1>6. ASSUME NEW w \in Worker, TurnCancels(w) \/ ControlCancels(w) PROVE Parent'
  BY <1>6 DEF TurnCancels, ControlCancels, CancelWorker, ActiveState, CancelTask, Active
<1>7. CASE Stop
  <2>1. CASE turn = "save"
    BY <1>7, <2>1, WithdrawFacts DEF Stop, NoOp, Idle, Active
  <2>2. CASE turn = "build"
    BY <1>7, <2>2 DEF Stop, NoOp, Forget, Idle, Fresh, Set, Active
  <2>3. CASE turn = "cancel"
    BY <1>7, <2>3 DEF Stop, NoOp, CancelTask, Idle, Active
  <2>4. CASE turn \notin {"save", "build", "cancel"}
    BY <1>7, <2>4 DEF Stop, NoOp, Idle, Active
  <2> QED BY <2>1, <2>2, <2>3, <2>4
<1>8. CASE Close
  BY <1>8 DEF Close, Set, CancelTask, Active
<1>9. CASE UNCHANGED vars
  BY <1>9
<1> QED BY <1>1, <1>2, <1>3, <1>4, <1>5, <1>6, <1>7, <1>8, <1>9 DEF Next, Quiet

(* Workers whose write may outlive them, if it does. *)
Outcast ==
  \A w \in Worker : thread[w] # {} /\ task[w] \notin {"write", "drain"} =>
    w \in dropped /\ (task[w] = "end" => turn \in {"ending", "closing"})

(* Only a cancelled worker is outlived by its write. *)
LEMMA OutcastKept == Inv /\ WriteInv /\ [Next]_vars => Outcast'
<1> SUFFICES ASSUME Inv, WriteInv, [Next]_vars PROVE Outcast'
  OBVIOUS
<1> USE DEF Inv, WriteInv, TypeOK, Tasks, Joining, Dropping, Busy, Resumes, Status,
      ActiveState, SettledState, Outcast, Outlived, Unwritten, Draining
<1>1. CASE BeginTurn \/ Crash
  <2>1. CASE Crash
    BY <1>1, <2>1 DEF Crash
  <2>2. CASE BeginTurn /\ ~RestoreFrom(session) /\ ~RestoreFrom(saved)
    BY <2>2 DEF BeginTurn
  <2>3. ASSUME BeginTurn, NEW x \in {session, saved}, RestoreFrom(x) PROVE Outcast'
    <3>1. turn = "idle" /\ \A w \in Worker :
            thread'[w] = thread[w] /\ task[w] = "none" /\ task'[w] = "none"
      BY <2>3 DEF BeginTurn
    <3>2. \A w \in Worker : thread[w] # {} => w \in dropped /\ ~Resumes(x[w].status)
      BY <2>3, <3>1
    <3>3. x \in [Worker -> [status : Status, calls : 0..MaxCalls + 1]]
      BY <2>3
    <3>4. \A w \in Worker : thread[w] # {} => w \in dropped'
      <4> SUFFICES ASSUME NEW w \in Worker, thread[w] # {} PROVE w \in dropped'
        OBVIOUS
      <4>1. /\ status'[w] = x[w].status \/ (x[w].status \in ActiveState /\ status'[w] = "interrupted")
            /\ w \in dropped' <=> (w \in dropped /\ status'[w] # "interrupted")
        BY Zenon, <2>3, <3>3, RestoreFacts
      <4> QED BY <3>2, <4>1
    <3> QED BY <3>1, <3>4
  <2> QED BY Zenon, <1>1, <2>1, <2>2, <2>3 DEF BeginTurn
<1>2. CASE Spawn \/ Register \/ BuildFails
  <2>1. CASE Spawn
    BY <2>1 DEF Spawn, Unused
  <2>2. CASE Register
    BY <2>2 DEF Register, Fresh
  <2>3. CASE BuildFails
    BY <2>3 DEF BuildFails, NoOp
  <2> QED BY <1>2, <2>1, <2>2, <2>3
<1>3. CASE Launch \/ LaunchRefused \/ LaunchFails
  <2>1. CASE Launch
    BY <2>1 DEF Launch, Set, NoOp, Active
  <2>2. CASE LaunchRefused
    BY <2>2, WithdrawFacts DEF LaunchRefused, Refuse, NoOp, AnswerRequest, Active
  <2>3. CASE LaunchFails
    BY <2>3, WithdrawFacts DEF LaunchFails, Break, NoOp, Active
  <2> QED BY <1>3, <2>1, <2>2, <2>3
<1>4. CASE Quiet
  <2>1. CASE TakeRequests \/ RequestsTaken
    BY <2>1 DEF TakeRequests, RequestsTaken, Active
  <2>5. CASE Recovered \/ Report \/ Reported
    BY <2>5 DEF Recovered, Report, Reported, NoOp, Active
  <2>6. CASE ParentWrite \/ ParentWritten \/ Answered \/ Errs
    BY ZenonT(60), <2>6 DEF ParentWrite, ParentWritten, Answered, Errs, Leaves, Active
  <2>2. CASE Closed \/ EndTurn \/ ClientEnds
    BY <2>2 DEF Closed, EndTurn, ClientEnds, NoOp, Active
  <2>3. ASSUME NEW w \in Worker, Resume(w) \/ RequestResume(w) \/ Recover(w)
        PROVE  Outcast'
    BY <2>3 DEF Resume, RequestResume, Recover, Resumable, ActiveState,
        AnswerRequest, Active
  <2>4. ASSUME NEW c \in Canceller, CancelJoined(c) \/ CancelSaved(c)
        PROVE  Outcast'
    BY <2>4 DEF CancelJoined, CancelSaved, Idle, Active
  <2> QED BY <1>4, <2>1, <2>2, <2>3, <2>4, <2>5, <2>6 DEF Quiet
<1>5. ASSUME NEW w \in Worker, WorkerNext(w) PROVE Outcast'
  <2>1. CASE Call(w)
    BY <2>1 DEF Call, Active
  <2>2. CASE Counted(w)
    BY <2>2 DEF Counted, Active
  <2>3. CASE Ask(w)
    BY <2>3 DEF Ask, Active
  <2>4. CASE Asked(w)
    BY SMTT(60), <2>4 DEF Asked, Active
  <2>5. CASE Denied(w)
    BY <2>5 DEF Denied, Active
  <2>6. CASE Run(w)
    BY <2>6 DEF Run, Active
  <2>7. CASE Written(w)
    BY <2>7 DEF Written, Active
  <2>8. CASE Finish(w) \/ Heartbeat(w)
    BY <2>8 DEF Finish, Heartbeat, ActiveState, Active
  <2>9. CASE End(w)
    BY <2>9 DEF End, Active
  <2> QED BY <1>5, <2>1, <2>2, <2>3, <2>4, <2>5, <2>6, <2>7, <2>8, <2>9 DEF WorkerNext
<1>6. ASSUME NEW w \in Worker, TurnCancels(w) \/ ControlCancels(w) PROVE Outcast'
  BY <1>6 DEF TurnCancels, ControlCancels, CancelWorker, ActiveState, CancelTask, Active
<1>7. CASE Stop
  <2>1. CASE turn = "save"
    BY <1>7, <2>1, WithdrawFacts DEF Stop, NoOp, Idle, Active
  <2>2. CASE turn = "build"
    BY <1>7, <2>2 DEF Stop, NoOp, Forget, Idle, Fresh, Set, Active
  <2>3. CASE turn = "cancel"
    BY <1>7, <2>3 DEF Stop, NoOp, CancelTask, Idle, Active
  <2>4. CASE turn \notin {"save", "build", "cancel"}
    BY <1>7, <2>4 DEF Stop, NoOp, Idle, Active
  <2> QED BY <2>1, <2>2, <2>3, <2>4
<1>8. CASE Close
  BY <1>8 DEF Close, Set, CancelTask, Active
<1>9. CASE UNCHANGED vars
  BY <1>9
<1> QED BY <1>1, <1>2, <1>3, <1>4, <1>5, <1>6, <1>7, <1>8, <1>9 DEF Next, Quiet

(* What a step does that leaves a write behind. *)
Leaving(w) ==
  /\ (thread[w] # {} /\ task[w] = "none") \/ End(w)
  /\ turn' = "idle" => turn = "idle" \/ saved' = session \/ Spend("fault")

(* It was left behind before, or its worker ends. *)
LEMMA LeavingStep == Inv /\ WriteInv /\ [Next]_vars => (\A v \in Worker : thread'[v] # {} /\ task'[v] = "none" => Leaving(v))
<1> SUFFICES ASSUME Inv, WriteInv, [Next]_vars PROVE (\A v \in Worker : thread'[v] # {} /\ task'[v] = "none" => Leaving(v))
  OBVIOUS
<1> USE DEF Inv, WriteInv, TypeOK, Tasks, Joining, Dropping, Busy, Resumes, Status,
      ActiveState, SettledState, Outlived, Draining, Leaving
<1>1. CASE BeginTurn \/ Crash
  BY <1>1 DEF BeginTurn, Crash, Canceller, Idle, NoOp
<1>2. CASE Spawn \/ Register \/ BuildFails
  BY <1>2 DEF Spawn, Register, BuildFails, Unused, Fresh, Set, Refuse, Break,
      Forget, NoOp, AnswerRequest, Active
<1>3. CASE Launch \/ LaunchRefused \/ LaunchFails
  <2>1. CASE Launch
    BY <2>1 DEF Launch, Checkpoint, Set, NoOp, Active
  <2>2. CASE LaunchRefused
    BY <2>2, WithdrawFacts DEF LaunchRefused, Checkpoint, Refuse, NoOp,
        AnswerRequest, Active
  <2>3. CASE LaunchFails
    BY <2>3, WithdrawFacts DEF LaunchFails, Break, NoOp, Active
  <2> QED BY <1>3, <2>1, <2>2, <2>3
<1>4. CASE Quiet
  <2>1. CASE TakeRequests \/ RequestsTaken
    BY <2>1 DEF TakeRequests, RequestsTaken, Checkpoint, Active
  <2>5. CASE Recovered \/ Report \/ Reported
    BY <2>5 DEF Recovered, Report, Reported, NoOp, Checkpoint, Active
  <2>6. CASE ParentWrite \/ ParentWritten \/ Answered \/ Errs
    BY Zenon, <2>6 DEF ParentWrite, ParentWritten, Answered, Errs, Leaves, Active
  <2>2. CASE Closed \/ EndTurn \/ ClientEnds
    BY <2>2 DEF Closed, EndTurn, ClientEnds, NoOp, Checkpoint, Active
  <2>3. ASSUME NEW w \in Worker, Resume(w) \/ RequestResume(w) \/ Recover(w)
        PROVE  \A v \in Worker : thread'[v] # {} /\ task'[v] = "none" => Leaving(v)
    BY <2>3 DEF Resume, RequestResume, Recover, Resumable, ActiveState,
        AnswerRequest, Active
  <2>4. ASSUME NEW c \in Canceller, CancelJoined(c) \/ CancelSaved(c)
        PROVE  \A v \in Worker : thread'[v] # {} /\ task'[v] = "none" => Leaving(v)
    BY <2>4 DEF CancelJoined, CancelSaved, Idle, Checkpoint, Active
  <2> QED BY Zenon, <1>4, <2>1, <2>2, <2>3, <2>4, <2>5, <2>6 DEF Quiet
<1>5. ASSUME NEW w \in Worker, WorkerNext(w) PROVE (\A v \in Worker : thread'[v] # {} /\ task'[v] = "none" => Leaving(v))
  <2>1. CASE Call(w)
    BY <2>1 DEF Call, Active
  <2>2. CASE Counted(w)
    BY <2>2 DEF Counted, Checkpoint, Active
  <2>3. CASE Ask(w)
    BY <2>3 DEF Ask, Active
  <2>4. CASE Asked(w)
    BY <2>4 DEF Asked, Checkpoint, Active
  <2>5. CASE Denied(w)
    BY <2>5 DEF Denied, Active
  <2>6. CASE Run(w)
    BY <2>6 DEF Run, Active
  <2>7. CASE Written(w)
    BY <2>7 DEF Written, Active
  <2>8. CASE Finish(w) \/ Heartbeat(w)
    BY <2>8 DEF Finish, Heartbeat, ActiveState, Active
  <2>9. CASE End(w)
    BY ZenonT(60), <2>9 DEF End, Active
  <2> QED BY <1>5, <2>1, <2>2, <2>3, <2>4, <2>5, <2>6, <2>7, <2>8, <2>9 DEF WorkerNext
<1>6. ASSUME NEW w \in Worker, TurnCancels(w) \/ ControlCancels(w) PROVE (\A v \in Worker : thread'[v] # {} /\ task'[v] = "none" => Leaving(v))
  BY <1>6 DEF TurnCancels, ControlCancels, CancelWorker, ActiveState, CancelTask, Active
<1>7. CASE Stop
  <2>1. CASE turn = "save"
    BY <1>7, <2>1, WithdrawFacts DEF Stop, NoOp, Checkpoint, Idle, Active
  <2>2. CASE turn = "build"
    BY <1>7, <2>2 DEF Stop, NoOp, Checkpoint, Forget, Idle, Fresh, Set, Active
  <2>3. CASE turn = "cancel"
    <3>1. turn' = "ending" /\ thread' = thread
      BY <1>7, <2>3 DEF Stop
    <3>2. \A v \in Worker : task[v] = "end" => thread[v] = {}
      BY Zenon, <2>3
    <3>3. task' = IF joining["turn"].pc = "join"
                    THEN [w \in Worker |-> IF w \in joining["turn"].ws THEN CancelTask(task[w])
                                                                      ELSE task[w]]
                    ELSE task
      BY <1>7, <2>3 DEF Stop
    <3>4. \A pc : CancelTask(pc) = "none" => pc \in {"none", "end"}
      BY DEF CancelTask
    <3>5. \A v \in Worker : task'[v] = "none" => task[v] \in {"none", "end"}
      BY <3>3, <3>4
    <3> QED BY <3>1, <3>2, <3>5
  <2>4. CASE turn \notin {"save", "build", "cancel"}
    BY <1>7, <2>4 DEF Stop, NoOp, Checkpoint, Idle, Active
  <2> QED BY <2>1, <2>2, <2>3, <2>4
<1>8. CASE Close
  BY Zenon, <1>8 DEF Close, Set, CancelTask, Active
<1>9. CASE UNCHANGED vars
  BY <1>9
<1> QED BY <1>1, <1>2, <1>3, <1>4, <1>5, <1>6, <1>7, <1>8, <1>9 DEF Next, Quiet

(* So nobody finds that worker resumable: neither the session, nor the     *)
(* checkpoint once the turn is over.                                       *)
LEMMA OutlivedKept == Inv /\ WriteInv /\ [Next]_vars => Outlived'
<1> SUFFICES ASSUME Inv, WriteInv, [Next]_vars PROVE Outlived'
  OBVIOUS
<1>1. Outcast' /\ Copies /\ Dropping'
  BY OutcastKept, StoreStep, DroppingKept
<1>2. ASSUME NEW w \in Worker, thread'[w] # {}, task'[w] = "none"
      PROVE  /\ ~Resumes(session'[w].status)
             /\ Resumes(saved'[w].status) => budget'["fault"] = 0 /\ turn' # "idle"
  <2>1. Leaving(w) /\ ~Resumes(status'[w])
    BY <1>1, <1>2, LeavingStep DEF Outcast, Dropping, Resumes, SettledState, ActiveState
  <2>2. Snapshot(status', calls')[w].status = status'[w]
    BY DEF Snapshot
  <2>3. CASE End(w)
    <3>1. session' = Snapshot(status', calls') /\ (saved' = session' \/ Spend("fault"))
          /\ turn' = turn /\ thread[w] # {} /\ task[w] = "end"
      BY <1>2, <2>3 DEF End, SaveStates, Checkpoint
    <3>2. turn \in {"ending", "closing"}
      BY <3>1 DEF WriteInv, Outlived
    <3> QED BY <2>1, <2>2, <3>1, <3>2, FaultSpent DEF WriteInv
  <2>4. CASE thread[w] # {} /\ task[w] = "none"
    <3>1. /\ ~Resumes(session[w].status)
          /\ Resumes(saved[w].status) => budget["fault"] = 0 /\ turn # "idle"
      BY <2>4 DEF WriteInv, Outlived
    <3>2. ~Resumes(session'[w].status)
      BY <1>1, <2>1, <2>2, <3>1 DEF Copies
    <3>3. ASSUME Resumes(saved'[w].status) PROVE saved' = saved /\ saved' # session
      BY <1>1, <3>1, <3>2, <3>3 DEF Copies
    <3> QED BY <2>1, <3>1, <3>2, <3>3, FaultSpent DEF WriteInv, Leaving
  <2> QED BY <2>1, <2>3, <2>4 DEF Leaving
<1> QED BY <1>1, <1>2 DEF Outcast, Outlived

(* A new write does not touch what another writes. *)
LEMMA WritersKept == Inv /\ WriteInv /\ [Next]_vars => WritersDisjoint'
<1> SUFFICES ASSUME Inv, WriteInv, [Next]_vars PROVE WritersDisjoint'
  OBVIOUS
<1> USE DEF Inv, WriteInv, TypeOK, Tasks, Joining, Dropping, Busy, Resumes, Status,
      ActiveState, SettledState, Owned, Outlived, Draining, Parent, AdmissionHolds,
      WritersDisjoint, Active
<1>1. CASE BeginTurn \/ Crash
  <2>1. CASE Crash
    BY <1>1, <2>1 DEF Crash
  <2>2. CASE BeginTurn /\ ~RestoreFrom(session) /\ ~RestoreFrom(saved)
    BY <2>2 DEF BeginTurn
  <2>3. ASSUME BeginTurn, NEW x \in {session, saved}, RestoreFrom(x) PROVE WritersDisjoint'
    <3>1. turn = "idle" /\ \A w \in Worker :
            thread'[w] = thread[w] /\ task[w] = "none" /\ task'[w] = "none"
      BY <2>3 DEF BeginTurn
    <3>2. \A w \in Worker : thread[w] # {} => w \in dropped /\ ~Resumes(x[w].status)
      BY <2>3, <3>1
    <3>3. x \in [Worker -> [status : Status, calls : 0..MaxCalls + 1]]
      BY <2>3
    <3>4. \A w \in Worker : thread[w] # {} => w \in dropped'
      <4> SUFFICES ASSUME NEW w \in Worker, thread[w] # {} PROVE w \in dropped'
        OBVIOUS
      <4>1. /\ status'[w] = x[w].status \/ (x[w].status \in ActiveState /\ status'[w] = "interrupted")
            /\ w \in dropped' <=> (w \in dropped /\ status'[w] # "interrupted")
        BY Zenon, <2>3, <3>3, RestoreFacts
      <4> QED BY <3>2, <4>1
    <3> QED BY <3>1, <3>4
  <2> QED BY Zenon, <1>1, <2>1, <2>2, <2>3 DEF BeginTurn
<1>2. CASE Spawn \/ Register \/ BuildFails
  BY <1>2 DEF Spawn, Register, BuildFails, Unused, Fresh, Set, Refuse, Break,
      Forget, NoOp, AnswerRequest, Active
<1>3. CASE Launch \/ LaunchRefused \/ LaunchFails
  <2>1. CASE Launch
    BY <2>1 DEF Launch, Set, NoOp, Active
  <2>2. CASE LaunchRefused
    BY <2>2, WithdrawFacts DEF LaunchRefused, Refuse, NoOp, AnswerRequest, Active
  <2>3. CASE LaunchFails
    BY <2>3, WithdrawFacts DEF LaunchFails, Break, NoOp, Active
  <2> QED BY <1>3, <2>1, <2>2, <2>3
<1>4. CASE Quiet
  <2>1. CASE TakeRequests \/ RequestsTaken
    BY <2>1 DEF TakeRequests, RequestsTaken, Active
  <2>5. CASE Recovered \/ Report \/ Reported
    BY <2>5 DEF Recovered, Report, Reported, NoOp, Active
  <2>6. CASE ParentWrite \/ ParentWritten \/ Answered \/ Errs
    <3>1. CASE ParentWrite
      BY <3>1 DEF ParentWrite
    <3>2. CASE ParentWritten
      BY <3>2 DEF ParentWritten
    <3>3. CASE Answered \/ Errs
      BY ZenonT(60), <3>3 DEF Answered, Errs
    <3> QED BY <2>6, <3>1, <3>2, <3>3
  <2>2. CASE Closed \/ EndTurn \/ ClientEnds
    BY <2>2 DEF Closed, EndTurn, ClientEnds, NoOp, Active
  <2>3. ASSUME NEW w \in Worker, Resume(w) \/ RequestResume(w) \/ Recover(w)
        PROVE  WritersDisjoint'
    BY <2>3 DEF Resume, RequestResume, Recover, Resumable, ActiveState,
        AnswerRequest, Active
  <2>4. ASSUME NEW c \in Canceller, CancelJoined(c) \/ CancelSaved(c)
        PROVE  WritersDisjoint'
    BY <2>4 DEF CancelJoined, CancelSaved, Idle, Active
  <2> QED BY <1>4, <2>1, <2>2, <2>3, <2>4, <2>5, <2>6 DEF Quiet
<1>5. ASSUME NEW w \in Worker, WorkerNext(w) PROVE WritersDisjoint'
  <2>1. CASE Call(w)
    BY <2>1 DEF Call, Active
  <2>2. CASE Counted(w)
    BY <2>2 DEF Counted, Active
  <2>3. CASE Ask(w)
    BY <2>3 DEF Ask, Active
  <2>4. CASE Asked(w)
    BY <2>4 DEF Asked, Active
  <2>5. CASE Denied(w)
    BY <2>5 DEF Denied, Active
  <2>6. CASE Run(w)
    <3>1. /\ thread' = [thread EXCEPT ![w] = thread'[w]] /\ thread'[w] \subseteq owns[w]
          /\ UNCHANGED <<parent, dropped>> /\ w \in Active
      BY SMTT(60), <2>6 DEF Run
    <3>2. thread'[w] \cap parent = {}
      BY <3>1
    <3>3. \A v \in Worker \ (dropped \cup {w}) : thread[v] \cap thread'[w] = {}
      BY SMTT(60), <3>1
    <3>4. \A v \in Worker \ {w} : thread'[v] = thread[v]
      BY <3>1
    <3> QED BY <3>1, <3>2, <3>3, <3>4
  <2>7. CASE Written(w)
    BY <2>7 DEF Written, Active
  <2>8. CASE Finish(w) \/ Heartbeat(w)
    BY <2>8 DEF Finish, Heartbeat, ActiveState, Active
  <2>9. CASE End(w)
    BY <2>9 DEF End, Active
  <2> QED BY <1>5, <2>1, <2>2, <2>3, <2>4, <2>5, <2>6, <2>7, <2>8, <2>9 DEF WorkerNext
<1>6. ASSUME NEW w \in Worker, TurnCancels(w) \/ ControlCancels(w) PROVE WritersDisjoint'
  BY <1>6 DEF TurnCancels, ControlCancels, CancelWorker, ActiveState, CancelTask, Active
<1>7. CASE Stop
  <2>1. CASE turn = "save"
    BY <1>7, <2>1, WithdrawFacts DEF Stop, NoOp, Idle, Active
  <2>2. CASE turn = "build"
    BY <1>7, <2>2 DEF Stop, NoOp, Forget, Idle, Fresh, Set, Active
  <2>3. CASE turn = "cancel"
    BY <1>7, <2>3 DEF Stop, NoOp, CancelTask, Idle, Active
  <2>4. CASE turn \notin {"save", "build", "cancel"}
    BY <1>7, <2>4 DEF Stop, NoOp, Idle, Active
  <2> QED BY <2>1, <2>2, <2>3, <2>4
<1>8. CASE Close
  BY <1>8 DEF Close, Set, CancelTask, Active
<1>9. CASE UNCHANGED vars
  BY <1>9
<1> QED BY <1>1, <1>2, <1>3, <1>4, <1>5, <1>6, <1>7, <1>8, <1>9 DEF Next, Quiet

(* Together they stay. *)
LEMMA WriteKept == Inv /\ WriteInv /\ [Next]_vars => WriteInv'
BY OwnedKept, OutlivedKept, DrainingKept, UnwrittenKept, ParentKept, FaultSpent, WritersKept
   DEF WriteInv

(* They hold at first, when at most one checkpoint is to fail. *)
LEMMA WriteInit == MaxFault <= 1 /\ Init => WriteInv
<1> SUFFICES ASSUME MaxFault <= 1, Init PROVE WriteInv
  OBVIOUS
<1>1. Faults
  BY SubagentsAssumption DEF Init, Faults, Bound, SubagentsAssumption
<1>2. Owned /\ Outlived /\ Draining /\ Unwritten /\ Parent /\ WritersDisjoint
  BY DEF Init, Owned, Outlived, Draining, Unwritten, Parent, WritersDisjoint, Active, ActiveState
<1> QED BY <1>1, <1>2 DEF WriteInv

(* No two writes in flight touch the same path, but those of workers that  *)
(* were cancelled on request, if no more than one checkpoint fails.  Of two *)
(* failures the second lets the next turn resume a worker, from the old    *)
(* checkpoint, whose write is still in flight.                             *)
THEOREM WritersKeepApart == ASSUME MaxFault <= 1 PROVE Spec => []WritersDisjoint
<1>1. WriteInv => WritersDisjoint
  BY DEF WriteInv
<1> QED BY Invariant, WriteInit, WriteKept, <1>1, PTL DEF Spec

(* A client that closes its stream is over when the turn is. *)
LEMMA StreamsKept == Inv /\ Streams /\ [Next]_vars => Streams'
<1> SUFFICES ASSUME Inv, Streams, [Next]_vars PROVE Streams'
  OBVIOUS
<1> USE DEF Streams, Inv, Joining, Canceller
<1>1. CASE BeginTurn \/ Crash \/ EndTurn
  BY <1>1 DEF BeginTurn, Crash, EndTurn
<1>2. CASE Spawn \/ Register \/ BuildFails
  BY <1>2 DEF Spawn, Register, BuildFails, Unused, Fresh, Refuse, Break, NoOp,
      AnswerRequest
<1>3. CASE Launch \/ LaunchRefused \/ LaunchFails
  BY <1>3 DEF Launch, LaunchRefused, LaunchFails, NoOp, Refuse, Break, AnswerRequest
<1>4. CASE TakeRequests \/ RequestsTaken \/ Recovered \/ Report \/ Reported
  BY <1>4 DEF TakeRequests, RequestsTaken, Recovered, Report, Reported, NoOp
<1>5. CASE ParentWrite \/ ParentWritten \/ Answered \/ Errs \/ ClientEnds
  BY <1>5 DEF ParentWrite, ParentWritten, Answered, Errs, ClientEnds, Leaves
<1>6. CASE Stop
  BY <1>6 DEF Stop, Leaves, NoOp, Idle
<1>7. CASE Close \/ Closed
  BY <1>7 DEF Close, Closed
<1>8. CASE \E w \in Worker : Resume(w) \/ RequestResume(w) \/ Recover(w) \/ WorkerNext(w)
  BY <1>8 DEF Resume, RequestResume, Recover, WorkerNext, ActiveState,
      AnswerRequest, Call, Counted, Ask, Asked, Denied, Run, Written, Finish,
      Heartbeat, End
<1>9. CASE \E w \in Worker : TurnCancels(w) \/ ControlCancels(w)
  BY <1>9 DEF TurnCancels, ControlCancels, CancelWorker, ActiveState
<1>10. CASE \E c \in Canceller : CancelJoined(c) \/ CancelSaved(c)
  BY <1>10 DEF CancelJoined, CancelSaved, Idle
<1>11. CASE UNCHANGED vars
  BY <1>11
<1> QED BY <1>1, <1>2, <1>3, <1>4, <1>5, <1>6, <1>7, <1>8, <1>9, <1>10, <1>11 DEF Next

(* When the client has recorded the end of the run, nobody works or writes *)
(* but a worker cancelled on request, if the client closes the stream and  *)
(* no more than one checkpoint fails.                                      *)
THEOREM NothingWorksOn ==
  ASSUME ClosesStream = TRUE, MaxFault <= 1 PROVE Spec => []NoWorkAfterTurn
<1>1. Init => Streams
  BY DEF Init, Streams
<1>2. Inv /\ WriteInv /\ Streams => NoWorkAfterTurn
  BY DEF Inv, Tasks, WriteInv, Outlived, Parent, Streams, NoWorkAfterTurn, Active
<1> QED BY Invariant, WriteInit, WriteKept, StreamsKept, <1>1, <1>2, PTL DEF Spec
=============================================================================
