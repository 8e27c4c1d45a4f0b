-------------------------- MODULE DaemonRunProofs --------------------------
(***************************************************************************)
(* Theorems about DaemonRun for runs with and without a team, with and     *)
(* without permissions, failing or not, and for any number of follow-ups,  *)
(* requests, cancellations, engine failures and shutdowns.                 *)
(***************************************************************************)
EXTENDS DaemonRun, FiniteSetTheorems, SequenceTheorems, TLAPS

(* The wakeup is between taking the start lock and letting go of it. *)
WakeHolds == wake \in {"check", "load", "take", "takeCancelled", "lost", "mark"}

(* The start lock is held by the handler that is inside, and by it alone. *)
LockKept ==
  /\ startLock = "wake" <=> WakeHolds
  /\ startLock = "queue" <=> queueing # "none"
  /\ startLock = "continue" <=> continuing # "none"
  /\ startLock = "cancel" <=> cancel # "none"

(* What was seen of the run task under the lock is still so. *)
Seen ==
  /\ WakeHolds => task = "none"
  /\ continuing \in {"session", "mark"} => task = "none"
  /\ cancel = "publish" => task = "none"

(* The finalizer works for the turn that waits for it. *)
Finalizing ==
  /\ fin # "none" <=> task \in {"finalize", "join", "correct", "stop"}
  /\ task = "correct" => fin = "ended"
  /\ result # Message => fin \in {"recover", "ended"}
  /\ task = "none" => claim = Message
  /\ task = "release" => claim # Message

(* A cancelled task does nothing but come to its end. *)
Dying == {"cancelRecorded", "cancelUnrecorded", "join", "correct", "stop"}
Cancelling ==
  /\ cancelling => task \in Dying \cup {"release", "finalize"}
  /\ task \in Dying => cancelling

(* Cancelling a run takes its wakeup along, and nobody schedules another   *)
(* before the next request.                                                *)
CancelIdle ==
  /\ cancel # "none" => wake = "none"
  /\ cancelled => wake = "none" /\ queueing = "none" /\ continuing = "none"
  /\ cancelled /\ task # "none" => cancelling

Control == LockKept /\ Seen /\ Finalizing /\ Cancelling /\ CancelIdle

(* The claims in the hands of wakeup, turn and finalizer. *)
Claims ==
  /\ wakeClaim # Message <=> wake \in {"mark", "lost"}
  /\ claim # Message => claim # result
  /\ \A c \in {wakeClaim, claim, result} : c # Message => c \in 1 .. accepted /\ c \notin pending
  /\ wakeClaim \notin Ran /\ result \notin Ran
  /\ task \in {"new", "setup", "record", "cancelUnrecorded", "release"} => claim \notin Ran

(* The queue holds accepted follow-ups that have not run. *)
Queued ==
  /\ pending \subseteq 1 .. accepted /\ Ran \subseteq 1 .. accepted
  /\ pending \cap Ran = {}
  /\ accepted <= MaxItem /\ (queueing = "store" => accepted < MaxItem)

(* No follow-up is run as two turns. *)
RunOnce == \A j, k \in DOMAIN turns : turns[j] = turns[k] => j = k

Data == Claims /\ Queued /\ RunOnce

Inv == TypeOK /\ Control /\ Data

(* The bounds are spent, never refilled. *)
Spent == \A b \in Bounded : budget[b] <= Bound[b]

(* Where nobody interferes, no task is cancelled and the engine is up; a    *)
(* turn keeps its claim until it has recorded the message.                  *)
Peace ==
  Undisturbed =>
    /\ engine /\ phase = "open" /\ cancel = "none" /\ ~cancelling /\ fin # "recover"
    /\ wake \notin {"takeCancelled", "lost"}
    /\ task \in {"turn", "ask", "wait", "finalize"} => claim \in Ran \cup {Message}

(* A run task that ends leaves a final state behind: the finalizer has      *)
(* published one unless it claimed a follow-up, and a cancelled task has    *)
(* nothing claimed or corrects the state.                                   *)
Final == {"done", "failed", "cancelled"}
Published ==
  /\ task = "none" => meta \notin Active
  /\ fin = "ended" /\ result = Message => meta \notin Active
  /\ effective \in Final /\ state \in Final
  /\ task = "finalize" /\ cancelling =>
       result = Message /\ fin # "memory" /\ (fin \in {"load", "finish"} => effective = "cancelled")

(* What the theorem about it assumes of the run. *)
Once ==
  /\ phase = "open" /\ answering = "none" /\ permission = "none"
  /\ cancel # "none" \/ cancelling => budget["cancel"] = 0
  /\ budget["cancel"] <= 1 /\ budget["shutdown"] = 0
  /\ cancel = "load" => ~cancelling
  /\ task \notin {"ask", "wait", "stop"}
  /\ task = "release" => Team
  /\ Team => engine /\ budget["engine"] = 0

-----------------------------------------------------------------------------
(* A set of naturals has a least member: of the sets of members below one  *)
(* of its members, one is smallest.                                        *)
LEMMA LeastMember ==
  ASSUME NEW S \in SUBSET Nat, S # {}
  PROVE  \E x \in S : \A n \in S : x <= n
<1>1. PICK m \in S : TRUE
  OBVIOUS
<1> DEFINE B == S \cap (0 .. m)
           Below(x) == {y \in B : y < x}
           U == {Below(x) : x \in B}
<1>2. IsFiniteSet(B) /\ m \in B
  <2>1. m \in Nat /\ B \in SUBSET (0 .. m)
    BY <1>1
  <2>2. IsFiniteSet(0 .. m)
    BY <2>1, FS_Interval
  <2> QED BY <2>1, <2>2, <1>1, FS_Subset
<1>3. U \subseteq FiniteSubsetsOf(B) /\ U # {}
  <2>1. FiniteSubsetsOf(B) = SUBSET B
    BY <1>2, FS_FiniteSubsetsOfFinite
  <2>2. \A x \in B : Below(x) \in SUBSET B
    OBVIOUS
  <2>3. Below(m) \in U
    BY <1>2
  <2> HIDE DEF B, Below
  <2> QED BY <2>1, <2>2, <2>3
<1>4. PICK T \in U : \A V \in U : ~(<<V, T>> \in StrictSubsetOrdering(B))
  <2> HIDE DEF U
  <2> QED BY <1>3, FS_StrictSubsetOrderingWellFounded, WFMin
<1>5. PICK x \in B : T = Below(x)
  BY <1>4
<1>6. \A y \in B : x <= y
  <2> SUFFICES ASSUME NEW y \in B, y < x PROVE FALSE
    OBVIOUS
  <2>1. Below(y) \subseteq T /\ y \in T /\ y \notin Below(y)
    BY <1>5
  <2>2. <<Below(y), T>> \in StrictSubsetOrdering(B)
    BY <2>1, <1>5 DEF StrictSubsetOrdering
  <2> QED BY <2>2, <1>4
<1>7. \A y \in S : x <= y
  BY <1>6, <1>1
<1> QED BY <1>7

(* Oldest chooses it. *)
LEMMA OldestLeast ==
  ASSUME NEW S \in SUBSET Nat, S # {}
  PROVE  Oldest(S) \in S /\ \A n \in S : Oldest(S) <= n
BY LeastMember DEF Oldest

(* Recording a message adds its follow-up to those that ran, once. *)
LEMMA RanAppend ==
  ASSUME NEW t \in Seq(Item), NEW i \in Item
  PROVE  /\ Append(t, i) \in Seq(Item)
         /\ {Append(t, i)[k] : k \in DOMAIN Append(t, i)} = {t[k] : k \in DOMAIN t} \cup {i}
         /\ \A k \in DOMAIN Append(t, i) : Append(t, i)[k] = IF k \in DOMAIN t THEN t[k] ELSE i
         /\ DOMAIN Append(t, i) = DOMAIN t \cup {Len(t) + 1}
<1>1. /\ Append(t, i) \in Seq(Item)
      /\ Len(Append(t, i)) = Len(t) + 1
      /\ \A k \in 1 .. Len(t) : Append(t, i)[k] = t[k]
      /\ Append(t, i)[Len(t) + 1] = i
  OBVIOUS
<1>2. DOMAIN t = 1 .. Len(t) /\ DOMAIN Append(t, i) = 1 .. Len(t) + 1 /\ Len(t) \in Nat
  BY <1>1
<1> QED BY <1>1, <1>2

(* What an action leaves alone is visible in every proof below. *)
USE DEF vars, store, turnVars, finVars, wakeVars, otherHandlers, handlers, watchers,
  Elsewhere, FinKeeps, WakeKeeps, WakeOnly, HandlerKeeps, TaskStays, OtherThan,
  ContinueKeeps, CancelKeeps

-----------------------------------------------------------------------------
(* The start lock and what it protects: Control is inductive by itself.    *)

(* Nobody holds the lock at first. *)
LEMMA ControlInit == Init => Control
BY DEF Init, Control, LockKept, Seen, Finalizing, Cancelling, CancelIdle, Dying, WakeHolds

(* Whoever changes the task or a handler holds the lock or has seen it free. *)
LEMMA ControlKept == Control /\ [Next]_vars => Control'
<1> SUFFICES ASSUME Control, [Next]_vars PROVE Control'
  OBVIOUS
<1> USE DEF Control, LockKept, Seen, Finalizing, Cancelling, CancelIdle, Dying, WakeHolds
<1>1. CASE RunTask
  BY <1>1 DEF RunTask, BeginTurn, MarkRunning, RecordMessage, AskPermission,
      MarkBlocked, PermissionGiven, EndOfTurn, SetupFails, TurnError,
      CancelRecorded, ReleaseClaim, ReleaseFails, NextTurn, LastTurn, Joined,
      Correct, Stopped, StoreUp, Message, Finalize, EndTask
<1>2. CASE Finalizer
  BY <1>2 DEF Finalizer, SaveSession, ExtractMemory, LoadEvents, Finish,
      FinalizeRaw, FinishRecovered, StoreUp, FinishTurn, Message
<1>3. CASE Wakeup
  BY <1>3 DEF Wakeup, WakeLocks, WakeChecks, WakeLoads, WakeBusy, WakeTakes,
      WakeStarts, WakeFails, WakeReloads, WakeTakesUnheard, WakeLost, Closing,
      EndWakeup, TakeOldest, StartTask, Message, Spend
<1>4. CASE Request
  BY <1>4 DEF Request, QueueLocks, ContinueLocks, CancelLocks, ResolvePermission,
      Locks, Closing, Spend, Message
<1>5. CASE Handler
  BY <1>5 DEF Handler, QueueStores, QueueRecords, QueueReplies, ContinueLoads,
      ContinueLoadsSession, ContinueStarts, ContinueRefuses, CancelsTask,
      CancelsIdle, CancelPublishes, CancelReplies, AnswerRecords,
      AnswerMarksRunning, Closing, ScheduleWakeup, Unlocks, Active, StartTask,
      Message, CancelTask, EndTask, Finalize
<1>6. CASE FinishUnheard \/ ReleaseUnheard
  BY <1>6 DEF FinishUnheard, ReleaseUnheard, Spend, FinishTurn, EndTask, Message
<1>7. CASE EngineDies \/ EngineRestarts
  BY <1>7 DEF EngineDies, EngineRestarts, Spend, Message
<1>8. CASE Shutdown
  BY <1>8 DEF Shutdown, Spend, CancelWakeup, EndWakeup, Message
<1>9. CASE ShutdownCancels
  BY <1>9 DEF ShutdownCancels, CancelTask, EndTask, Finalize, Message
<1>10. CASE ShutdownCloses
  BY <1>10 DEF ShutdownCloses, Message
<1>11. CASE UNCHANGED vars
  BY <1>11
<1> QED BY <1>1, <1>2, <1>3, <1>4, <1>5, <1>6, <1>7, <1>8, <1>9, <1>10, <1>11 DEF Next

-----------------------------------------------------------------------------
(* The variables keep their types, a part of TypeOK at a time.             *)

StoreType == meta \in RunState /\ pending \subseteq Item /\ accepted \in Nat

TurnType ==
  /\ task \in TaskPc /\ claim \in Item \cup {Message} /\ state \in RunState
  /\ cancelling \in BOOLEAN /\ raw \in BOOLEAN
  /\ permission \in {"none", "pending", "resolved"}

FinType == fin \in FinPc /\ effective \in RunState /\ result \in Item \cup {Message}

WakeType == wake \in WakePc /\ wakeClaim \in Item \cup {Message}

HandlerType ==
  /\ queueing \in {"none", "store", "event", "reply"}
  /\ continuing \in {"none", "load", "wait", "killed", "session", "mark"}
  /\ cancel \in {"none", "load", "event", "publish"}
  /\ answering \in {"none", "event", "mark"}
  /\ startLock \in {"free", "wake", "queue", "continue", "cancel"}

DaemonType ==
  /\ turns \in Seq(Item) /\ cancelled \in BOOLEAN
  /\ phase \in {"open", "closing", "stopping", "closed"} /\ engine \in BOOLEAN

(* finish_turn and take_queued_message hand out the oldest follow-up that   *)
(* is queued.                                                              *)
LEMMA FinishTurnTakes ==
  ASSUME TypeOK, NEW st \in RunState, NEW d \in BOOLEAN, FinishTurn(st, d)
  PROVE  /\ meta' \in RunState
         /\ \/ pending' = pending /\ result' = result
            \/ /\ result' \in pending /\ pending' = pending \ {result'}
               /\ \A n \in pending : result' <= n
<1>1. pending \in SUBSET Nat
  BY DEF TypeOK, Item
<1>2. pending # {} => Oldest(pending) \in pending /\ \A n \in pending : Oldest(pending) <= n
  BY <1>1, OldestLeast
<1> QED BY <1>2 DEF FinishTurn, RunState

(* finish_turn publishes the state it is given, unless it claims. *)
LEMMA FinishTurnFinal ==
  ASSUME TypeOK, NEW st, NEW d \in BOOLEAN, FinishTurn(st, d)
  PROVE  (meta' = st /\ result' = result) \/ (st = "done" /\ result' # Message)
<1>1. pending \in SUBSET Nat
  BY DEF TypeOK, Item
<1>2. pending # {} => Oldest(pending) \in pending
  BY <1>1, OldestLeast
<1> QED BY <1>2 DEF FinishTurn, TypeOK, Item, Message

(* The wakeup takes one, or ends if there is none. *)
LEMMA TakeOldestTakes ==
  ASSUME TypeOK, NEW next, TakeOldest(next)
  PROVE  /\ UNCHANGED <<meta, accepted>>
         /\ \/ EndWakeup /\ pending' = pending
            \/ /\ wake' = next /\ startLock' = startLock
               /\ wakeClaim' \in pending /\ pending' = pending \ {wakeClaim'}
               /\ \A n \in pending : wakeClaim' <= n
<1>1. pending \in SUBSET Nat
  BY DEF TypeOK, Item
<1>2. pending # {} => Oldest(pending) \in pending /\ \A n \in pending : Oldest(pending) <= n
  BY <1>1, OldestLeast
<1> QED BY <1>2 DEF TakeOldest

(* The durable state and the queue keep their types. *)
LEMMA StoreTypeKept == TypeOK /\ Control /\ [Next]_vars => StoreType'
<1> SUFFICES ASSUME TypeOK, Control, [Next]_vars PROVE StoreType'
  OBVIOUS
<1> USE DEF StoreType, RunState, Item, Message
<1>1. ASSUME RunTask, ~ReleaseClaim PROVE StoreType'
  BY <1>1 DEF RunTask, BeginTurn, MarkRunning, RecordMessage, AskPermission,
      MarkBlocked, PermissionGiven, EndOfTurn, SetupFails, TurnError,
      CancelRecorded, ReleaseFails, NextTurn, LastTurn, Joined, Correct, Stopped,
      StoreUp, Message, Finalize, EndTask, TypeOK
<1>2. CASE ReleaseClaim \/ ReleaseUnheard
  BY <1>2 DEF ReleaseClaim, ReleaseUnheard, StoreUp, Message, Spend, EndTask,
      TypeOK, Control, Finalizing
<1>3. CASE Finalizer \/ FinishUnheard
  BY <1>3, FinishTurnTakes DEF Finalizer, FinishUnheard, SaveSession,
      ExtractMemory, LoadEvents, Finish, FinalizeRaw, FinishRecovered, Spend,
      StoreUp, Message, TypeOK
<1>4. CASE Wakeup
  BY <1>4, TakeOldestTakes DEF Wakeup, WakeLocks, WakeChecks, WakeLoads, WakeBusy,
      WakeTakes, WakeStarts, WakeFails, WakeReloads, WakeTakesUnheard, WakeLost,
      Closing, EndWakeup, StartTask, Message, Spend, TypeOK
<1>5. CASE QueueStores
  BY <1>5 DEF QueueStores, TypeOK
<1>6. ASSUME Request \/ Handler, ~QueueStores PROVE StoreType'
  BY <1>6 DEF Request, Handler, QueueLocks, ContinueLocks, CancelLocks,
      ResolvePermission, QueueRecords, QueueReplies, ContinueLoads,
      ContinueLoadsSession, ContinueStarts, ContinueRefuses, CancelsTask,
      CancelsIdle, CancelPublishes, CancelReplies, AnswerRecords,
      AnswerMarksRunning, Locks, Closing, Spend, ScheduleWakeup, Unlocks, Active,
      StartTask, Message, CancelTask, EndTask, Finalize, TypeOK
<1>7. CASE Shutdown \/ ShutdownCancels
  BY <1>7 DEF Shutdown, ShutdownCancels, Spend, CancelWakeup, CancelTask,
      EndWakeup, EndTask, Finalize, Message, TypeOK
<1>8. CASE EngineDies \/ EngineRestarts \/ ShutdownCloses \/ UNCHANGED vars
  BY <1>8 DEF EngineDies, EngineRestarts, ShutdownCloses, Spend, TypeOK
<1> QED BY <1>1, <1>2, <1>3, <1>4, <1>5, <1>6, <1>7, <1>8 DEF Next

(* So do the variables of the turn, *)
LEMMA TurnTypeKept == TypeOK /\ Control /\ [Next]_vars => TurnType'
<1> SUFFICES ASSUME TypeOK, Control, [Next]_vars PROVE TurnType'
  OBVIOUS
<1> USE DEF TurnType, TypeOK, RunState, Item, Message, TaskPc
<1>1. CASE RunTask
  BY <1>1 DEF RunTask, BeginTurn, MarkRunning, RecordMessage, AskPermission,
      MarkBlocked, PermissionGiven, EndOfTurn, SetupFails, TurnError,
      CancelRecorded, ReleaseClaim, ReleaseFails, NextTurn, LastTurn, Joined,
      Correct, Stopped, StoreUp, Message, Finalize, EndTask
<1>2. CASE Finalizer \/ FinishUnheard
  BY <1>2 DEF Finalizer, FinishUnheard, SaveSession, ExtractMemory, LoadEvents,
      Finish, FinalizeRaw, FinishRecovered, Spend, StoreUp, Message
<1>3. CASE Wakeup
  BY <1>3 DEF Wakeup, WakeLocks, WakeChecks, WakeLoads, WakeBusy, WakeTakes,
      WakeStarts, WakeFails, WakeReloads, WakeTakesUnheard, WakeLost, Closing,
      EndWakeup, TakeOldest, StartTask, Message, Spend
<1>4. CASE CancelsTask
  BY ZenonT(60), <1>4 DEF CancelsTask, CancelTask, EndTask, Finalize, Message
<1>5. ASSUME Request \/ Handler, ~CancelsTask PROVE TurnType'
  BY <1>5 DEF Request, Handler, QueueLocks, ContinueLocks, CancelLocks,
      ResolvePermission, QueueStores, QueueRecords, QueueReplies, ContinueLoads,
      ContinueLoadsSession, ContinueStarts, ContinueRefuses, CancelsIdle,
      CancelPublishes, CancelReplies, AnswerRecords, AnswerMarksRunning, Locks,
      Closing, Spend, ScheduleWakeup, Unlocks, Active, StartTask, Message
<1>6. CASE ReleaseUnheard \/ EngineDies \/ EngineRestarts \/ Shutdown \/ ShutdownCloses
  BY <1>6 DEF ReleaseUnheard, EngineDies, EngineRestarts, Shutdown,
      ShutdownCloses, Spend, EndTask, CancelWakeup, Message, EndWakeup
<1>7. CASE ShutdownCancels
  BY ZenonT(60), <1>7 DEF ShutdownCancels, CancelTask, EndTask, Finalize, Message
<1>8. CASE UNCHANGED vars
  BY <1>8
<1> QED BY <1>1, <1>2, <1>3, <1>4, <1>5, <1>6, <1>7, <1>8 DEF Next

(* those of the finalizer, *)
LEMMA FinTypeKept == TypeOK /\ Control /\ [Next]_vars => FinType'
<1> SUFFICES ASSUME TypeOK, Control, [Next]_vars PROVE FinType'
  OBVIOUS
<1> USE DEF FinType, TypeOK, RunState, FinPc
<1>1. CASE RunTask
  BY <1>1 DEF RunTask, BeginTurn, MarkRunning, RecordMessage, AskPermission,
      MarkBlocked, PermissionGiven, EndOfTurn, SetupFails, TurnError,
      CancelRecorded, ReleaseClaim, ReleaseFails, NextTurn, LastTurn, Joined,
      Correct, Stopped, StoreUp, Message, Finalize, EndTask, Item
<1>2. CASE Finalizer \/ FinishUnheard
  BY <1>2, FinishTurnTakes DEF Finalizer, FinishUnheard, SaveSession,
      ExtractMemory, LoadEvents, Finish, FinalizeRaw, FinishRecovered, Spend,
      StoreUp, Message
<1>3. CASE Wakeup \/ Request
  BY <1>3 DEF Wakeup, Request, WakeLocks, WakeChecks, WakeLoads, WakeBusy,
      WakeTakes, WakeStarts, WakeFails, WakeReloads, WakeTakesUnheard, WakeLost,
      QueueLocks, ContinueLocks, CancelLocks, ResolvePermission, Closing,
      EndWakeup, TakeOldest, StartTask, Message, Spend, Locks
<1>4. CASE Handler
  BY <1>4 DEF Handler, QueueStores, QueueRecords, QueueReplies, ContinueLoads,
      ContinueLoadsSession, ContinueStarts, ContinueRefuses, CancelsTask,
      CancelsIdle, CancelPublishes, CancelReplies, AnswerRecords,
      AnswerMarksRunning, Closing, ScheduleWakeup, Unlocks, Active, StartTask,
      Message, CancelTask, EndTask, Finalize
<1>5. CASE ReleaseUnheard \/ EngineDies \/ EngineRestarts \/ Shutdown \/ ShutdownCloses
  BY <1>5 DEF ReleaseUnheard, EngineDies, EngineRestarts, Shutdown,
      ShutdownCloses, Spend, EndTask, CancelWakeup, Message, EndWakeup
<1>6. CASE ShutdownCancels \/ UNCHANGED vars
  BY <1>6 DEF ShutdownCancels, CancelTask, EndTask, Finalize, Message
<1> QED BY <1>1, <1>2, <1>3, <1>4, <1>5, <1>6 DEF Next

(* those of the wakeup, *)
LEMMA WakeTypeKept == TypeOK /\ [Next]_vars => WakeType'
<1> SUFFICES ASSUME TypeOK, [Next]_vars PROVE WakeType'
  OBVIOUS
<1> USE DEF WakeType, TypeOK, WakePc
<1>1. CASE RunTask \/ Finalizer
  BY <1>1 DEF RunTask, Finalizer, BeginTurn, MarkRunning, RecordMessage,
      AskPermission, MarkBlocked, PermissionGiven, EndOfTurn, SetupFails,
      TurnError, CancelRecorded, ReleaseClaim, ReleaseFails, NextTurn, LastTurn,
      Joined, Correct, Stopped, SaveSession, ExtractMemory, LoadEvents, Finish,
      FinalizeRaw, FinishRecovered, StoreUp, Message, Finalize, EndTask,
      FinishTurn
<1>2. CASE Wakeup
  BY <1>2, TakeOldestTakes DEF Wakeup, WakeLocks, WakeChecks, WakeLoads, WakeBusy,
      WakeTakes, WakeStarts, WakeFails, WakeReloads, WakeTakesUnheard, WakeLost,
      Closing, EndWakeup, StartTask, Message, Spend, Item
<1>3. CASE Request \/ Handler
  BY <1>3 DEF Request, Handler, QueueLocks, ContinueLocks, CancelLocks,
      ResolvePermission, QueueStores, QueueRecords, QueueReplies, ContinueLoads,
      ContinueLoadsSession, ContinueStarts, ContinueRefuses, CancelsTask,
      CancelsIdle, CancelPublishes, CancelReplies, AnswerRecords,
      AnswerMarksRunning, Locks, Closing, Spend, ScheduleWakeup, Unlocks, Active,
      StartTask, Message, CancelTask, EndTask, Finalize
<1>4. CASE FinishUnheard \/ ReleaseUnheard \/ EngineDies \/ EngineRestarts \/ UNCHANGED vars
  BY <1>4 DEF FinishUnheard, ReleaseUnheard, EngineDies, EngineRestarts, Spend,
      FinishTurn, EndTask, Message
<1>5. CASE Shutdown \/ ShutdownCancels \/ ShutdownCloses
  BY <1>5 DEF Shutdown, ShutdownCancels, ShutdownCloses, Spend, CancelWakeup,
      CancelTask, EndWakeup, EndTask, Finalize, Message
<1> QED BY <1>1, <1>2, <1>3, <1>4, <1>5 DEF Next

(* those of the handlers, *)
LEMMA HandlerTypeKept == TypeOK /\ [Next]_vars => HandlerType'
<1> SUFFICES ASSUME TypeOK, [Next]_vars PROVE HandlerType'
  OBVIOUS
<1> USE DEF HandlerType, TypeOK
<1>1. CASE RunTask \/ Finalizer
  BY <1>1 DEF RunTask, Finalizer, BeginTurn, MarkRunning, RecordMessage,
      AskPermission, MarkBlocked, PermissionGiven, EndOfTurn, SetupFails,
      TurnError, CancelRecorded, ReleaseClaim, ReleaseFails, NextTurn, LastTurn,
      Joined, Correct, Stopped, SaveSession, ExtractMemory, LoadEvents, Finish,
      FinalizeRaw, FinishRecovered, StoreUp, Message, Finalize, EndTask,
      FinishTurn
<1>2. CASE Wakeup
  BY <1>2 DEF Wakeup, WakeLocks, WakeChecks, WakeLoads, WakeBusy, WakeTakes,
      WakeStarts, WakeFails, WakeReloads, WakeTakesUnheard, WakeLost, Closing,
      EndWakeup, TakeOldest, StartTask, Message, Spend
<1>3. CASE Request \/ Handler
  BY <1>3 DEF Request, Handler, QueueLocks, ContinueLocks, CancelLocks,
      ResolvePermission, QueueStores, QueueRecords, QueueReplies, ContinueLoads,
      ContinueLoadsSession, ContinueStarts, ContinueRefuses, CancelsTask,
      CancelsIdle, CancelPublishes, CancelReplies, AnswerRecords,
      AnswerMarksRunning, Locks, Closing, Spend, ScheduleWakeup, Unlocks, Active,
      StartTask, Message, CancelTask, EndTask, Finalize
<1>4. CASE FinishUnheard \/ ReleaseUnheard \/ EngineDies \/ EngineRestarts \/ UNCHANGED vars
  BY <1>4 DEF FinishUnheard, ReleaseUnheard, EngineDies, EngineRestarts, Spend,
      FinishTurn, EndTask, Message
<1>5. CASE Shutdown \/ ShutdownCancels \/ ShutdownCloses
  BY <1>5 DEF Shutdown, ShutdownCancels, ShutdownCloses, Spend, CancelWakeup,
      CancelTask, EndWakeup, EndTask, Finalize, Message
<1> QED BY <1>1, <1>2, <1>3, <1>4, <1>5 DEF Next

(* the turns that ran and the state of the daemon, *)
LEMMA DaemonTypeKept == TypeOK /\ [Next]_vars => DaemonType'
<1> SUFFICES ASSUME TypeOK, [Next]_vars PROVE DaemonType'
  OBVIOUS
<1> USE DEF DaemonType, TypeOK
<1>1. CASE RecordMessage
  BY <1>1, RanAppend DEF RecordMessage
<1>2. ASSUME RunTask, ~RecordMessage PROVE DaemonType'
  BY <1>2 DEF RunTask, BeginTurn, MarkRunning, AskPermission, MarkBlocked,
      PermissionGiven, EndOfTurn, SetupFails, TurnError, CancelRecorded,
      ReleaseClaim, ReleaseFails, NextTurn, LastTurn, Joined, Correct, Stopped,
      StoreUp, Finalize, Message, EndTask
<1>3. CASE Finalizer \/ Wakeup
  BY <1>3 DEF Finalizer, Wakeup, SaveSession, ExtractMemory, LoadEvents, Finish,
      FinalizeRaw, FinishRecovered, WakeLocks, WakeChecks, WakeLoads, WakeBusy,
      WakeTakes, WakeStarts, WakeFails, WakeReloads, WakeTakesUnheard, WakeLost,
      StoreUp, FinishTurn, Message, Closing, EndWakeup, TakeOldest, StartTask,
      Spend
<1>4. CASE Request \/ Handler
  BY ZenonT(60), <1>4 DEF Request, Handler, QueueLocks, ContinueLocks, CancelLocks,
      ResolvePermission, QueueStores, QueueRecords, QueueReplies, ContinueLoads,
      ContinueLoadsSession, ContinueStarts, ContinueRefuses, CancelsTask,
      CancelsIdle, CancelPublishes, CancelReplies, AnswerRecords,
      AnswerMarksRunning, Locks, Closing, Spend, ScheduleWakeup, Unlocks, Active,
      StartTask, Message, CancelTask, EndTask, Finalize
<1>5. CASE FinishUnheard \/ ReleaseUnheard \/ EngineDies \/ EngineRestarts \/ UNCHANGED vars
  BY <1>5 DEF FinishUnheard, ReleaseUnheard, EngineDies, EngineRestarts, Spend,
      FinishTurn, EndTask, Message
<1>6. CASE Shutdown \/ ShutdownCancels \/ ShutdownCloses
  BY <1>6 DEF Shutdown, ShutdownCancels, ShutdownCloses, Spend, CancelWakeup,
      CancelTask, EndWakeup, EndTask, Finalize, Message
<1> QED BY <1>1, <1>2, <1>3, <1>4, <1>5, <1>6 DEF Next

(* A bound is spent one unit at a time, and never given back. *)
LEMMA Spending ==
  ASSUME TypeOK, [Next]_vars
  PROVE  budget' = budget \/ \E b \in Bounded : Spend(b)
<1>1. CASE RunTask \/ Finalizer \/ Wakeup
  BY <1>1 DEF RunTask, Finalizer, Wakeup, BeginTurn, MarkRunning, RecordMessage,
      AskPermission, MarkBlocked, PermissionGiven, EndOfTurn, SetupFails,
      TurnError, CancelRecorded, ReleaseClaim, ReleaseFails, NextTurn, LastTurn,
      Joined, Correct, Stopped, SaveSession, ExtractMemory, LoadEvents, Finish,
      FinalizeRaw, FinishRecovered, WakeLocks, WakeChecks, WakeLoads, WakeBusy,
      WakeTakes, WakeStarts, WakeFails, WakeReloads, WakeTakesUnheard, WakeLost,
      StoreUp, Message, Finalize, EndTask, FinishTurn, Closing, EndWakeup,
      TakeOldest, StartTask, Bounded
<1>2. CASE Request \/ Handler
  BY <1>2 DEF Request, Handler, QueueLocks, ContinueLocks, CancelLocks,
      ResolvePermission, QueueStores, QueueRecords, QueueReplies, ContinueLoads,
      ContinueLoadsSession, ContinueStarts, ContinueRefuses, CancelsTask,
      CancelsIdle, CancelPublishes, CancelReplies, AnswerRecords,
      AnswerMarksRunning, Locks, Closing, ScheduleWakeup, Unlocks, Active,
      StartTask, Message, CancelTask, EndTask, Finalize, Bounded
<1>3. CASE FinishUnheard \/ ReleaseUnheard \/ EngineDies \/ EngineRestarts \/ UNCHANGED vars
  BY <1>3 DEF FinishUnheard, ReleaseUnheard, EngineDies, EngineRestarts,
      FinishTurn, EndTask, Message, Bounded
<1>4. CASE Shutdown \/ ShutdownCancels \/ ShutdownCloses
  BY <1>4 DEF Shutdown, ShutdownCancels, ShutdownCloses, CancelWakeup, CancelTask,
      EndWakeup, EndTask, Finalize, Message, Bounded
<1> QED BY <1>1, <1>2, <1>3, <1>4 DEF Next

(* and the bounds. *)
LEMMA BudgetTypeKept == TypeOK /\ [Next]_vars => budget' \in [Bounded -> Nat]
BY Spending DEF TypeOK, Spend

-----------------------------------------------------------------------------
(* The claims and the queue.                                               *)

(* While no follow-up is accepted, claimed, returned or run, the claims     *)
(* only have to fit the places where the tasks stand.                      *)
LEMMA DataUnmoved ==
  ASSUME TypeOK, Data, UNCHANGED <<accepted, pending, turns>>,
         wakeClaim' \in {wakeClaim, Message}, wakeClaim' # Message <=> wake' \in {"mark", "lost"},
         claim' \in {claim, Message}, result' \in {result, Message},
         claim' # Message /\ task' \in {"new", "setup", "record", "cancelUnrecorded", "release"}
           => task \in {"new", "setup", "record", "cancelUnrecorded", "release"},
         queueing' = "store" => queueing = "store" \/ accepted < MaxItem
  PROVE  Data'
<1>1. Ran' = Ran /\ Ran \subseteq Item
  BY DEF Ran, TypeOK
<1>2. Claims'
  BY <1>1 DEF Data, Claims, Message, Item
<1>3. Queued'
  BY <1>1 DEF Data, Queued
<1>4. RunOnce'
  BY DEF Data, RunOnce
<1> QED BY <1>2, <1>3, <1>4 DEF Data

(* Cancelling the task leaves the claims with the turn, or gives them up.  *)
LEMMA CancelTaskClaims ==
  ASSUME TypeOK, Control, CancelTask
  PROVE  /\ pending' = pending /\ claim' \in {claim, Message} /\ result' \in {result, Message}
         /\ claim' # Message /\ task' \in {"new", "setup", "record", "cancelUnrecorded", "release"}
              => task \in {"new", "setup", "record", "cancelUnrecorded", "release"}
         /\ wake' \in {"mark", "lost"} <=> wake \in {"mark", "lost"}
BY DEF CancelTask, EndTask, Finalize, Message

(* One turn at a time: what is claimed next is a follow-up nobody has.     *)
LEMMA FinishData ==
  ASSUME TypeOK, TypeOK', Control, Data, fin = "finish", fin' \in {"ended", "recover"},
         UNCHANGED <<accepted, turns, task, claim, wakeVars, queueing>>,
         \/ pending' = pending /\ result' = result
         \/ result' \in pending /\ pending' = pending \ {result'}
  PROVE  Data'
<1>1. Ran' = Ran
  BY DEF Ran
<1>2. result = Message /\ task \in {"finalize", "join", "correct", "stop"} /\ wakeClaim = Message
  BY DEF Control, Finalizing, Seen, WakeHolds, Data, Claims
<1>3. Claims'
  BY <1>1, <1>2 DEF Data, Claims, Queued, Message, Item, TypeOK
<1>4. Queued'
  BY <1>1 DEF Data, Queued
<1>5. RunOnce'
  BY DEF Data, RunOnce
<1> QED BY <1>3, <1>4, <1>5 DEF Data

(* The wakeup takes while no task is left that could hold a claim. *)
LEMMA TakeData ==
  ASSUME TypeOK, TypeOK', Control, Data, NEW next \in {"mark", "lost"}, TakeOldest(next),
         wake \in {"take", "takeCancelled"}
  PROVE  Data'
<1>1. Ran' = Ran /\ UNCHANGED <<accepted, turns, task, claim, result, queueing>>
  BY DEF Ran, TakeOldest
<1>2. task = "none" /\ claim = Message /\ result = Message
  BY DEF Control, Finalizing, Seen, WakeHolds, Message, TypeOK
<1>3. Claims'
  BY <1>1, <1>2, TakeOldestTakes DEF Data, Claims, Queued, Message, Item, TypeOK, EndWakeup
<1>4. Queued'
  BY <1>1, TakeOldestTakes DEF Data, Queued
<1>5. RunOnce'
  BY <1>1 DEF Data, RunOnce
<1> QED BY <1>3, <1>4, <1>5 DEF Data

(* A returned claim is queued again, its turn is over. *)
LEMMA ReleaseData ==
  ASSUME TypeOK, TypeOK', Control, Data, task = "release", pending' = pending \cup {claim},
         claim' = Message, task' \in {"finalize", "none"}, result' \in {result, Message},
         wake' \in {"mark", "lost"} <=> wake \in {"mark", "lost"},
         UNCHANGED <<accepted, turns, wakeClaim, queueing>>
  PROVE  Data'
<1>1. Ran' = Ran
  BY DEF Ran
<1>2. wakeClaim = Message /\ result = Message
  BY DEF Control, Finalizing, Seen, WakeHolds, Data, Claims
<1>3. claim \in 1 .. accepted /\ claim \notin Ran
  BY DEF Control, Finalizing, Data, Claims
<1>4. Claims'
  BY <1>1, <1>2, <1>3 DEF Data, Claims, Queued, Message, Item, TypeOK
<1>5. Queued'
  BY <1>1, <1>3 DEF Data, Queued
<1>6. RunOnce'
  BY DEF Data, RunOnce
<1> QED BY <1>4, <1>5, <1>6 DEF Data

(* The turn records a claim that nobody else holds and that has not run. *)
LEMMA RecordData == TypeOK /\ Control /\ Data /\ RecordMessage => Data'
<1> SUFFICES ASSUME TypeOK, Control, Data, RecordMessage PROVE Data'
  OBVIOUS
<1>1. CASE claim = Message
  BY <1>1, DataUnmoved DEF RecordMessage, Data, Claims
<1>2. CASE claim # Message
  <2>1. claim \in Item /\ claim \in 1 .. accepted /\ claim \notin Ran /\ claim \notin pending
    BY <1>2 DEF RecordMessage, Data, Claims, TypeOK
  <2>2. /\ turns' = Append(turns, claim) /\ Ran' = Ran \cup {claim}
        /\ \A k \in DOMAIN turns' : turns'[k] = IF k \in DOMAIN turns THEN turns[k] ELSE claim
        /\ DOMAIN turns' = DOMAIN turns \cup {Len(turns) + 1}
    BY <1>2, <2>1, RanAppend DEF RecordMessage, Ran, TypeOK
  <2>3. wakeClaim = Message /\ result = Message
    BY DEF RecordMessage, Control, Finalizing, Seen, WakeHolds, Data, Claims
  <2>4. Claims'
    BY <2>1, <2>2, <2>3 DEF RecordMessage, Data, Claims, Queued, Message, TypeOK
  <2>5. Queued'
    BY <2>1, <2>2 DEF RecordMessage, Data, Queued
  <2>6. RunOnce'
    BY <2>1, <2>2 DEF Data, RunOnce, Ran
  <2> QED BY <2>4, <2>5, <2>6 DEF Data
<1> QED BY <1>1, <1>2

(* A new follow-up has a number nobody has seen. *)
LEMMA QueueData == TypeOK /\ TypeOK' /\ Control /\ Data /\ QueueStores => Data'
<1> SUFFICES ASSUME TypeOK, TypeOK', Control, Data, QueueStores PROVE Data'
  OBVIOUS
<1>1. Ran' = Ran /\ accepted' = accepted + 1 /\ pending' = pending \cup {accepted + 1}
  BY DEF Ran, QueueStores
<1>2. Claims'
  BY <1>1 DEF QueueStores, Data, Claims, TypeOK, Message
<1>3. Queued'
  BY <1>1, DaemonAssumption DEF QueueStores, Data, Queued, TypeOK, DaemonAssumption
<1>4. RunOnce'
  BY DEF QueueStores, Data, RunOnce
<1> QED BY <1>2, <1>3, <1>4 DEF Data

(* The wakeup hands its claim to the turn, the finalizer to the next.      *)
LEMMA HandOver ==
  ASSUME TypeOK, TypeOK', Control, Data, NextTurn \/ WakeStarts \/ ContinueStarts
  PROVE  Data'
<1>1. Ran' = Ran /\ Ran \subseteq Item /\ UNCHANGED <<accepted, pending, turns>>
  BY DEF NextTurn, WakeStarts, ContinueStarts, Message, StartTask, Unlocks, Ran, TypeOK
<1>2. Claims'
  BY <1>1 DEF NextTurn, WakeStarts, ContinueStarts, Message, StartTask, Unlocks,
      Data, Claims, Queued, Control, Finalizing, Seen, WakeHolds, LockKept, Item,
      TypeOK
<1>3. Queued'
  BY <1>1 DEF NextTurn, WakeStarts, ContinueStarts, Message, StartTask, Unlocks,
      Data, Queued
<1>4. RunOnce'
  BY <1>1 DEF Data, RunOnce
<1> QED BY <1>2, <1>3, <1>4 DEF Data

(* So the claims stay apart in every step. *)
LEMMA DataKept == Inv /\ [Next]_vars /\ TypeOK' => Data'
<1> SUFFICES ASSUME TypeOK, Control, Data, [Next]_vars, TypeOK' PROVE Data'
  BY DEF Inv
<1> USE DEF Message
<1>1. CASE RecordMessage
  BY <1>1, RecordData
<1>2. CASE ReleaseClaim \/ ReleaseUnheard
  BY <1>2, ReleaseData DEF ReleaseClaim, ReleaseUnheard, StoreUp, Message, Spend,
      EndTask
<1>3. CASE NextTurn \/ WakeStarts \/ ContinueStarts
  BY <1>3, HandOver
<1>4. ASSUME RunTask, ~RecordMessage, ~ReleaseClaim, ~NextTurn PROVE Data'
  BY <1>4, DataUnmoved DEF RunTask, BeginTurn, MarkRunning, AskPermission,
      MarkBlocked, PermissionGiven, EndOfTurn, SetupFails, TurnError,
      CancelRecorded, ReleaseFails, LastTurn, Joined, Correct, Stopped, StoreUp,
      Finalize, EndTask, Message, Data, Claims, Control, Finalizing
<1>5. CASE Finish \/ FinishUnheard
  BY <1>5, FinishTurnTakes, FinishData DEF Finish, FinishUnheard, StoreUp, Spend, TypeOK
<1>6. ASSUME Finalizer, ~Finish PROVE Data'
  BY <1>6, DataUnmoved DEF Finalizer, SaveSession, ExtractMemory, LoadEvents,
      FinalizeRaw, FinishRecovered, StoreUp, Message, Data, Claims
<1>7. CASE WakeTakes \/ WakeTakesUnheard
  BY <1>7, TakeData DEF WakeTakes, WakeTakesUnheard, Spend
<1>8. ASSUME Wakeup, ~WakeTakes, ~WakeTakesUnheard, ~WakeStarts PROVE Data'
  BY <1>8, DataUnmoved DEF Wakeup, WakeLocks, WakeChecks, WakeLoads, WakeBusy,
      WakeFails, WakeReloads, WakeLost, Closing, EndWakeup, Message, Data, Claims
<1>9. CASE QueueStores
  BY <1>9, QueueData
<1>10. CASE Request
  BY <1>10, DataUnmoved DEF Request, QueueLocks, ContinueLocks, CancelLocks,
      ResolvePermission, Locks, Closing, Spend, Data, Claims, Control, LockKept,
      WakeHolds
<1>11. CASE CancelsTask
  BY <1>11, CancelTaskClaims, DataUnmoved DEF CancelsTask, Data, Claims
<1>12. ASSUME Handler, ~QueueStores, ~CancelsTask, ~ContinueStarts PROVE Data'
  BY <1>12, DataUnmoved DEF Handler, QueueRecords, QueueReplies, ContinueLoads,
      ContinueLoadsSession, ContinueRefuses, CancelsIdle, CancelPublishes,
      CancelReplies, AnswerRecords, AnswerMarksRunning, ScheduleWakeup, Closing,
      Unlocks, Active, Data, Claims, Control, LockKept, WakeHolds
<1>13. CASE EngineDies \/ EngineRestarts \/ ShutdownCloses \/ UNCHANGED vars
  BY <1>13, DataUnmoved DEF EngineDies, EngineRestarts, ShutdownCloses, Spend,
      Data, Claims
<1>14. CASE Shutdown
  BY <1>14, DataUnmoved DEF Shutdown, Spend, CancelWakeup, EndWakeup, Message,
      Data, Claims
<1>15. CASE ShutdownCancels
  BY <1>15, CancelTaskClaims, DataUnmoved DEF ShutdownCancels, Data, Claims
<1> QED BY <1>1, <1>2, <1>3, <1>4, <1>5, <1>6, <1>7, <1>8, <1>9, <1>10, <1>11, <1>12,
           <1>13, <1>14, <1>15 DEF Next, RunTask, Finalizer, Wakeup, Handler

-----------------------------------------------------------------------------
(* The invariant, and what follows from it.                                *)

(* The invariant holds at first, *)
LEMMA InvInit == Init => Inv
<1> SUFFICES ASSUME Init PROVE Inv
  OBVIOUS
<1> USE DEF Message
<1>1. Ran = {} /\ Bound \in [Bounded -> Nat]
  BY DaemonAssumption DEF Init, Ran, Bound, Bounded, DaemonAssumption
<1>2. TypeOK
  <2>1. turns \in Seq(Item) /\ budget \in [Bounded -> Nat]
    BY <1>1 DEF Init
  <2> QED BY <2>1 DEF Init, TypeOK, RunState, TaskPc, FinPc, WakePc
<1>3. Data
  BY <1>1, DaemonAssumption DEF Init, Data, Claims, Queued, RunOnce, DaemonAssumption
<1> QED BY <1>2, <1>3, ControlInit DEF Inv

(* in every step, *)
LEMMA InvKept == Inv /\ [Next]_vars => Inv'
<1> SUFFICES ASSUME Inv, [Next]_vars PROVE Inv'
  OBVIOUS
<1>1. TypeOK /\ Control /\ Data
  BY DEF Inv
<1>2. Control'
  BY <1>1, ControlKept
<1>3. TypeOK'
  <2>1. StoreType' /\ TurnType' /\ FinType' /\ WakeType' /\ HandlerType' /\ DaemonType'
    BY <1>1, StoreTypeKept, TurnTypeKept, FinTypeKept, WakeTypeKept, HandlerTypeKept,
       DaemonTypeKept
  <2>2. (budget \in [Bounded -> Nat])'
    BY <1>1, BudgetTypeKept DEF Bounded
  <2> QED BY <2>1, <2>2
       DEF TypeOK, StoreType, TurnType, FinType, WakeType, HandlerType, DaemonType
<1>4. Data'
  BY <1>3, DataKept
<1> QED BY <1>2, <1>3, <1>4 DEF Inv

(* and so always. *)
LEMMA Invariance == Spec => []Inv
BY InvInit, InvKept, PTL DEF Spec

(* The variables of a run keep their types. *)
THEOREM TypeCorrect == Spec => []TypeOK
<1>1. Inv => TypeOK
  BY DEF Inv
<1> QED BY <1>1, Invariance, PTL

(* A run task is created only where none is left, although the wakeup and   *)
(* the continue handler decide it several awaits before: the start lock     *)
(* they hold keeps everybody else from creating one (_wake_queued_run,      *)
(* continue_run).                                                           *)
THEOREM TurnsNeverOverlap == Spec => OneTask
<1>1. Inv /\ [Next]_vars => [task' = "new" => task \in {"none", "new"}]_vars
  <2> SUFFICES ASSUME Inv, Next, task' = "new" PROVE task \in {"none", "new"}
    OBVIOUS
  <2> USE DEF Inv, Control, Seen, WakeHolds
  <2>1. CASE RunTask
    BY <2>1 DEF RunTask, BeginTurn, MarkRunning, RecordMessage, AskPermission,
        MarkBlocked, PermissionGiven, EndOfTurn, SetupFails, TurnError,
        CancelRecorded, ReleaseClaim, ReleaseFails, NextTurn, LastTurn, Joined,
        Correct, Stopped, StoreUp, Message, Finalize, EndTask
  <2>2. CASE Finalizer \/ Wakeup \/ Request
    BY <2>2 DEF Finalizer, Wakeup, Request, SaveSession, ExtractMemory,
        LoadEvents, Finish, FinalizeRaw, FinishRecovered, WakeLocks, WakeChecks,
        WakeLoads, WakeBusy, WakeTakes, WakeStarts, WakeFails, WakeReloads,
        WakeTakesUnheard, WakeLost, QueueLocks, ContinueLocks, CancelLocks,
        ResolvePermission, StoreUp, FinishTurn, Message, Closing, EndWakeup,
        TakeOldest, StartTask, Spend, Locks
  <2>3. CASE Handler
    BY <2>3 DEF Handler, QueueStores, QueueRecords, QueueReplies, ContinueLoads,
        ContinueLoadsSession, ContinueStarts, ContinueRefuses, CancelsTask,
        CancelsIdle, CancelPublishes, CancelReplies, AnswerRecords,
        AnswerMarksRunning, Closing, ScheduleWakeup, Unlocks, Active, StartTask,
        Message, CancelTask, EndTask, Finalize
  <2>4. CASE FinishUnheard \/ ReleaseUnheard \/ EngineDies \/ EngineRestarts
    BY <2>4 DEF FinishUnheard, ReleaseUnheard, EngineDies, EngineRestarts,
        Spend, FinishTurn, EndTask, Message
  <2>5. CASE Shutdown \/ ShutdownCancels \/ ShutdownCloses
    BY <2>5 DEF Shutdown, ShutdownCancels, ShutdownCloses, Spend, CancelWakeup,
        CancelTask, EndWakeup, EndTask, Finalize, Message
  <2> QED BY <2>1, <2>2, <2>3, <2>4, <2>5 DEF Next
<1> QED BY <1>1, Invariance, PTL DEF Spec, OneTask

(* Once a cancellation is through and until the next request, no turn of    *)
(* the run starts and no follow-up is recorded: the wakeup is gone and the  *)
(* cancelled task only comes to its end (cancel_run).                       *)
THEOREM CancelledRunIsIdle == Spec => CancelledStaysIdle
<1>1. Inv /\ [Next]_vars =>
        [cancelled => turns' = turns /\ (task' = "new" => task = "new")]_vars
  <2> SUFFICES ASSUME Inv, Next, cancelled
               PROVE  turns' = turns /\ (task' = "new" => task = "new")
    OBVIOUS
  <2> USE DEF Inv, Control, Cancelling, CancelIdle, Dying
  <2>1. CASE RunTask
    BY <2>1 DEF RunTask, BeginTurn, MarkRunning, RecordMessage, AskPermission,
        MarkBlocked, PermissionGiven, EndOfTurn, SetupFails, TurnError,
        CancelRecorded, ReleaseClaim, ReleaseFails, NextTurn, LastTurn, Joined,
        Correct, Stopped, StoreUp, Message, Finalize, EndTask
  <2>2. CASE Finalizer \/ Wakeup \/ Request
    BY <2>2 DEF Finalizer, Wakeup, Request, SaveSession, ExtractMemory,
        LoadEvents, Finish, FinalizeRaw, FinishRecovered, WakeLocks, WakeChecks,
        WakeLoads, WakeBusy, WakeTakes, WakeStarts, WakeFails, WakeReloads,
        WakeTakesUnheard, WakeLost, QueueLocks, ContinueLocks, CancelLocks,
        ResolvePermission, StoreUp, FinishTurn, Message, Closing, EndWakeup,
        TakeOldest, StartTask, Spend, Locks
  <2>3. CASE Handler
    BY <2>3 DEF Handler, QueueStores, QueueRecords, QueueReplies, ContinueLoads,
        ContinueLoadsSession, ContinueStarts, ContinueRefuses, CancelsTask,
        CancelsIdle, CancelPublishes, CancelReplies, AnswerRecords,
        AnswerMarksRunning, Closing, ScheduleWakeup, Unlocks, Active, StartTask,
        Message, CancelTask, EndTask, Finalize
  <2>4. CASE FinishUnheard \/ ReleaseUnheard \/ EngineDies \/ EngineRestarts
    BY <2>4 DEF FinishUnheard, ReleaseUnheard, EngineDies, EngineRestarts,
        Spend, FinishTurn, EndTask, Message
  <2>5. CASE Shutdown \/ ShutdownCancels \/ ShutdownCloses
    BY <2>5 DEF Shutdown, ShutdownCancels, ShutdownCloses, Spend, CancelWakeup,
        CancelTask, EndWakeup, EndTask, Finalize, Message
  <2> QED BY <2>1, <2>2, <2>3, <2>4, <2>5 DEF Next
<1> QED BY <1>1, Invariance, PTL DEF Spec, CancelledStaysIdle

(* No follow-up is run as two turns, however claims are handed on, given    *)
(* back, lost or recovered.                                                 *)
THEOREM FollowupsRunOnce == Spec => []RunOnce
<1>1. Inv => RunOnce
  BY DEF Inv, Data
<1> QED BY <1>1, Invariance, PTL

-----------------------------------------------------------------------------
(* The follow-up queue, as its clients know it.                            *)

(* A step that accepts, queues and runs nothing at most loses claims. *)
LEMMA AbandonStep ==
  ASSUME UNCHANGED <<accepted, pending, turns>>,
         {wakeClaim', claim', result'} \subseteq {wakeClaim, claim, result, Message}
  PROVE  [F!Next]_F!vars
<1>1. Ran' = Ran
  BY DEF Ran
<1>2. InHand' \subseteq InHand
  BY <1>1 DEF InHand
<1>3. InHand' = InHand \ (InHand \ InHand') /\ InHand \ InHand' \in SUBSET InHand
  BY <1>2
<1>4. F!Abandon
  BY <1>1, <1>3 DEF F!Abandon
<1> QED BY <1>4 DEF F!Next

(* One that takes the oldest follow-up into a free hand claims it.         *)
LEMMA ClaimStep ==
  ASSUME Inv, UNCHANGED <<accepted, turns>>, NEW i \in pending,
         \A n \in pending : i <= n, pending' = pending \ {i},
         InHand' = InHand \cup {i}
  PROVE  F!Next
<1>1. Ran' = Ran
  BY DEF Ran
<1>2. F!Claim
  BY <1>1 DEF F!Claim
<1> QED BY <1>2 DEF F!Next

(* finish_turn claims for a finalizer that holds nothing yet. *)
LEMMA FinishClaims ==
  ASSUME Inv, fin = "finish", UNCHANGED <<accepted, turns, claim, wakeClaim>>,
         result' \in pending, pending' = pending \ {result'}, \A n \in pending : result' <= n
  PROVE  F!Next
<1>1. Ran' = Ran
  BY DEF Ran
<1>2. result = Message /\ result' # Message /\ result' \notin Ran
  BY DEF Inv, Control, Finalizing, Data, Queued, TypeOK, Item, Message
<1>3. InHand' = InHand \cup {result'}
  BY <1>1, <1>2 DEF InHand
<1> QED BY <1>3, ClaimStep

(* take_queued_message claims for a wakeup that holds nothing yet. *)
LEMMA TakeClaims ==
  ASSUME Inv, wake \in {"take", "takeCancelled"}, NEW next, TakeOldest(next)
  PROVE  [F!Next]_F!vars
<1>1. UNCHANGED <<accepted, turns, claim, result>> /\ Ran' = Ran
  BY DEF TakeOldest, Ran
<1>2. CASE EndWakeup /\ pending' = pending
  BY <1>1, <1>2, AbandonStep DEF EndWakeup
<1>3. CASE wakeClaim' \in pending /\ pending' = pending \ {wakeClaim'}
           /\ \A n \in pending : wakeClaim' <= n
  <2>1. wakeClaim = Message /\ wakeClaim' # Message /\ wakeClaim' \notin Ran
    BY <1>3 DEF Inv, Data, Claims, Queued, TypeOK, Item, Message
  <2>2. InHand' = InHand \cup {wakeClaim'}
    BY <1>1, <2>1 DEF InHand
  <2> QED BY <1>1, <1>3, <2>2, ClaimStep
<1> QED BY <1>2, <1>3, TakeOldestTakes DEF Inv

(* release_queued_message returns the claim of the turn. *)
LEMMA ReleaseReturns ==
  ASSUME Inv, task = "release", pending' = pending \cup {claim}, claim' = Message,
         UNCHANGED <<accepted, turns, wakeClaim>>, result' \in {result, Message}
  PROVE  F!Next
<1>1. Ran' = Ran
  BY DEF Ran
<1>2. result = Message /\ wakeClaim = Message /\ claim # Message /\ claim \notin Ran
  BY DEF Inv, Control, Finalizing, Seen, WakeHolds, Data, Claims
<1>3. claim \in InHand /\ InHand' = InHand \ {claim}
  BY <1>1, <1>2 DEF InHand
<1>4. F!Return
  BY <1>1, <1>3 DEF F!Return
<1> QED BY <1>4 DEF F!Next

(* Recording the message of a claim executes it. *)
LEMMA RecordExecutes == Inv /\ RecordMessage => [F!Next]_F!vars
<1> SUFFICES ASSUME Inv, RecordMessage PROVE [F!Next]_F!vars
  OBVIOUS
<1>1. CASE claim = Message
  BY <1>1, AbandonStep DEF RecordMessage
<1>2. CASE claim # Message
  <2>1. claim \in Item /\ claim \notin Ran
    BY <1>2 DEF Inv, RecordMessage, Data, Claims, TypeOK
  <2>2. Ran' = Ran \cup {claim}
    BY <1>2, <2>1, RanAppend DEF Inv, RecordMessage, Ran, TypeOK
  <2>3. claim \in InHand /\ InHand' = InHand \ {claim}
    BY <1>2, <2>1, <2>2 DEF RecordMessage, InHand
  <2>4. F!Execute
    BY <2>2, <2>3 DEF RecordMessage, F!Execute
  <2> QED BY <2>4 DEF F!Next
<1> QED BY <1>1, <1>2

(* The queue stays below its limit, for the numbers of follow-ups do. *)
LEMMA QueueEnqueues == Inv /\ QueueStores => F!Next
<1> SUFFICES ASSUME Inv, QueueStores PROVE F!Next
  OBVIOUS
<1>1. pending \in SUBSET (1 .. accepted) /\ accepted \in Nat /\ accepted < MaxItem
  BY DEF Inv, Data, Queued, TypeOK, QueueStores
<1>2. IsFiniteSet(1 .. accepted) /\ Cardinality(1 .. accepted) = accepted
  BY <1>1, FS_Interval
<1>3. Cardinality(pending) <= accepted /\ Cardinality(pending) \in Nat
  BY <1>1, <1>2, FS_Subset, FS_CardinalityType
<1>4. Ran' = Ran /\ InHand' = InHand
  BY DEF QueueStores, Ran, InHand
<1>5. Cardinality(pending) < MaxItem + 1
  BY <1>1, <1>3, DaemonAssumption DEF DaemonAssumption
<1>6. accepted' = accepted + 1 /\ pending' = pending \cup {accepted'}
  BY DEF QueueStores
<1>7. F!Cardinality(pending) = Cardinality(pending)
  BY DEF F!Cardinality, Cardinality
<1>8. F!Enqueue
  BY <1>4, <1>5, <1>6, <1>7 DEF F!Enqueue
<1> QED BY <1>8 DEF F!Next

(* Every step is one of the queue, or does not touch it. *)
LEMMA StepImplements == Inv /\ [Next]_vars => [F!Next]_F!vars
<1> SUFFICES ASSUME Inv, [Next]_vars PROVE [F!Next]_F!vars
  OBVIOUS
<1>1. CASE RecordMessage
  BY <1>1, RecordExecutes
<1>2. CASE ReleaseClaim \/ ReleaseUnheard
  BY <1>2, ReleaseReturns DEF ReleaseClaim, ReleaseUnheard, StoreUp, Message,
      Spend, EndTask
<1>3. ASSUME RunTask, ~RecordMessage, ~ReleaseClaim PROVE [F!Next]_F!vars
  BY <1>3, AbandonStep DEF RunTask, BeginTurn, MarkRunning, AskPermission,
      MarkBlocked, PermissionGiven, EndOfTurn, SetupFails, TurnError,
      CancelRecorded, ReleaseFails, NextTurn, LastTurn, Joined, Correct, Stopped,
      StoreUp, Finalize, EndTask, Message
<1>4. CASE Finish \/ FinishUnheard
  BY <1>4, FinishTurnTakes, FinishClaims, AbandonStep
     DEF Finish, FinishUnheard, StoreUp, Spend, Inv, TypeOK
<1>5. ASSUME Finalizer, ~Finish PROVE [F!Next]_F!vars
  BY <1>5, AbandonStep DEF Finalizer, SaveSession, ExtractMemory, LoadEvents,
      FinalizeRaw, FinishRecovered, StoreUp, Message
<1>6. CASE WakeTakes \/ WakeTakesUnheard
  BY <1>6, TakeClaims DEF WakeTakes, WakeTakesUnheard
<1>7. ASSUME Wakeup, ~WakeTakes, ~WakeTakesUnheard PROVE [F!Next]_F!vars
  BY <1>7, AbandonStep DEF Wakeup, WakeLocks, WakeChecks, WakeLoads, WakeBusy,
      WakeStarts, WakeFails, WakeReloads, WakeLost, Closing, EndWakeup, StartTask,
      Message
<1>8. CASE QueueStores
  BY <1>8, QueueEnqueues
<1>9. CASE CancelsTask \/ ShutdownCancels
  BY <1>9, CancelTaskClaims, AbandonStep DEF CancelsTask, ShutdownCancels, Inv
<1>10. ASSUME Request \/ Handler, ~QueueStores, ~CancelsTask PROVE [F!Next]_F!vars
  BY <1>10, AbandonStep DEF Request, Handler, QueueLocks, ContinueLocks,
      CancelLocks, ResolvePermission, QueueRecords, QueueReplies, ContinueLoads,
      ContinueLoadsSession, ContinueStarts, ContinueRefuses, CancelsIdle,
      CancelPublishes, CancelReplies, AnswerRecords, AnswerMarksRunning, Locks,
      Closing, Spend, ScheduleWakeup, Unlocks, Active, StartTask, Message
<1>11. CASE EngineDies \/ EngineRestarts \/ Shutdown \/ ShutdownCloses \/ UNCHANGED vars
  BY <1>11, AbandonStep DEF EngineDies, EngineRestarts, Shutdown, ShutdownCloses,
      Spend, CancelWakeup, EndWakeup, Message
<1> QED BY <1>1, <1>2, <1>3, <1>4, <1>5, <1>6, <1>7, <1>8, <1>9, <1>10, <1>11
        DEF Next, RunTask, Finalizer, Wakeup, Handler

(* The daemon implements the queue: every step of wakeup, turn, finalizer   *)
(* and handlers enqueues, claims the oldest, returns, runs or abandons.     *)
THEOREM ImplementsQueue == Spec => FollowupQueueSpec
<1>1. Init => F!Init
  BY DEF Init, F!Init, InHand, Ran, Message
<1> QED BY <1>1, StepImplements, Invariance, PTL DEF Spec, FollowupQueueSpec, F!Spec

-----------------------------------------------------------------------------
(* Nothing is stranded while nobody interferes.                            *)

(* Interference shows in the budget, for good. *)
LEMMA StaysUndisturbed ==
  ASSUME TypeOK, Spent, [Next]_vars
  PROVE  /\ Spent'
         /\ Undisturbed' => Undisturbed /\ \A b \in {"cancel", "engine", "shutdown"} : ~Spend(b)
<1>1. Bound \in [Bounded -> Nat] /\ Bound' = Bound
  BY DaemonAssumption DEF Bound, Bounded, DaemonAssumption
<1> QED BY SMTT(60), <1>1, Spending DEF TypeOK, Spent, Spend, Undisturbed, Bounded

(* Claims that stay in a hand, or have run, are kept. *)
LEMMA KeptUnmoved ==
  ASSUME FollowupsKept, UNCHANGED <<accepted, pending, turns>>,
         \A c \in {wakeClaim, claim, result} :
           c \in Ran \cup {Message, wakeClaim', claim', result'}
  PROVE  FollowupsKept'
BY DEF FollowupsKept, InHand, Ran

(* One that leaves the queue for a hand is kept too. *)
LEMMA KeptTaken ==
  ASSUME FollowupsKept, UNCHANGED <<accepted, turns>>, NEW i,
         i # Message, i \in {wakeClaim', claim', result'}, pending' = pending \ {i},
         \A c \in {wakeClaim, claim, result} : c \in {Message, wakeClaim', claim', result'}
  PROVE  FollowupsKept'
BY DEF FollowupsKept, InHand, Ran

(* No task is cancelled and the engine stays up. *)
LEMMA PeaceKept ==
  ASSUME Inv, Spent, Peace, [Next]_vars
  PROVE  Peace'
<1> SUFFICES ASSUME Undisturbed'
             PROVE  /\ engine' /\ phase' = "open" /\ cancel' = "none" /\ ~cancelling'
                    /\ fin' # "recover" /\ wake' \notin {"takeCancelled", "lost"}
                    /\ task' \in {"turn", "ask", "wait", "finalize"} => claim' \in Ran' \cup {Message}
  BY DEF Peace
<1>1. /\ engine /\ phase = "open" /\ cancel = "none" /\ ~cancelling /\ fin # "recover"
      /\ wake \notin {"takeCancelled", "lost"}
      /\ task \in {"turn", "ask", "wait", "finalize"} => claim \in Ran \cup {Message}
      /\ ~Spend("cancel") /\ ~Spend("engine") /\ ~Spend("shutdown")
  BY StaysUndisturbed DEF Inv, Peace
<1>2. CASE RecordMessage
  <2>1. claim # Message => Ran' = Ran \cup {claim}
    BY <1>2, RanAppend DEF Inv, TypeOK, RecordMessage, Ran
  <2> QED BY <1>1, <1>2, <2>1 DEF RecordMessage
<1>3. ASSUME ~RecordMessage PROVE Ran' = Ran
  <2>1. UNCHANGED turns
    BY SMTT(60), <1>3 DEF Next, RunTask, Finalizer, Wakeup, Request, Handler,
        FinishUnheard, ReleaseUnheard, EngineDies, EngineRestarts, Shutdown,
        ShutdownCancels, ShutdownCloses, BeginTurn, MarkRunning, AskPermission,
        MarkBlocked, PermissionGiven, EndOfTurn, SetupFails, TurnError,
        CancelRecorded, ReleaseClaim, ReleaseFails, NextTurn, LastTurn, Joined,
        Correct, Stopped, SaveSession, ExtractMemory, LoadEvents, Finish,
        FinalizeRaw, FinishRecovered, WakeLocks, WakeChecks, WakeLoads,
        WakeBusy, WakeTakes, WakeStarts, WakeFails, WakeReloads,
        WakeTakesUnheard, WakeLost, QueueLocks, ContinueLocks, CancelLocks,
        ResolvePermission, QueueStores, QueueRecords, QueueReplies,
        ContinueLoads, ContinueLoadsSession, ContinueStarts, ContinueRefuses,
        CancelsTask, CancelsIdle, CancelPublishes, CancelReplies, AnswerRecords,
        AnswerMarksRunning, Spend, FinishTurn, EndTask, CancelWakeup,
        CancelTask, StoreUp, Finalize, Message, Closing, EndWakeup, TakeOldest,
        StartTask, Locks, ScheduleWakeup, Unlocks, Active
  <2> QED BY <2>1 DEF Ran
<1> USE DEF Inv, Control, Cancelling, Dying
<1>4. ASSUME RunTask, ~RecordMessage PROVE Peace'
  BY <1>1, <1>3, <1>4 DEF RunTask, BeginTurn, MarkRunning, AskPermission,
      MarkBlocked, PermissionGiven, EndOfTurn, SetupFails, TurnError,
      CancelRecorded, ReleaseClaim, ReleaseFails, NextTurn, LastTurn, Joined,
      Correct, Stopped, StoreUp, Finalize, Message, EndTask, Peace, Finalizing
<1>5. ASSUME Finalizer \/ Wakeup, ~RecordMessage PROVE Peace'
  BY <1>1, <1>3, <1>5 DEF Finalizer, Wakeup, SaveSession, ExtractMemory,
      LoadEvents, Finish, FinalizeRaw, FinishRecovered, WakeLocks, WakeChecks,
      WakeLoads, WakeBusy, WakeTakes, WakeStarts, WakeFails, WakeReloads,
      WakeTakesUnheard, WakeLost, StoreUp, Message, Closing, EndWakeup,
      TakeOldest, StartTask, Peace
<1>6. ASSUME Request \/ Handler, ~RecordMessage PROVE Peace'
  BY <1>1, <1>3, <1>6 DEF Request, Handler, QueueLocks, ContinueLocks,
      CancelLocks, ResolvePermission, QueueStores, QueueRecords, QueueReplies,
      ContinueLoads, ContinueLoadsSession, ContinueStarts, ContinueRefuses,
      CancelsTask, CancelsIdle, CancelPublishes, CancelReplies, AnswerRecords,
      AnswerMarksRunning, Locks, Closing, ScheduleWakeup, Unlocks, Active,
      StartTask, Message, CancelTask, EndTask, Finalize, Peace
<1>7. CASE UNCHANGED vars
  BY <1>1, <1>7 DEF Peace, Ran
<1>8. CASE FinishUnheard \/ ReleaseUnheard \/ EngineDies \/ EngineRestarts \/ Shutdown
           \/ ShutdownCancels \/ ShutdownCloses
  BY <1>1, <1>8 DEF FinishUnheard, ReleaseUnheard, EngineDies, EngineRestarts,
      Shutdown, ShutdownCancels, ShutdownCloses, CancelWakeup, EndWakeup, Message
<1> QED BY <1>2, <1>4, <1>5, <1>6, <1>7, <1>8 DEF Next, Peace

(* A returned claim is in the queue again. *)
LEMMA KeptByRelease ==
  ASSUME Inv, FollowupsKept, task = "release", pending' = pending \cup {claim},
         UNCHANGED <<accepted, turns, wakeClaim, result>>
  PROVE  FollowupsKept'
BY DEF FollowupsKept, InHand, Ran

(* A recorded one has run. *)
LEMMA KeptByRecord ==
  ASSUME Inv, FollowupsKept, RecordMessage
  PROVE  FollowupsKept'
<1>1. claim # Message => Ran' = Ran \cup {claim}
  BY RanAppend DEF Inv, TypeOK, RecordMessage, Ran
<1>2. claim = Message => Ran' = Ran
  BY DEF RecordMessage, Ran
<1> QED BY <1>1, <1>2 DEF RecordMessage, FollowupsKept, InHand

(* A new one is in the queue. *)
LEMMA KeptByQueue ==
  ASSUME Inv, FollowupsKept, QueueStores
  PROVE  FollowupsKept'
<1>1. accepted \in Nat /\ 1 .. accepted' = (1 .. accepted) \cup {accepted'}
  BY DEF Inv, TypeOK, QueueStores
<1>2. Ran' = Ran /\ InHand' = InHand
  BY DEF QueueStores, Ran, InHand
<1> QED BY <1>1, <1>2 DEF QueueStores, FollowupsKept

(* So none is stranded in a step that does not disturb. *)
LEMMA StrandedKept ==
  ASSUME Inv, Spent, Peace, NoFollowupStranded, [Next]_vars
  PROVE  NoFollowupStranded'
<1> SUFFICES ASSUME Undisturbed' PROVE FollowupsKept'
  BY DEF NoFollowupStranded
<1>1. /\ engine /\ phase = "open" /\ cancel = "none" /\ ~cancelling /\ fin # "recover"
      /\ wake \notin {"takeCancelled", "lost"}
      /\ task \in {"turn", "ask", "wait", "finalize"} => claim \in Ran \cup {Message}
      /\ ~Spend("cancel") /\ ~Spend("engine") /\ ~Spend("shutdown")
      /\ FollowupsKept
  BY StaysUndisturbed DEF Inv, Peace, NoFollowupStranded
<1>2. CASE RecordMessage
  BY <1>1, <1>2, KeptByRecord
<1>3. CASE ReleaseClaim
  BY <1>1, <1>3, KeptByRelease DEF ReleaseClaim
<1>4. CASE NextTurn
  BY <1>1, <1>4, KeptUnmoved DEF NextTurn
<1> USE DEF Inv, Control, Cancelling, Dying
<1>5. ASSUME RunTask, ~RecordMessage, ~ReleaseClaim, ~NextTurn PROVE FollowupsKept'
  BY <1>1, <1>5, KeptUnmoved
     DEF RunTask, BeginTurn, MarkRunning, AskPermission, MarkBlocked,
         PermissionGiven, EndOfTurn, SetupFails, TurnError, CancelRecorded,
         ReleaseFails, LastTurn, Joined, Correct, Stopped, StoreUp, Finalize,
         EndTask, Message, Finalizing, Data, Claims
<1>6. CASE Finish
  <2>1. result = Message /\ UNCHANGED <<accepted, turns, claim, wakeClaim>>
    BY <1>6 DEF Finish, Finalizing
  <2>2. CASE pending' = pending /\ result' = result
    BY <1>1, <2>1, <2>2, KeptUnmoved
  <2>3. CASE result' \in pending /\ pending' = pending \ {result'}
    <3>1. result' # Message
      BY <2>3 DEF TypeOK, Item, Message
    <3> QED BY <1>1, <2>1, <2>3, <3>1, KeptTaken
  <2> QED BY <1>6, <2>2, <2>3, FinishTurnTakes DEF Finish, TypeOK
<1>7. ASSUME Finalizer, ~Finish PROVE FollowupsKept'
  BY <1>1, <1>7, KeptUnmoved DEF Finalizer, SaveSession, ExtractMemory,
      LoadEvents, FinalizeRaw, FinishRecovered, StoreUp, Message
<1>8. CASE WakeTakes
  <2>1. wakeClaim = Message /\ UNCHANGED <<accepted, turns, claim, result>>
    BY <1>8 DEF WakeTakes, TakeOldest, Data, Claims
  <2>2. CASE EndWakeup /\ pending' = pending
    BY <1>1, <2>1, <2>2, KeptUnmoved DEF EndWakeup
  <2>3. CASE wakeClaim' \in pending /\ pending' = pending \ {wakeClaim'}
    <3>1. wakeClaim' # Message
      BY <2>3 DEF TypeOK, Item, Message
    <3> QED BY <1>1, <2>1, <2>3, <3>1, KeptTaken
  <2> QED BY <1>8, <2>2, <2>3, TakeOldestTakes DEF WakeTakes
<1>9. CASE WakeStarts
  BY <1>1, <1>9, KeptUnmoved DEF WakeStarts, StartTask, Seen, WakeHolds, Finalizing
<1>10. ASSUME Wakeup, ~WakeTakes, ~WakeStarts PROVE FollowupsKept'
  BY <1>1, <1>10, KeptUnmoved
     DEF Wakeup, WakeLocks, WakeChecks, WakeLoads, WakeBusy, WakeFails,
         WakeReloads, WakeTakesUnheard, WakeLost, Closing, EndWakeup, Message,
         Data, Claims
<1>11. CASE QueueStores
  BY <1>1, <1>11, KeptByQueue
<1>12. ASSUME Request \/ Handler, ~QueueStores PROVE FollowupsKept'
  BY <1>1, <1>12, KeptUnmoved
     DEF Request, Handler, QueueLocks, ContinueLocks, CancelLocks,
         ResolvePermission, QueueRecords, QueueReplies, ContinueLoads,
         ContinueLoadsSession, ContinueStarts, ContinueRefuses, CancelsTask,
         CancelsIdle, CancelPublishes, CancelReplies, AnswerRecords,
         AnswerMarksRunning, Locks, Closing, ScheduleWakeup, Unlocks, Active,
         StartTask, Message, Seen, Finalizing
<1>13. CASE FinishUnheard \/ ReleaseUnheard \/ EngineDies \/ Shutdown
            \/ ShutdownCancels \/ ShutdownCloses
  BY <1>1, <1>13
     DEF FinishUnheard, ReleaseUnheard, EngineDies, Shutdown, ShutdownCancels,
         ShutdownCloses
<1>14. CASE EngineRestarts \/ UNCHANGED vars
  BY <1>1, <1>14, KeptUnmoved DEF EngineRestarts
<1> QED BY <1>2, <1>3, <1>4, <1>5, <1>6, <1>7, <1>8, <1>9, <1>10, <1>11, <1>12, <1>13, <1>14
        DEF Next, RunTask, Finalizer, Wakeup, Handler

(* Every accepted follow-up is queued, in the hands of somebody who will    *)
(* run it, or has run, while no task was cancelled, no engine failed and    *)
(* the daemon is not shut down: a failing turn, a refused profile and a     *)
(* busy checkout strand none.                                               *)
THEOREM NothingStranded == Spec => []NoFollowupStranded
<1>1. Init => Spent /\ Peace /\ NoFollowupStranded
  <2> SUFFICES ASSUME Init PROVE Spent /\ Peace /\ NoFollowupStranded
    OBVIOUS
  <2>1. Spent
    BY DaemonAssumption DEF Init, Spent, Bound, Bounded, DaemonAssumption
  <2>2. Peace /\ NoFollowupStranded
    BY DEF Init, Peace, NoFollowupStranded, FollowupsKept
  <2> QED BY <2>1, <2>2
<1>2. Inv /\ Spent /\ Peace /\ NoFollowupStranded /\ [Next]_vars
        => Spent' /\ Peace' /\ NoFollowupStranded'
  BY StaysUndisturbed, PeaceKept, StrandedKept DEF Inv
<1> QED BY <1>1, <1>2, Invariance, PTL DEF Spec

-----------------------------------------------------------------------------
(* A run at rest.                                                          *)

(* The bounds that the theorem below sets stay spent. *)
LEMMA OnceSpends ==
  ASSUME Inv, Once, [Next]_vars
  PROVE  /\ budget' = budget \/ (\E b \in {"continue", "cancel", "engine"} : Spend(b))
         /\ ~Spend("shutdown") /\ (cancel # "none" \/ cancelling => ~Spend("cancel"))
         /\ (Team => ~Spend("engine"))
         /\ budget'["shutdown"] = 0 /\ budget'["cancel"] <= 1
         /\ (budget["cancel"] = 0 => budget'["cancel"] = 0)
         /\ (budget["engine"] = 0 => budget'["engine"] = 0)
         /\ (Spend("cancel") => budget'["cancel"] = 0)
<1>1. budget \in [Bounded -> Nat] /\ TypeOK /\ (budget' = budget \/ \E b \in Bounded : Spend(b))
  BY Spending DEF Inv, TypeOK
<1> QED BY <1>1 DEF Once, Spend, Bounded

(* What the theorem assumes of the run stays so. *)
LEMMA OnceKept ==
  ASSUME Asks = FALSE, Inv, Once, [Next]_vars
  PROVE  Once'
<1> USE DEF Inv, Control, Cancelling, Dying, Seen, Once
<1>1. CASE RunTask
  BY <1>1 DEF RunTask, BeginTurn, MarkRunning, RecordMessage, AskPermission,
      MarkBlocked, PermissionGiven, EndOfTurn, SetupFails, TurnError,
      CancelRecorded, ReleaseClaim, ReleaseFails, NextTurn, LastTurn, Joined,
      Correct, Stopped, StoreUp, Message, Finalize, EndTask
<1>2. CASE Finalizer
  BY <1>2 DEF Finalizer, SaveSession, ExtractMemory, LoadEvents, Finish,
      FinalizeRaw, FinishRecovered, StoreUp, FinishTurn, Message
<1>3. CASE Wakeup
  BY <1>3, OnceSpends DEF Wakeup, WakeLocks, WakeChecks, WakeLoads, WakeBusy,
      WakeTakes, WakeStarts, WakeFails, WakeReloads, WakeTakesUnheard, WakeLost,
      Closing, EndWakeup, TakeOldest, StartTask, Message, WakeHolds
<1>4. CASE Request
  BY <1>4, OnceSpends DEF Request, QueueLocks, ContinueLocks, CancelLocks,
      ResolvePermission, Locks, Closing
<1>5. CASE Handler
  BY <1>5, OnceSpends DEF Handler, QueueStores, QueueRecords, QueueReplies,
      ContinueLoads, ContinueLoadsSession, ContinueStarts, ContinueRefuses,
      CancelsTask, CancelsIdle, CancelPublishes, CancelReplies, AnswerRecords,
      AnswerMarksRunning, Closing, ScheduleWakeup, Unlocks, Active, StartTask,
      Message, CancelTask, EndTask, Finalize
<1>6. CASE FinishUnheard
  BY <1>6, OnceSpends DEF FinishUnheard
<1>7. CASE ReleaseUnheard
  BY <1>7, OnceSpends DEF ReleaseUnheard
<1>8. CASE EngineDies
  BY <1>8, OnceSpends DEF EngineDies
<1>9. CASE EngineRestarts \/ Shutdown \/ ShutdownCancels \/ ShutdownCloses \/ UNCHANGED vars
  BY <1>9, OnceSpends DEF EngineRestarts, Shutdown, ShutdownCancels, ShutdownCloses
<1> QED BY <1>1, <1>2, <1>3, <1>4, <1>5, <1>6, <1>7, <1>8, <1>9 DEF Next

(* A step that ends the task leaves a final state. *)
LEMMA PublishedKept ==
  ASSUME Inv, Once, Published, [Next]_vars
  PROVE  Published'
<1> USE DEF Inv, Control, Finalizing, Cancelling, Dying, Seen, WakeHolds, Once, Published, Final, Active, Message
<1>1. CASE RunTask
  BY <1>1 DEF RunTask, BeginTurn, MarkRunning, RecordMessage, AskPermission,
      MarkBlocked, PermissionGiven, EndOfTurn, SetupFails, TurnError,
      CancelRecorded, ReleaseClaim, ReleaseFails, NextTurn, LastTurn, Joined,
      Correct, Stopped, StoreUp, Message, Finalize, EndTask
<1>2. CASE Finish \/ FinishUnheard
  <2>1. (meta' = effective /\ result' = result) \/ (effective = "done" /\ result' # Message)
    BY <1>2, FinishTurnFinal DEF Finish, FinishUnheard
  <2>2. /\ fin = "finish" /\ result = Message /\ fin' \in {"ended", "recover"}
        /\ UNCHANGED <<task, effective, state>>
        /\ cancelling' = cancelling
    BY <1>2 DEF Finish, FinishUnheard
  <2>3. CASE meta' = effective /\ result' = result
    BY <2>2, <2>3
  <2>4. CASE effective = "done" /\ result' # Message
    BY <2>2, <2>4
  <2> QED BY <2>1, <2>3, <2>4
<1>3. ASSUME Finalizer, ~Finish PROVE Published'
  BY <1>3 DEF Finalizer, SaveSession, ExtractMemory, LoadEvents, FinalizeRaw,
      FinishRecovered, StoreUp, Message
<1>4. CASE Wakeup
  BY <1>4 DEF Wakeup, WakeLocks, WakeChecks, WakeLoads, WakeBusy, WakeTakes,
      WakeStarts, WakeFails, WakeReloads, WakeTakesUnheard, WakeLost, Closing,
      EndWakeup, TakeOldest, StartTask, Message, TypeOK
<1>5. CASE Request \/ Handler
  BY <1>5 DEF Request, Handler, QueueLocks, ContinueLocks, CancelLocks,
      ResolvePermission, QueueStores, QueueRecords, QueueReplies, ContinueLoads,
      ContinueLoadsSession, ContinueStarts, ContinueRefuses, CancelsTask,
      CancelsIdle, CancelPublishes, CancelReplies, AnswerRecords,
      AnswerMarksRunning, Locks, Closing, ScheduleWakeup, Unlocks, Active,
      StartTask, Message, CancelTask, EndTask, Finalize
<1>6. CASE ReleaseUnheard \/ EngineDies
  BY <1>6, OnceSpends DEF ReleaseUnheard, EngineDies, EndTask, Message
<1>7. CASE EngineRestarts \/ Shutdown \/ ShutdownCancels \/ ShutdownCloses \/ UNCHANGED vars
  BY <1>7, OnceSpends DEF EngineRestarts, Shutdown, ShutdownCancels, ShutdownCloses
<1> QED BY <1>1, <1>2, <1>3, <1>4, <1>5, <1>6, <1>7 DEF Next, Finalizer

(* A run at which nobody works any more has a final state: done, failed or  *)
(* cancelled.  It takes a run that asks for no permission (the answer is    *)
(* recorded after the turn went on), is cancelled once at most (a second    *)
(* cancellation keeps the first from correcting the state), and is not shut *)
(* down; and, of a team, an engine that does not fail (the claim of a turn  *)
(* that did not start cannot be released).                                  *)
THEOREM RestIsFinal ==
  ASSUME Asks = FALSE, MaxCancel <= 1, MaxShutdown = 0, Team => MaxEngine = 0
  PROVE  Spec => []RestingStateIsFinal
<1>1. Init => Once /\ Published
  BY DaemonAssumption
     DEF Init, Once, Published, Final, Active, Message, Bound, Bounded, DaemonAssumption
<1>2. Inv /\ Once /\ Published /\ [Next]_vars => Once' /\ Published'
  BY OnceKept, PublishedKept
<1>3. Published => RestingStateIsFinal
  BY DEF Published, RestingStateIsFinal, Quiet
<1> QED BY <1>1, <1>2, <1>3, Invariance, PTL DEF Spec
=============================================================================
