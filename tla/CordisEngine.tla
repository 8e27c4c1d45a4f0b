---------------------------- MODULE CordisEngine ----------------------------
(***************************************************************************)
(* The engine through which every agent, provider, tool, session and       *)
(* memory operation is dispatched: its Python client                       *)
(* (core/cordis_engine.py), the two pipes, and the Node process at their   *)
(* other end (cordis_runtime/engine.mjs).                                  *)
(*                                                                         *)
(* A caller enters call() or stream() with a callback.  Its request goes   *)
(* through the process, which asks for the callback once; a stream's items *)
(* go through the process one at a time, each acknowledged by the consumer *)
(* before the callback goes on.  The caller, the callback's task, the      *)
(* reader of the pipe, aclose() and configure() are coroutines of one      *)
(* event loop, and the process runs beside them: an action runs from one   *)
(* await to the next, or is one frame handled by one of the two sides.     *)
(***************************************************************************)
EXTENDS Integers, Sequences, FiniteSets

CONSTANTS
  Op,            \* calls of call() and stream(), each made once
  Streams,       \* those of stream()
  MaxOperations, \* MAX_ENGINE_OPERATIONS, the same number on both sides
  MaxItem,       \* bound: items a stream's callback yields
  MaxDisturb     \* bound: cancelled callers, a process that dies, plugins that
                 \* change, components that are configured

ASSUME CordisEngineAssumption ==
  Streams \subseteq Op /\ MaxOperations \in Nat /\ MaxItem \in Nat /\ MaxDisturb \in Nat

Control == {"initialize", "configure", "close"}
Nobody  == "nobody"

VARIABLES
  state,       \* _state of the client
  failure,     \* _failure is set
  lock,        \* who holds _lifecycle_lock
  operations,  \* the operations the client has registered
  op,          \* where caller, callback and queue of each operation are
  control,     \* the futures of control requests
  closer,      \* where aclose() stands, and the callbacks it waits for
  alive,       \* the Node process runs
  node,        \* the process: initialized, its component enabled, its operations
  toNode, toPython,  \* the pipes
  reading,     \* _read_frames runs
  changed,     \* the code or the grants of a loaded plugin changed
  budget       \* what is left of MaxDisturb

clientVars == <<state, failure, lock, control, closer>>
nodeVars   == <<alive, node, toNode>>
readerVars == <<toPython, reading>>
vars == <<clientVars, operations, op, nodeVars, readerVars, changed, budget>>

Disturb == budget > 0 /\ budget' = budget - 1

Frame(type, of)       == [type |-> type, of |-> of, sequence |-> 0]
Numbered(type, of, n) == [Frame(type, of) EXCEPT !.sequence = n]

Done    == [type |-> "done", sequence |-> 0]      \* entries of an operation's queue
Item(n) == [type |-> "item", sequence |-> n]
Nothing == -1                                     \* operation.value is None

New == [pc |-> "out", outcome |-> "none", cut |-> FALSE,
        task |-> "none", ended |-> "none", error |-> "none",
        queue |-> <<>>, sequence |-> 0, value |-> Nothing,
        dispatched |-> FALSE, acked |-> FALSE, got |-> <<>>]

(* The process ends, with what it has not read. *)
NoNode == [open |-> FALSE, enabled |-> TRUE, ops |-> {}, waiting |-> {}, sequence |-> [o \in Op |-> 0]]
Dies   == alive' = FALSE /\ toNode' = <<>> /\ node' = NoNode

Init ==
  /\ state = "new" /\ failure = FALSE /\ lock = Nobody /\ operations = {}
  /\ op = [o \in Op |-> New]
  /\ control = [k \in Control |-> "none"]
  /\ closer = [pc |-> "out", joins |-> {}]
  /\ alive = FALSE /\ node = NoNode /\ toNode = <<>> /\ toPython = <<>> /\ reading = FALSE
  /\ changed = FALSE /\ budget = MaxDisturb

-----------------------------------------------------------------------------
(* What several parts of the client do.                                    *)

Running == state = "running" /\ alive
CanSend == state \notin {"failed", "closed"}
Send(f) == toNode' = IF CanSend /\ alive THEN Append(toNode, f) ELSE toNode  \* lost at a dead process

(* task.cancel(). *)
Cancelled(task) == IF task \in {"check", "run", "ack"} THEN "stop" ELSE task

(* Mutants: a failure does not tell the error, or does not wake the        *)
(* consumer.                                                               *)
StruckSilently(x)   == [x EXCEPT !.dispatched = TRUE, !.task = Cancelled(@), !.queue = <<Done>>]
StruckUnanswered(x) == [x EXCEPT !.dispatched = TRUE, !.error = "engine", !.task = Cancelled(@), !.queue = <<>>]

(* What _fail does to a registered operation. *)
Struck(x) == [x EXCEPT !.dispatched = TRUE, !.error = "engine", !.task = Cancelled(@), !.queue = <<Done>>]

(* _fail, while the operations are at f: a failed or closed engine stays   *)
(* what it is; otherwise every control request and every operation gets    *)
(* the error, and the process is terminated.                               *)
Fail(f) ==
  IF state \in {"failed", "closed"}
  THEN op' = f /\ UNCHANGED <<state, failure, control, nodeVars>>
  ELSE /\ state' = "failed" /\ failure' = TRUE /\ Dies
       /\ control' = [k \in Control |-> IF control[k] = "waiting" THEN "failed" ELSE control[k]]
       /\ op' = [o \in Op |-> IF o \in operations THEN Struck(f[o]) ELSE f[o]]

(* _send: the operations are at sent when it returns, and at raised when it *)
(* raises: the engine has ended, or the process has and it is noticed, or   *)
(* its pipe is broken, which fails the engine.                             *)
Write(f, sent, raised) ==
  \/ /\ CanSend /\ op' = sent /\ Send(f)
     /\ UNCHANGED <<state, failure, control, alive, node>>
  \/ /\ ~(CanSend /\ alive) /\ op' = raised
     /\ UNCHANGED <<state, failure, control, nodeVars>>
  \/ CanSend /\ ~alive /\ Fail(raised)

(* "raise self._failure", after _fail: an engine that was closed without a *)
(* failure has nothing to raise.                                           *)
Raised == IF CanSend \/ failure THEN "engine" ELSE "typeerror"

(* The caller is gone; nothing is kept of it but a callback that is left.  *)
Past    == [New EXCEPT !.pc = "end"]
Ends(x) == IF x.task \in {"none", "gone"} THEN Past
           ELSE [x EXCEPT !.pc = "end", !.queue = <<>>, !.error = "none", !.got = <<>>]

(* Mutant: the operation stays registered when its caller leaves. *)
PoppedNever(o) == operations' = operations

(* The caller leaves with an outcome: _release takes the operation out of  *)
(* _operations before it does anything else.                               *)
Popped(o) == operations' = operations \ {o}
Leaves(x, outcome) == [x EXCEPT !.pc = "release", !.outcome = outcome]

-----------------------------------------------------------------------------
(* The caller: start, _invoke, and the consumer's side of call and stream. *)

(* start(), by the first caller: the process is spawned and initialized. *)
Start(o) ==
  /\ op[o].pc = "out" /\ lock = Nobody /\ state = "new"
  /\ lock' = o /\ state' = "starting" /\ alive' = TRUE /\ reading' = TRUE
  /\ op' = [op EXCEPT ![o].pc = "starting"]
  /\ control' = [control EXCEPT !["initialize"] = "waiting"]
  /\ toNode' = Append(toNode, Frame("initialize", "initialize"))
  /\ UNCHANGED <<failure, closer, operations, node, toPython, changed, budget>>

(* start(), by the others, once nobody holds the lock. *)
Started(o) ==
  /\ op[o].pc = "out" /\ lock = Nobody /\ state # "new"
  /\ op' = [op EXCEPT ![o] = IF Running THEN [@ EXCEPT !.pc = "verify"] ELSE Ends(@)]
  /\ UNCHANGED <<clientVars, operations, nodeVars, readerVars, changed, budget>>

(* The process is initialized.  A failure that came between its answer and *)
(* this step is overwritten: then "running" says nothing of the process.   *)
StartEnds(o) ==
  /\ op[o].pc = "starting" /\ control["initialize"] = "accepted"
  /\ state' = "running" /\ lock' = Nobody
  /\ op' = [op EXCEPT ![o].pc = "verify"]
  /\ UNCHANGED <<failure, control, closer, operations, nodeVars, readerVars, changed, budget>>

(* It failed or did not answer in time: start() joins the process. *)
StartFails(o) ==
  /\ op[o].pc = "starting" /\ control["initialize"] \in {"refused", "failed"}
  /\ Fail([op EXCEPT ![o] = Ends(@)])
  /\ lock' = Nobody /\ reading' = FALSE
  /\ UNCHANGED <<closer, operations, toPython, changed, budget>>

(* A cancelled first caller takes the engine with it. *)
StartCancelled(o) ==
  /\ op[o].pc = "starting" /\ Disturb
  /\ Fail([op EXCEPT ![o] = Ends(@)])
  /\ lock' = Nobody /\ reading' = FALSE
  /\ UNCHANGED <<closer, operations, toPython, changed>>

(* verify_plugins has found the loaded code as it was granted: _invoke     *)
(* registers the operation and asks for it, unless too many are active or  *)
(* the engine has ended.                                                   *)
Invoke(o) ==
  /\ op[o].pc = "verify" /\ ~changed
  /\ IF Cardinality(operations) < MaxOperations
     THEN Write(Frame("invoke", o), [op EXCEPT ![o].pc = "wait"], [op EXCEPT ![o] = Ends(@)])
     ELSE op' = [op EXCEPT ![o] = Ends(@)] /\ UNCHANGED <<state, failure, control, nodeVars>>
  /\ operations' = IF op'[o].pc = "wait" THEN operations \union {o} ELSE operations
  /\ UNCHANGED <<lock, closer, readerVars, changed, budget>>

(* A changed or revoked plugin invalidates the engine. *)
InvokeRevoked(o) ==
  /\ op[o].pc = "verify" /\ changed
  /\ Fail([op EXCEPT ![o] = Ends(@)])
  /\ UNCHANGED <<lock, closer, operations, readerVars, changed, budget>>

(* The process has not asked for the callback in time. *)
DispatchTimeout(o) ==
  /\ op[o].pc = "wait" /\ ~op[o].dispatched
  /\ Fail([op EXCEPT ![o] = Leaves(@, Raised)]) /\ Popped(o)
  /\ UNCHANGED <<lock, closer, readerVars, changed, budget>>

Queued(o) == op[o].pc = "wait" /\ op[o].dispatched /\ op[o].queue # <<>>

(* The consumer takes the end of its operation from the queue. *)
TakeDone(o) ==
  /\ Queued(o) /\ Head(op[o].queue) = Done
  /\ op' = [op EXCEPT ![o] = Leaves([op[o] EXCEPT !.queue = Tail(@)],
                                    IF op[o].error = "none" THEN "ok" ELSE op[o].error)]
  /\ Popped(o)
  /\ UNCHANGED <<clientVars, nodeVars, readerVars, changed, budget>>

(* Or an item, whose value is where the callback left it.  Only the item   *)
(* the callback stands at is accepted.                                     *)
TakeItem(o) ==
  /\ Queued(o) /\ Head(op[o].queue) # Done
  /\ IF Head(op[o].queue) = Item(op[o].sequence)
     THEN /\ op' = [op EXCEPT ![o].queue = Tail(@), ![o].got = Append(@, op[o].value), ![o].pc = "hold"]
          /\ UNCHANGED operations
     ELSE op' = [op EXCEPT ![o] = Leaves(@, "engine")] /\ Popped(o)
  /\ UNCHANGED <<clientVars, nodeVars, readerVars, changed, budget>>

(* It asks for the next item. *)
Acknowledge(o) ==
  /\ op[o].pc = "hold"
  /\ Write(Numbered("ack", o, op[o].sequence),
           [op EXCEPT ![o].pc = "wait"], [op EXCEPT ![o] = Leaves(@, "engine")])
  /\ IF op'[o].pc = "wait" THEN UNCHANGED operations ELSE Popped(o)
  /\ UNCHANGED <<lock, closer, readerVars, changed, budget>>

(* Or it closes the stream. *)
CloseStream(o) ==
  /\ op[o].pc = "hold"
  /\ op' = [op EXCEPT ![o] = Leaves(@, "closed")] /\ Popped(o)
  /\ UNCHANGED <<clientVars, nodeVars, readerVars, changed, budget>>

Left(o) == [op EXCEPT ![o] = IF op[o].task \in {"none", "gone"} THEN Ends(op[o])
                             ELSE [op[o] EXCEPT !.task = Cancelled(op[o].task), !.pc = "join"]]

(* Mutant: the process is not told of an operation it has not dispatched. *)
ReleaseDispatched(o) ==
  /\ op[o].pc = "release"
  /\ IF state = "running" /\ op[o].dispatched THEN Write(Frame("cancel", o), Left(o), Left(o))
     ELSE op' = Left(o) /\ UNCHANGED <<state, failure, control, nodeVars>>
  /\ UNCHANGED <<lock, closer, operations, readerVars, changed, budget>>

(* _release: the process drops the operation, the callback is cancelled,   *)
(* and its end awaited.                                                    *)
Release(o) ==
  /\ op[o].pc = "release"
  /\ IF state = "running" THEN Write(Frame("cancel", o), Left(o), Left(o))
     ELSE op' = Left(o) /\ UNCHANGED <<state, failure, control, nodeVars>>
  /\ UNCHANGED <<lock, closer, operations, readerVars, changed, budget>>

Joined(o) ==
  /\ op[o].pc = "join" /\ op[o].task = "gone"
  /\ op' = [op EXCEPT ![o] = Ends(@)]
  /\ UNCHANGED <<clientVars, operations, nodeVars, readerVars, changed, budget>>

(* The caller is cancelled.  Before it is registered it just ends; inside  *)
(* _release the cancellation cuts the release short: while the frame is    *)
(* sent, with or without the frame, or while the callback's end is awaited.*)
CancelCaller(o) ==
  /\ Disturb
  /\ \/ /\ op[o].pc = "verify"
        /\ op' = [op EXCEPT ![o] = Ends(@)]
        /\ UNCHANGED <<operations, toNode>>
     \/ /\ op[o].pc \in {"wait", "hold"}
        /\ op' = [op EXCEPT ![o] = Leaves(@, "cancelled")] /\ Popped(o)
        /\ UNCHANGED toNode
     \/ /\ op[o].pc \in {"release", "join"}
        /\ op' = [op EXCEPT ![o] = Ends([op[o] EXCEPT !.cut = TRUE])]
        /\ \/ UNCHANGED toNode
           \/ op[o].pc = "release" /\ Running /\ toNode' = Append(toNode, Frame("cancel", o))
        /\ UNCHANGED operations
  /\ UNCHANGED <<clientVars, alive, node, readerVars, changed>>

-----------------------------------------------------------------------------
(* The callback's task: _run_handler.                                      *)

(* verify_plugins, before the callback is called. *)
Checked(o) ==
  /\ op[o].task = "check" /\ ~changed
  /\ op' = [op EXCEPT ![o].task = "run"]
  /\ UNCHANGED <<clientVars, operations, nodeVars, readerVars, changed, budget>>

(* The task ends, and how its callback did. *)
Over(x, how) == [x EXCEPT !.task = "gone", !.ended = how]
Error(x, e)  == [x EXCEPT !.error = e]

(* A plugin changed: the engine fails before the callback is called, or    *)
(* before an item is handed over.                                          *)
Revoked(o) ==
  /\ changed
  /\ \/ op[o].task = "check"
     \/ op[o].task = "run" /\ o \in Streams /\ op[o].sequence < MaxItem
  /\ Fail([op EXCEPT ![o] = Over(Error(@, Raised), "raised")])
  /\ UNCHANGED <<lock, closer, operations, readerVars, changed, budget>>

(* The task ends with a frame; how depends on whether it is sent. *)
Sends(o, f, sent, raised) ==
  /\ Write(f, [op EXCEPT ![o] = sent], [op EXCEPT ![o] = raised])
  /\ UNCHANGED <<lock, closer, operations, readerVars, changed, budget>>

(* The callback's value, or the end of its iterator.  Where the frame      *)
(* cannot be sent any more that is the error.                              *)
Return(o) ==
  /\ op[o].task = "run"
  /\ Sends(o, Frame("host.done", o), Over(op[o], "returned"), Over(Error(op[o], "engine"), "raised"))

Raise(o) ==
  /\ op[o].task = "run"
  /\ LET raised == Over(Error(op[o], "error"), "raised") IN Sends(o, Frame("host.error", o), raised, raised)

(* The iterator yields: the item stays at the operation until the consumer *)
(* has acknowledged it.                                                    *)
Yield(o) ==
  /\ op[o].task = "run" /\ o \in Streams /\ op[o].sequence < MaxItem /\ ~changed
  /\ Sends(o, Numbered("host.item", o, op[o].sequence),
           [op[o] EXCEPT !.value = op[o].sequence, !.acked = FALSE, !.task = "ack"],
           Over(Error(op[o], "engine"), "raised"))

Resume(o) ==
  /\ op[o].task = "ack" /\ op[o].acked
  /\ op' = [op EXCEPT ![o].sequence = @ + 1, ![o].value = Nothing, ![o].task = "run"]
  /\ UNCHANGED <<clientVars, operations, nodeVars, readerVars, changed, budget>>

(* A cancelled callback. *)
Stopped(o) ==
  /\ op[o].task = "stop"
  /\ LET stopped == Over(Error(op[o], IF op[o].error = "none" THEN "cancelled" ELSE op[o].error), "stopped")
     IN Sends(o, Frame("host.error", o), stopped, stopped)

-----------------------------------------------------------------------------
(* The Node process: CoreEngine, one frame at a time.                      *)

Serves(type) == alive /\ toNode # <<>> /\ Head(toNode).type = type
Tells(fs) ==
  toPython' = toPython \o fs /\ UNCHANGED <<clientVars, operations, op, reading, changed, budget>>
Answers(fs) == toNode' = Tail(toNode) /\ Tells(fs)
Asked     == Head(toNode).of
Known     == Asked \in node.ops

Forgetting(o) == [node EXCEPT !.ops = @ \ {o}, !.waiting = @ \ {o}]

(* A plugin of the engine may fail to register what it declares. *)
NodeInitialize ==
  /\ Serves("initialize") /\ UNCHANGED alive
  /\ \/ node' = [node EXCEPT !.open = TRUE] /\ Answers(<<Frame("accepted", Asked)>>)
     \/ node' = node /\ Answers(<<Frame("refused", Asked)>>)

(* A component is disabled only while nothing is active. *)
NodeConfigure ==
  /\ Serves("configure") /\ UNCHANGED alive
  /\ IF node.ops = {}
     THEN node' = [node EXCEPT !.enabled = FALSE] /\ Answers(<<Frame("accepted", Asked)>>)
     ELSE node' = node /\ Answers(<<Frame("refused", Asked)>>)

(* Every operation is cancelled; then the process ends. *)
NodeClose ==
  /\ Serves("close") /\ Dies
  /\ \E order \in [1..Cardinality(node.ops) -> node.ops] :
       /\ \A i, j \in DOMAIN order : order[i] = order[j] => i = j
       /\ Tells([i \in 1..(2 * Len(order)) |->
                     Frame(IF i % 2 = 1 THEN "host.cancel" ELSE "failed", order[(i + 1) \div 2])]
                  \o <<Frame("accepted", "close")>>)

(* The component asks for the callback.  A component that is disabled, a   *)
(* process that is full, and a plugin in the way refuse.                   *)
NodeInvoke ==
  /\ Serves("invoke") /\ UNCHANGED alive
  /\ \/ /\ node.open /\ node.enabled /\ Cardinality(node.ops) < MaxOperations
        /\ node' = [node EXCEPT !.ops = @ \union {Asked}]
        /\ Answers(<<Frame("host.call", Asked)>>)
     \/ node' = node /\ Answers(<<Frame("failed", Asked)>>)

NodeItem ==
  /\ Serves("host.item") /\ UNCHANGED alive
  /\ IF Known /\ Asked \notin node.waiting /\ Head(toNode).sequence = node.sequence[Asked]
     THEN /\ node' = [node EXCEPT !.waiting = @ \union {Asked}]
          /\ Answers(<<Numbered("item", Asked, node.sequence[Asked])>>)
     ELSE node' = node /\ Answers(<<>>)

NodeAck ==
  /\ Serves("ack") /\ UNCHANGED alive
  /\ IF Asked \in node.waiting /\ Head(toNode).sequence = node.sequence[Asked]
     THEN /\ node' = [node EXCEPT !.waiting = @ \ {Asked}, !.sequence[Asked] = @ + 1]
          /\ Answers(<<Numbered("host.ack", Asked, node.sequence[Asked])>>)
     ELSE node' = node /\ Answers(<<>>)

(* The callback is over. *)
NodeDone ==
  /\ Serves("host.done") \/ Serves("host.error")
  /\ UNCHANGED alive
  /\ IF Known /\ Asked \notin node.waiting
     THEN /\ node' = Forgetting(Asked)
          /\ Answers(<<Frame(IF Serves("host.error") THEN "failed" ELSE "done", Asked)>>)
     ELSE node' = node /\ Answers(<<>>)

NodeCancel ==
  /\ Serves("cancel") /\ UNCHANGED alive
  /\ IF Known
     THEN /\ node' = Forgetting(Asked)
          /\ Answers(<<Frame("host.cancel", Asked), Frame("failed", Asked)>>)
     ELSE node' = node /\ Answers(<<>>)

NodeStep ==
  \/ NodeInitialize \/ NodeConfigure \/ NodeClose \/ NodeInvoke
  \/ NodeItem \/ NodeAck \/ NodeDone \/ NodeCancel

(* The process dies. *)
NodeDies ==
  /\ alive /\ Disturb /\ Dies
  /\ UNCHANGED <<clientVars, operations, op, readerVars, changed>>

-----------------------------------------------------------------------------
(* The reader: _read_frames and _receive.                                  *)

(* Frames of operations that are no longer registered are ignored. *)
Told(o, f) ==
  CASE f.type = "host.call"   -> [op[o] EXCEPT !.task = "check", !.dispatched = TRUE]
    [] f.type = "host.ack"    -> [op[o] EXCEPT !.acked = TRUE]
    [] f.type = "host.cancel" -> [op[o] EXCEPT !.task = Cancelled(@)]
    [] f.type = "item"        -> [op[o] EXCEPT !.queue = Append(@, Item(f.sequence))]
    [] f.type = "done"        -> [op[o] EXCEPT !.queue = Append(@, Done), !.dispatched = TRUE]
    [] OTHER \* "failed"
                              -> [op[o] EXCEPT !.queue = Append(@, Done), !.dispatched = TRUE,
                                               !.error = IF @ = "none" THEN "engine" ELSE @]

Full(f) ==
  f.of \in operations /\ f.type \in {"item", "done", "failed"} /\ Len(op[f.of].queue) = 2

Receive ==
  /\ reading /\ toPython # <<>> /\ toPython' = Tail(toPython)
  /\ LET f == Head(toPython) IN
     /\ ~Full(f)
     /\ control' = IF f.of \in Control /\ control[f.of] = "waiting"
                   THEN [control EXCEPT ![f.of] = f.type] ELSE control
     /\ op' = IF f.of \in operations THEN [op EXCEPT ![f.of] = Told(f.of, f)] ELSE op
  /\ UNCHANGED <<state, failure, lock, closer, operations, nodeVars, reading, changed, budget>>

(* put_nowait raises where the queue holds two entries: the reader fails   *)
(* the engine and ends.                                                    *)
Overflow ==
  /\ reading /\ toPython # <<>> /\ Full(Head(toPython))
  /\ reading' = FALSE /\ Fail(op)
  /\ UNCHANGED <<lock, closer, operations, toPython, changed, budget>>

(* The end of the pipe is a failure, unless the engine is being closed. *)
EndOfPipe ==
  /\ reading /\ toPython = <<>> /\ ~alive /\ reading' = FALSE
  /\ IF state = "closing" THEN UNCHANGED <<op, state, failure, control, nodeVars>> ELSE Fail(op)
  /\ UNCHANGED <<lock, closer, operations, toPython, changed, budget>>

-----------------------------------------------------------------------------
(* aclose and configure.                                                   *)

TasksOf(f) == {o \in operations : f[o].task # "none"}

(* Every callback is cancelled, and awaited. *)
CancelAll(f) ==
  /\ closer' = [pc |-> "gather", joins |-> TasksOf(f)]
  /\ op' = [o \in Op |-> IF o \in operations THEN [f[o] EXCEPT !.task = Cancelled(@)] ELSE f[o]]

(* aclose(cancel_active): a patient one is refused while an operation is   *)
(* registered.  A running engine is told to close.                         *)
Close ==
  /\ Disturb /\ closer.pc = "out" /\ lock = Nobody /\ lock' = "closer"
  /\ IF Running
     THEN /\ state' = "closing" /\ closer' = [closer EXCEPT !.pc = "closing"]
          /\ control' = [control EXCEPT !["close"] = "waiting"]
          /\ toNode' = Append(toNode, Frame("close", "close"))
          /\ op' = op
     ELSE CancelAll(op) /\ UNCHANGED <<state, control, toNode>>
  /\ UNCHANGED <<failure, operations, alive, node, readerVars, changed>>

CloseAnswered ==
  /\ closer.pc = "closing" /\ control["close"] # "waiting"
  /\ CancelAll(op)
  /\ UNCHANGED <<state, failure, lock, control, operations, nodeVars, readerVars, changed, budget>>

(* A control request is not answered in time. *)
ControlTimeout(k) ==
  /\ control[k] = "waiting"
  /\ IF CanSend THEN Fail(op)
     ELSE control' = [control EXCEPT ![k] = "failed"] /\ UNCHANGED <<state, failure, op, nodeVars>>
  /\ UNCHANGED <<lock, closer, operations, readerVars, changed, budget>>

(* The operations that are still registered get the error. *)
Closed ==
  /\ closer.pc = "gather" /\ \A o \in closer.joins : op[o].task = "gone"
  /\ closer' = [pc |-> "end", joins |-> {}]
  /\ op' = [o \in Op |-> IF o \in operations THEN [op[o] EXCEPT !.error = "engine", !.queue = <<Done>>] ELSE op[o]]
  /\ state' = "closed" /\ lock' = Nobody /\ Dies /\ reading' = FALSE /\ toPython' = <<>>
  /\ UNCHANGED <<failure, control, operations, changed, budget>>

(* configure: its answer only tells Python what the process accepted. *)
Configure ==
  /\ Disturb /\ Running /\ lock = Nobody /\ control["configure"] # "waiting"
  /\ control' = [control EXCEPT !["configure"] = "waiting"]
  /\ toNode' = Append(toNode, Frame("configure", "configure"))
  /\ UNCHANGED <<state, failure, lock, closer, operations, op, alive, node, readerVars, changed>>

(* The code or the grants of a loaded plugin change. *)
PluginsChange ==
  /\ state # "new" /\ ~changed /\ changed' = TRUE /\ Disturb
  /\ UNCHANGED <<clientVars, operations, op, nodeVars, readerVars>>

-----------------------------------------------------------------------------

Callback(o) == Checked(o) \/ Revoked(o) \/ Resume(o) \/ Stopped(o)

Caller(o) ==
  \/ StartEnds(o) \/ StartFails(o) \/ Invoke(o) \/ InvokeRevoked(o)
  \/ DispatchTimeout(o) \/ TakeDone(o) \/ TakeItem(o) \/ Release(o) \/ Joined(o)

(* What the event loop, its timers and a live process do by themselves. *)
Internal ==
  \/ \E o \in Op : Caller(o) \/ Callback(o)
  \/ NodeStep \/ Receive \/ Overflow \/ EndOfPipe \/ CloseAnswered \/ Closed
  \/ \E k \in Control : ControlTimeout(k)

(* What nobody promises: callers come, consumers ask for more or leave,    *)
(* callbacks yield, return or raise, somebody closes the engine.           *)
External ==
  \/ \E o \in Op :
       \/ Start(o) \/ Started(o) \/ StartCancelled(o) \/ Acknowledge(o) \/ CloseStream(o)
       \/ CancelCaller(o) \/ Return(o) \/ Raise(o) \/ Yield(o)
  \/ Close \/ Configure \/ NodeDies \/ PluginsChange

Next == Internal \/ External

Spec == Init /\ [][Next]_vars

(* One weak fairness is enough: a behaviour takes finitely many internal   *)
(* steps, so it can end only where none of them is left.                   *)
FairSpec == Spec /\ WF_vars(Internal)

-----------------------------------------------------------------------------

TypeOK ==
  /\ state \in {"new", "starting", "running", "closing", "failed", "closed"}
  /\ failure \in BOOLEAN /\ lock \in Op \union {"closer", Nobody} /\ operations \subseteq Op
  /\ control \in [Control -> {"none", "waiting", "accepted", "refused", "failed"}]
  /\ closer.pc \in {"out", "closing", "gather", "end"} /\ closer.joins \subseteq Op
  /\ alive \in BOOLEAN /\ reading \in BOOLEAN /\ changed \in BOOLEAN
  /\ node.ops \subseteq Op /\ node.waiting \subseteq node.ops
  /\ \A o \in Op :
       /\ op[o].pc \in {"out", "starting", "verify", "wait", "hold", "release", "join", "end"}
       /\ op[o].task \in {"none", "check", "run", "ack", "stop", "gone"}
       /\ op[o].outcome \in {"none", "ok", "error", "engine", "cancelled", "closed", "typeerror"}
       /\ Len(op[o].queue) <= 2
       /\ op[o].sequence \in 0..MaxItem /\ op[o].value \in {Nothing} \union 0..(MaxItem - 1)

(* A call succeeds only if its callback ran to its end, and a stream only  *)
(* if its consumer has had every item of it, in order and with the value   *)
(* it had (one slot holds the values, cordis_engine.py:276), however items,*)
(* acknowledgements, cancellations and failures cross.                     *)
SuccessIsReal ==
  \A o \in Op : op[o].outcome = "ok" =>
    op[o].ended = "returned" /\ op[o].got = [i \in 1..op[o].sequence |-> i - 1]

(* When a caller is gone its callback is over, and none starts later       *)
(* (cordis_engine.py:299): unless a cancellation cut the release short.    *)
NoOrphan ==
  \A o \in Op : op[o].pc = "end" /\ ~op[o].cut => op[o].task \in {"none", "gone"}

(* The process forgets an operation whose caller is gone: one it kept      *)
(* would refuse every later configure() and fill its table.                *)
Forgotten ==
  \A o \in Op : op[o].pc = "end" /\ ~op[o].cut ~> o \notin node.ops

(* A failed or closed engine leaves nobody waiting: every caller gets an   *)
(* answer, whatever it was waiting for.                                    *)
FailureEnds ==
  \A o \in Op : state \in {"failed", "closed"} /\ op[o].pc \notin {"out", "hold"} ~> op[o].pc = "end"
=============================================================================
