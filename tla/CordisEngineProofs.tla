------------------------- MODULE CordisEngineProofs -------------------------
(***************************************************************************)
(* No callback outlives its caller, and a success is real, for any         *)
(* operations, limits and bounds.                                          *)
(*                                                                         *)
(* NoOrphan alone is not inductive: a callback is started for whatever is  *)
(* registered.  The invariant adds that only operations whose caller waits *)
(* for them or holds an item are registered, and that one that was not yet *)
(* registered has no callback.                                             *)
(*                                                                         *)
(* SuccessIsReal speaks of the caller; what makes it true is in the pipes, *)
(* the queue and the callback's task.  The invariant, Tokens, says that an *)
(* operation that may still succeed has one token at a time: the request   *)
(* for its callback, then an item or its acknowledgement, then its end.    *)
(* Where the token is tells what the consumer has had.  The process keeps  *)
(* no token it was not sent: whatever it checks by itself, it answers a    *)
(* frame with one of the same kind, or with none.  An operation that was   *)
(* told an error, or whose callback was stopped, will not succeed, and     *)
(* nothing else is asked of it.                                            *)
(***************************************************************************)
EXTENDS CordisEngine, SequenceTheorems, FiniteSetTheorems, TLAPS

Idle    == {"none", "gone"}
Unborn   == {"out", "starting", "verify"}
Attended == {"wait", "hold"}

(* What holds of every operation. *)
Good(x) ==
  /\ DOMAIN x = DOMAIN New
  /\ x.pc \in Unborn => x.task = "none"
  /\ x.pc = "end" /\ ~x.cut => x.task \in Idle

(* And of the operations f while those of R are registered. *)
AllGood(f, R) ==
  /\ DOMAIN f = Op
  /\ \A o \in Op : Good(f[o])
  /\ \A o \in Op : o \in R => f[o].pc \in Attended

Inv == operations \subseteq Op /\ AllGood(op, operations)

-----------------------------------------------------------------------------
(* What the helpers of the client keep of one operation.                   *)

(* _fail changes no operation for the worse, and moves no caller. *)
LEMMA StruckGood ==
  ASSUME NEW x, Good(x)
  PROVE  Good(Struck(x)) /\ Struck(x).pc = x.pc
BY DEF Good, Struck, Cancelled, Unborn, Idle, New, Done

(* Nor does the cancellation of its callback. *)
LEMMA StopGood ==
  ASSUME NEW x, Good(x)
  PROVE  /\ Good([x EXCEPT !.task = Cancelled(@)])
         /\ [x EXCEPT !.task = Cancelled(@)].pc = x.pc
BY DEF Good, Cancelled, Unborn, Idle, New

(* A caller that leaves. *)
LEMMA LeavesGood ==
  ASSUME NEW x, NEW outcome, Good(x)
  PROVE  Good(Leaves(x, outcome))
BY DEF Good, Leaves, Unborn, New

(* A caller that is gone, when its callback is, or was never there. *)
LEMMA EndsGood ==
  ASSUME NEW x, Good(x), x.task \in Idle
  PROVE  Good(Ends(x))
BY DEF Good, Ends, Past, Unborn, Idle, New

(* A release that was cut short. *)
LEMMA CutGood ==
  ASSUME NEW x, Good(x)
  PROVE  Good(Ends([x EXCEPT !.cut = TRUE]))
BY DEF Good, Ends, Past, Unborn, Idle, New

-----------------------------------------------------------------------------
(* What the helpers keep of all of them.                                   *)

(* One operation changes, and may be registered no more. *)
LEMMA OneGood ==
  ASSUME NEW R, AllGood(op, operations), NEW o \in Op, NEW x,
         \A p \in Op : p # o /\ p \in R => p \in operations,
         Good(x), o \in R => x.pc \in Attended
  PROVE  AllGood([op EXCEPT ![o] = x], R)
BY DEF AllGood

(* A caller that waits, or holds an item, may be registered. *)
LEMMA RegisteredGood ==
  ASSUME NEW f, NEW R, NEW o \in Op, AllGood(f, R), f[o].pc \in Attended
  PROVE  AllGood(f, R \union {o})
BY DEF AllGood

(* _fail leaves every caller where it is. *)
LEMMA FailGood ==
  ASSUME NEW f, NEW R, AllGood(f, R), Fail(f)
  PROVE  AllGood(op', R) /\ \A o \in Op : op'[o].pc = f[o].pc
<1>1. \A o \in Op : Good(Struck(f[o])) /\ Struck(f[o]).pc = f[o].pc
  BY StruckGood DEF AllGood
<1>2. CASE op' = f BY <1>2
<1>3. CASE op' = [o \in Op |-> IF o \in operations THEN Struck(f[o]) ELSE f[o]]
  BY <1>1, <1>3 DEF AllGood
<1> QED BY <1>2, <1>3 DEF Fail

(* _send keeps what holds of the operations whether it returns or raises.  *)
LEMMA WriteGood ==
  ASSUME NEW F, NEW sent, NEW raised, NEW R,
         AllGood(sent, R), AllGood(raised, R), Write(F, sent, raised)
  PROVE  AllGood(op', R)
BY FailGood DEF Write

(* A release leaves the caller to wait for its callback if there is one.   *)
LEMMA LeftGood ==
  ASSUME AllGood(op, operations), NEW o \in Op, op[o].pc = "release"
  PROVE  AllGood(Left(o), operations)
<1> DEFINE x == IF op[o].task \in {"none", "gone"} THEN Ends(op[o])
                ELSE [op[o] EXCEPT !.task = Cancelled(op[o].task), !.pc = "join"]
<1>1. o \notin operations /\ Good(op[o]) BY DEF AllGood, Attended
<1>2. Good(x)
  <2>1. CASE op[o].task \in {"none", "gone"} BY <1>1, <2>1, EndsGood DEF Idle
  <2>2. CASE op[o].task \notin {"none", "gone"}
    BY <1>1, <2>2 DEF Good, Cancelled, Unborn, New
  <2> QED BY <2>1, <2>2
<1> HIDE DEF x
<1>3. AllGood([op EXCEPT ![o] = x], operations) BY <1>1, <1>2, OneGood
<1> QED BY <1>3 DEF Left, x

-----------------------------------------------------------------------------
(* The steps of the callers. *)

(* The invariant, but for the subset. *)
Keeps == AllGood(op', operations')

(* A caller comes: the engine is started, or found as it is. *)
LEMMA ArrivalKeeps ==
  ASSUME Inv, NEW o \in Op,
         Start(o) \/ Started(o) \/ StartEnds(o) \/ StartFails(o) \/ StartCancelled(o)
  PROVE  Keeps
<1>1. Good(op[o]) /\ AllGood(op, operations) BY DEF Inv, AllGood
<1>2. op[o].pc \in {"out", "starting"}
  BY DEF Start, Started, StartEnds, StartFails, StartCancelled
<1>3. o \notin operations BY <1>1, <1>2 DEF AllGood, Attended
<1>4. AllGood([op EXCEPT ![o] = Ends(op[o])], operations)
  <2>1. Good(Ends(op[o])) BY <1>1, <1>2, EndsGood DEF Good, Unborn, Idle
  <2> QED BY <2>1, <1>1, <1>3, OneGood
<1>5. ASSUME NEW pc \in Unborn PROVE AllGood([op EXCEPT ![o].pc = pc], operations)
  <2>1. Good([op[o] EXCEPT !.pc = pc]) BY <1>1, <1>2 DEF Good, Unborn, New
  <2>2. AllGood([op EXCEPT ![o] = [op[o] EXCEPT !.pc = pc]], operations)
    BY <2>1, <1>1, <1>3, OneGood
  <2> QED BY <2>2
<1>6. CASE Start(o) BY <1>5, <1>6 DEF Start, Unborn, Keeps
<1>7. CASE Started(o) BY <1>4, <1>5, <1>7 DEF Started, Unborn, Keeps
<1>8. CASE StartEnds(o) BY <1>5, <1>8 DEF StartEnds, Unborn, Keeps
<1>9. CASE StartFails(o) BY <1>4, <1>9, FailGood DEF StartFails, Keeps
<1>10. CASE StartCancelled(o) BY <1>4, <1>10, FailGood DEF StartCancelled, Keeps
<1> QED BY <1>6, <1>7, <1>8, <1>9, <1>10

(* An operation is registered, or refused. *)
LEMMA InvokeKeeps ==
  ASSUME Inv, NEW o \in Op, Invoke(o) \/ InvokeRevoked(o)
  PROVE  Keeps
<1>1. Good(op[o]) /\ AllGood(op, operations) BY DEF Inv, AllGood
<1>2. op[o].pc = "verify" BY DEF Invoke, InvokeRevoked
<1>3. o \notin operations BY <1>1, <1>2 DEF AllGood, Attended
<1>4. AllGood([op EXCEPT ![o] = Ends(op[o])], operations)
  <2>1. Good(Ends(op[o])) BY <1>1, <1>2, EndsGood DEF Good, Unborn, Idle
  <2> QED BY <2>1, <1>1, <1>3, OneGood
<1>5. AllGood([op EXCEPT ![o].pc = "wait"], operations)
  <2>1. Good([op[o] EXCEPT !.pc = "wait"]) BY <1>1, <1>2 DEF Good, Unborn, New
  <2>2. AllGood([op EXCEPT ![o] = [op[o] EXCEPT !.pc = "wait"]], operations)
    BY <2>1, <1>1, <1>3, OneGood
  <2> QED BY <2>2
<1>6. CASE Invoke(o)
  <2>1. AllGood(op', operations) BY <1>4, <1>5, <1>6, WriteGood DEF Invoke
  <2>2. CASE op'[o].pc = "wait"
    BY <2>1, <2>2, <1>6, RegisteredGood DEF Invoke, Attended, Keeps
  <2>3. CASE op'[o].pc # "wait" BY <2>1, <2>3, <1>6 DEF Invoke, Keeps
  <2> QED BY <2>2, <2>3
<1>7. CASE InvokeRevoked(o) BY <1>4, <1>7, FailGood DEF InvokeRevoked, Keeps
<1> QED BY <1>6, <1>7

(* A caller waits, consumes, and leaves: what leaves is no longer          *)
(* registered.                                                             *)
LEMMA ConsumerKeeps ==
  ASSUME Inv, NEW o \in Op,
         DispatchTimeout(o) \/ TakeDone(o) \/ TakeItem(o) \/ Acknowledge(o) \/ CloseStream(o)
  PROVE  Keeps
<1>1. Good(op[o]) /\ AllGood(op, operations) BY DEF Inv, AllGood
<1>2. op[o].pc \in Attended
  BY DEF DispatchTimeout, TakeDone, TakeItem, Acknowledge, CloseStream, Queued, Attended
<1>3. ASSUME NEW x, Good(x), NEW outcome
      PROVE  AllGood([op EXCEPT ![o] = Leaves(x, outcome)], operations \ {o})
  BY <1>1, <1>3, LeavesGood, OneGood
<1>4. CASE DispatchTimeout(o)
  BY <1>1, <1>3, <1>4, FailGood DEF DispatchTimeout, Popped, Keeps
<1>5. CASE TakeDone(o)
  <2>1. Good([op[o] EXCEPT !.queue = Tail(op[o].queue)]) BY <1>1 DEF Good, Unborn, New
  <2> QED BY <1>3, <1>5, <2>1 DEF TakeDone, Popped, Keeps
<1>6. CASE TakeItem(o)
  <2> DEFINE x == [op[o] EXCEPT !.queue = Tail(@), !.got = Append(@, op[o].value), !.pc = "hold"]
  <2>1. CASE Head(op[o].queue) = Item(op[o].sequence)
    <3>1. Good(x) /\ x.pc = "hold" BY <1>1, <1>2 DEF Good, Unborn, Attended, New
    <3>2. AllGood([op EXCEPT ![o] = x], operations) BY <1>1, <3>1, OneGood DEF Attended
    <3> QED BY <1>6, <2>1, <3>2 DEF TakeItem, Keeps
  <2>2. CASE Head(op[o].queue) # Item(op[o].sequence)
    BY <1>1, <1>3, <1>6, <2>2 DEF TakeItem, Popped, Keeps
  <2> QED BY <2>1, <2>2
<1>7. CASE Acknowledge(o)
  <2>1. AllGood([op EXCEPT ![o].pc = "wait"], operations \ {o})
    <3>1. Good([op[o] EXCEPT !.pc = "wait"]) BY <1>1, <1>2 DEF Good, Unborn, Attended, New
    <3>2. AllGood([op EXCEPT ![o] = [op[o] EXCEPT !.pc = "wait"]], operations \ {o})
      BY <3>1, <1>1, OneGood
    <3> QED BY <3>2
  <2>2. AllGood(op', operations \ {o}) BY <1>1, <1>3, <1>7, <2>1, WriteGood DEF Acknowledge
  <2>3. CASE op'[o].pc = "wait"
    <3>1. AllGood(op', (operations \ {o}) \union {o})
      BY <2>2, <2>3, RegisteredGood DEF Attended
    <3> QED BY <1>7, <2>3, <3>1 DEF Acknowledge, AllGood, Keeps
  <2>4. CASE op'[o].pc # "wait" BY <1>7, <2>2, <2>4 DEF Acknowledge, Popped, Keeps
  <2> QED BY <2>3, <2>4
<1>8. CASE CloseStream(o) BY <1>1, <1>3, <1>8 DEF CloseStream, Popped, Keeps
<1> QED BY <1>4, <1>5, <1>6, <1>7, <1>8

(* A caller that has left ends, after its callback unless it is cut short. *)
LEMMA DepartureKeeps ==
  ASSUME Inv, NEW o \in Op, Release(o) \/ Joined(o) \/ CancelCaller(o)
  PROVE  Keeps
<1>1. Good(op[o]) /\ AllGood(op, operations) BY DEF Inv, AllGood
<1>2. ASSUME op[o].pc \notin Attended, NEW x, Good(x)
      PROVE  AllGood([op EXCEPT ![o] = x], operations)
  BY <1>1, <1>2, OneGood DEF AllGood
<1>3. CASE Release(o)
  <2>1. op[o].pc = "release" /\ AllGood(Left(o), operations) BY <1>1, <1>3, LeftGood DEF Release
  <2>2. AllGood(op', operations) BY <1>3, <2>1, WriteGood DEF Release
  <2> QED BY <1>3, <2>2 DEF Release, Keeps
<1>4. CASE Joined(o)
  <2>1. op[o].pc = "join" /\ Good(Ends(op[o])) BY <1>1, <1>4, EndsGood DEF Joined, Idle
  <2>2. AllGood([op EXCEPT ![o] = Ends(op[o])], operations) BY <1>2, <2>1 DEF Attended
  <2> QED BY <1>4, <2>2 DEF Joined, Keeps
<1>5. CASE CancelCaller(o)
  <2>1. CASE op[o].pc = "verify"
    <3>1. Good(Ends(op[o])) BY <1>1, <2>1, EndsGood DEF Good, Unborn, Idle
    <3>2. AllGood([op EXCEPT ![o] = Ends(op[o])], operations) BY <1>2, <2>1, <3>1 DEF Attended
    <3> QED BY <1>5, <2>1, <3>2 DEF CancelCaller, Keeps
  <2>2. CASE op[o].pc \in {"wait", "hold"}
    <3>1. AllGood([op EXCEPT ![o] = Leaves(op[o], "cancelled")], operations \ {o})
      BY <1>1, LeavesGood, OneGood
    <3> QED BY <1>5, <2>2, <3>1 DEF CancelCaller, Popped, Keeps
  <2>3. CASE op[o].pc \in {"release", "join"}
    <3>1. Good(Ends([op[o] EXCEPT !.cut = TRUE])) BY <1>1, CutGood
    <3>2. AllGood([op EXCEPT ![o] = Ends([op[o] EXCEPT !.cut = TRUE])], operations)
      BY <1>2, <2>3, <3>1 DEF Attended
    <3> QED BY <1>5, <2>3, <3>2 DEF CancelCaller, Keeps
  <2> QED BY <1>5, <2>1, <2>2, <2>3 DEF CancelCaller
<1> QED BY <1>3, <1>4, <1>5

-----------------------------------------------------------------------------
(* The steps of the callbacks, of the reader, and of aclose. *)

(* A callback moves no caller, and one that is started stays started.      *)
LEMMA CallbackKeeps ==
  ASSUME Inv, NEW o \in Op, Callback(o) \/ Return(o) \/ Raise(o) \/ Yield(o)
  PROVE  Keeps
<1>1. Good(op[o]) /\ AllGood(op, operations) BY DEF Inv, AllGood
<1>2. op[o].task \notin Idle
  BY DEF Callback, Checked, Revoked, Resume, Stopped, Return, Raise, Yield, Idle
<1>3. op[o].pc \notin Unborn /\ (op[o].pc = "end" => op[o].cut) BY <1>1, <1>2 DEF Good, Idle
<1>4. ASSUME NEW x, DOMAIN x = DOMAIN New, x.pc = op[o].pc, x.cut = op[o].cut
      PROVE  AllGood([op EXCEPT ![o] = x], operations)
  <2>1. Good(x) BY <1>3, <1>4 DEF Good
  <2>2. o \in operations => x.pc \in Attended BY <1>1, <1>4 DEF AllGood
  <2> QED BY <1>1, <2>1, <2>2, OneGood
<1>5. ASSUME NEW e, NEW how
      PROVE  AllGood([op EXCEPT ![o] = Over(Error(op[o], e), how)], operations)
  BY <1>1, <1>4 DEF Over, Error, Good, New
<1>6. ASSUME NEW how PROVE AllGood([op EXCEPT ![o] = Over(op[o], how)], operations)
  BY <1>1, <1>4 DEF Over, Good, New
<1>7. CASE Checked(o)
  <2>1. AllGood([op EXCEPT ![o] = [op[o] EXCEPT !.task = "run"]], operations)
    BY <1>1, <1>4 DEF Good, New
  <2> QED BY <1>7, <2>1 DEF Checked, Keeps
<1>8. CASE Revoked(o) BY <1>5, <1>8, FailGood DEF Revoked, Keeps
<1>9. CASE Resume(o)
  <2>1. AllGood([op EXCEPT ![o] = [op[o] EXCEPT !.sequence = @ + 1, !.value = Nothing, !.task = "run"]],
                operations)
    BY <1>1, <1>4 DEF Good, New
  <2> QED BY <1>9, <2>1 DEF Resume, Keeps
<1>10. CASE Stopped(o) BY <1>5, <1>10, WriteGood DEF Stopped, Sends, Keeps
<1>11. CASE Return(o) BY <1>5, <1>6, <1>11, WriteGood DEF Return, Sends, Keeps
<1>12. CASE Raise(o) BY <1>5, <1>12, WriteGood DEF Raise, Sends, Keeps
<1>13. CASE Yield(o)
  <2> DEFINE x == [op[o] EXCEPT !.value = op[o].sequence, !.acked = FALSE, !.task = "ack"]
  <2>1. AllGood([op EXCEPT ![o] = x], operations) BY <1>1, <1>4 DEF Good, New
  <2> QED BY <1>5, <1>13, <2>1, WriteGood DEF Yield, Sends, Keeps
<1> QED BY <1>7, <1>8, <1>9, <1>10, <1>11, <1>12, <1>13 DEF Callback

(* The reader starts callbacks only for operations that are attended.      *)
LEMMA ReaderKeeps ==
  ASSUME Inv, Receive \/ Overflow \/ EndOfPipe
  PROVE  Keeps
<1>1. operations \subseteq Op /\ AllGood(op, operations) BY DEF Inv
<1>2. CASE Receive
  <2> DEFINE f == Head(toPython)
  <2>1. operations' = operations BY <1>2 DEF Receive
  <2>2. CASE f.of \in operations
    <3>1. op' = [op EXCEPT ![f.of] = Told(f.of, f)] BY <1>2, <2>2 DEF Receive
    <3>2. f.of \in Op /\ Good(op[f.of]) /\ op[f.of].pc \in Attended BY <1>1, <2>2 DEF AllGood
    <3>3. Good(Told(f.of, f)) /\ Told(f.of, f).pc = op[f.of].pc
      <4> HIDE DEF f
      <4> QED BY <3>2 DEF Told, Good, Unborn, Attended, New
    <3> HIDE DEF f
    <3>4. AllGood([op EXCEPT ![f.of] = Told(f.of, f)], operations)
      BY <1>1, <3>2, <3>3, OneGood
    <3> QED BY <2>1, <3>1, <3>4 DEF Keeps
  <2>3. CASE f.of \notin operations BY <1>1, <1>2, <2>1, <2>3 DEF Receive, Keeps
  <2> QED BY <2>2, <2>3
<1>3. CASE Overflow BY <1>1, <1>3, FailGood DEF Overflow, Keeps
<1>4. CASE EndOfPipe
  <2>1. op' = op \/ Fail(op) BY <1>4 DEF EndOfPipe
  <2> QED BY <1>1, <1>4, <2>1, FailGood DEF EndOfPipe, Keeps
<1> QED BY <1>2, <1>3, <1>4

(* aclose cancels the callbacks of what is registered.                     *)
LEMMA CloserKeeps ==
  ASSUME Inv, Close \/ CloseAnswered \/ Closed \/ \E k \in Control : ControlTimeout(k)
  PROVE  Keeps
<1>1. operations \subseteq Op /\ AllGood(op, operations) BY DEF Inv
<1>2. ASSUME CancelAll(op) PROVE AllGood(op', operations)
  <2>1. \A o \in Op : /\ Good([op[o] EXCEPT !.task = Cancelled(@)])
                      /\ [op[o] EXCEPT !.task = Cancelled(@)].pc = op[o].pc
    BY <1>1, StopGood DEF AllGood
  <2>2. op' = [o \in Op |-> IF o \in operations THEN [op[o] EXCEPT !.task = Cancelled(@)] ELSE op[o]]
    BY <1>2 DEF CancelAll
  <2> QED BY <1>1, <2>1, <2>2 DEF AllGood
<1>3. CASE Close
  <2>1. op' = op \/ CancelAll(op) BY <1>3 DEF Close
  <2> QED BY <1>1, <1>2, <1>3, <2>1 DEF Close, Keeps
<1>4. CASE CloseAnswered BY <1>2, <1>4 DEF CloseAnswered, Keeps
<1>5. CASE Closed
  <2>1. \A o \in Op : /\ Good([op[o] EXCEPT !.error = "engine", !.queue = <<Done>>])
                      /\ [op[o] EXCEPT !.error = "engine", !.queue = <<Done>>].pc = op[o].pc
    BY <1>1 DEF AllGood, Good, Unborn, New
  <2>2. op' = [o \in Op |-> IF o \in operations
                            THEN [op[o] EXCEPT !.error = "engine", !.queue = <<Done>>] ELSE op[o]]
    BY <1>5 DEF Closed
  <2>3. AllGood(op', operations) BY <1>1, <2>1, <2>2 DEF AllGood
  <2> QED BY <1>5, <2>3 DEF Closed, Keeps
<1>6. CASE \E k \in Control : ControlTimeout(k)
  <2>1. PICK k \in Control : ControlTimeout(k) BY <1>6
  <2>2. op' = op \/ Fail(op) BY <2>1 DEF ControlTimeout
  <2> QED BY <1>1, <2>1, <2>2, FailGood DEF ControlTimeout, Keeps
<1> QED BY <1>3, <1>4, <1>5, <1>6

(* What leaves the operations alone: the process, which dies or works, the *)
(* plugins, and configure.                                                 *)
LEMMA ElsewhereKeeps ==
  ASSUME Inv, NodeStep \/ NodeDies \/ Configure \/ PluginsChange \/ UNCHANGED vars
  PROVE  Keeps
<1>1. op' = op /\ operations' = operations
  <2>1. CASE NodeStep
    BY <2>1 DEF NodeStep, NodeInitialize, NodeConfigure, NodeClose, NodeInvoke, NodeItem,
                NodeAck, NodeDone, NodeCancel, Answers, Tells
  <2> QED BY <2>1 DEF NodeDies, Configure, PluginsChange, vars
<1> QED BY <1>1 DEF Inv, Keeps

-----------------------------------------------------------------------------
(* The theorem. *)

(* Every initial state satisfies the invariant. *)
LEMMA InitInv == Init => Inv
BY DEF Init, Inv, AllGood, Good, New, Unborn, Attended, Idle

(* Only operations of Op are registered. *)
LEMMA RegisteredAreOps ==
  ASSUME Inv, [Next]_vars
  PROVE  operations' \subseteq Op
<1>1. operations \subseteq Op BY DEF Inv
<1>2. ASSUME NEW o \in Op, operations' \subseteq operations \union {o} PROVE operations' \subseteq Op
  BY <1>1, <1>2
<1>3. CASE \E o \in Op : Caller(o) \/ Callback(o)
  <2>1. PICK o \in Op : Caller(o) \/ Callback(o) BY <1>3
  <2>2. operations' \subseteq operations \union {o}
    BY <2>1 DEF Caller, Callback, StartEnds, StartFails, Invoke, InvokeRevoked, DispatchTimeout,
                TakeDone, TakeItem, Release, Joined, Checked, Revoked, Resume, Stopped, Sends, Popped
  <2> QED BY <1>2, <2>2
<1>4. CASE External
  <2>1. operations' \subseteq operations
    BY <1>4 DEF External, Start, Started, StartCancelled, Acknowledge, CloseStream, CancelCaller,
                Return, Raise, Yield, Sends, Popped, Close, Configure, NodeDies, PluginsChange
  <2> QED BY <1>1, <2>1
<1>5. CASE NodeStep
  BY <1>1, <1>5 DEF NodeStep, NodeInitialize, NodeConfigure, NodeClose, NodeInvoke, NodeItem,
                NodeAck, NodeDone, NodeCancel, Answers, Tells
<1>6. CASE Receive \/ Overflow \/ EndOfPipe \/ CloseAnswered \/ Closed \/ \E k \in Control : ControlTimeout(k)
  BY <1>1, <1>6 DEF Receive, Overflow, EndOfPipe, CloseAnswered, Closed, ControlTimeout
<1>7. CASE UNCHANGED vars BY <1>1, <1>7 DEF vars
<1> QED BY <1>3, <1>4, <1>5, <1>6, <1>7 DEF Next, Internal

(* And every step keeps it. *)
LEMMA NextInv == Inv /\ [Next]_vars => Inv'
<1> SUFFICES ASSUME Inv, [Next]_vars PROVE Inv'
  OBVIOUS
<1>1. Keeps
  <2>1. CASE \E o \in Op : Caller(o) \/ Callback(o)
    BY <2>1, ArrivalKeeps, InvokeKeeps, ConsumerKeeps, DepartureKeeps, CallbackKeeps DEF Caller
  <2>2. CASE \E o \in Op : \/ Start(o) \/ Started(o) \/ StartCancelled(o) \/ Acknowledge(o)
                          \/ CloseStream(o) \/ CancelCaller(o) \/ Return(o) \/ Raise(o) \/ Yield(o)
    BY <2>2, ArrivalKeeps, ConsumerKeeps, DepartureKeeps, CallbackKeeps
  <2>3. CASE Receive \/ Overflow \/ EndOfPipe BY <2>3, ReaderKeeps
  <2>4. CASE Close \/ CloseAnswered \/ Closed \/ \E k \in Control : ControlTimeout(k)
    BY <2>4, CloserKeeps
  <2>5. CASE NodeStep \/ NodeDies \/ Configure \/ PluginsChange \/ UNCHANGED vars
    BY <2>5, ElsewhereKeeps
  <2> QED BY <2>1, <2>2, <2>3, <2>4, <2>5 DEF Next, Internal, External
<1>2. operations' \subseteq Op BY RegisteredAreOps
<1> QED BY <1>1, <1>2 DEF Inv, Keeps, AllGood

(* When a caller is gone and its release was not cut short, its callback   *)
(* is over or was never started (_release, cordis_engine.py:299), for any  *)
(* number of operations, whatever is cancelled, fails, dies or is closed.  *)
THEOREM NeverOrphaned == Spec => []NoOrphan
<1>1. Inv => NoOrphan BY DEF Inv, AllGood, Good, NoOrphan, Idle
<1> QED BY InitInv, NextInv, <1>1, PTL DEF Spec

-----------------------------------------------------------------------------
(* The frames of an operation, by what they are to its token: the request *)
(* for its callback, an item, its acknowledgement, the end.                *)
Calls   == {"invoke", "host.call"}
Offers  == {"host.item", "item"}
Thanks  == {"ack", "host.ack"}
Items   == Offers \union Thanks
Endings == {"host.done", "done"}

Bears(f, T, o) == f.of = o /\ f.type \in T
Has(q, T, o)   == \E i \in DOMAIN q : Bears(q[i], T, o)
Lone(q, T, o)  == \A i, j \in DOMAIN q : Bears(q[i], T, o) /\ Bears(q[j], T, o) => i = j

(* Frames of o whose type is in T: some, and at most one. *)
OnWay(T, o)  == Has(toNode, T, o) \/ Has(toPython, T, o)
Single(T, o) == /\ Lone(toNode, T, o) /\ Lone(toPython, T, o)
                /\ ~(Has(toNode, T, o) /\ Has(toPython, T, o))

Types ==
  {"initialize", "configure", "close", "accepted", "refused", "invoke", "host.call", "host.item",
   "item", "ack", "host.ack", "host.done", "host.error", "done", "failed", "cancel", "host.cancel"}

Frames  == [type : Types, of : Op \union Control, sequence : Int]
Entries == [type : {"item", "done"}, sequence : Int]

Pipes ==
  /\ toNode \in Seq(Frames) /\ toPython \in Seq(Frames)
  /\ DOMAIN node = DOMAIN NoNode
  /\ IsFiniteSet(node.ops) /\ node.ops \subseteq Op \union Control

(* The items 0 .. n-1. *)
Upto(n) == [i \in 1..n |-> i - 1]

Holds(x, type) == \E i \in DOMAIN x.queue : x.queue[i].type = type

(* An operation that may still succeed. *)
Live(x) == x.pc \in Attended /\ x.error = "none" /\ x.task # "stop"

Shape(x) ==
  DOMAIN x = DOMAIN New /\ x.queue \in Seq(Entries) /\ x.sequence \in Nat /\ x.error # "ok"

(* Nothing is on its way for an operation before it is registered, *)
Untold(o) ==
  op[o].pc \in Unborn =>
    /\ ~OnWay(Calls, o) /\ ~OnWay(Items, o) /\ ~OnWay(Endings, o)
    /\ op[o].sequence = 0 /\ op[o].got = <<>> /\ op[o].queue = <<>>

(* and its callback is asked for once. *)
Called(o) ==
  op[o].pc \in Attended => Single(Calls, o) /\ (OnWay(Calls, o) => op[o].task = "none")

(* What the consumer has had, by where the callback stands. *)
Handed(x) ==
  /\ x.pc = "hold" => x.task = "ack" /\ ~x.acked
  /\ x.task = "none" => x.sequence = 0
  /\ x.task = "ack" => x.value = x.sequence
  /\ x.task = "gone" => x.ended = "returned"
  /\ x.pc = "hold" \/ (x.task = "ack" /\ x.acked) => x.got = Upto(x.sequence + 1)
  /\ x.task # "ack" => x.got = Upto(x.sequence)

(* The token of a stream, on its way to the consumer, and back. *)
Offered(x) == x.task = "ack" /\ ~x.acked /\ x.pc = "wait" /\ x.got = Upto(x.sequence)
Thanked(x) == x.task = "ack" /\ ~x.acked /\ x.pc = "wait" /\ x.got = Upto(x.sequence + 1)

(* One item is queued at most. *)
Sole(x) == \A i, j \in DOMAIN x.queue : x.queue[i].type = "item" /\ x.queue[j].type = "item" => i = j

Round(o) ==
  Live(op[o]) =>
    /\ Handed(op[o]) /\ Single(Items, o) /\ Sole(op[o])
    /\ OnWay(Offers, o) \/ Holds(op[o], "item") => Offered(op[o])
    /\ OnWay(Thanks, o) => Thanked(op[o])
    /\ ~(OnWay(Offers, o) /\ Holds(op[o], "item"))

(* An end that is no error is that of the callback. *)
Closing(o) ==
  /\ op[o].pc \in Attended /\ op[o].error = "none"
  /\ OnWay(Endings, o) \/ Holds(op[o], "done")
  => op[o].task = "gone"

Succeeds(x) ==
  x.outcome = "ok" =>
    x.pc = "release" /\ x.task = "gone" /\ x.ended = "returned" /\ x.got = Upto(x.sequence)

Token(o) == Shape(op[o]) /\ Untold(o) /\ Called(o) /\ Round(o) /\ Closing(o) /\ Succeeds(op[o])

Tokens == Inv /\ Pipes /\ \A o \in Op : Token(o)

-----------------------------------------------------------------------------
(* Frames in a pipe. *)

(* One is put in: *)
LEMMA PutIn ==
  ASSUME NEW q \in Seq(Frames), NEW f \in Frames, NEW T, NEW o
  PROVE  /\ Append(q, f) \in Seq(Frames)
         /\ Has(Append(q, f), T, o) <=> Has(q, T, o) \/ Bears(f, T, o)
         /\ Lone(q, T, o) /\ ~(Has(q, T, o) /\ Bears(f, T, o)) => Lone(Append(q, f), T, o)
<1>1. /\ Append(q, f) \in Seq(Frames) /\ DOMAIN Append(q, f) = (DOMAIN q) \union {Len(q) + 1}
      /\ \A i \in DOMAIN q : Append(q, f)[i] = q[i]
      /\ Append(q, f)[Len(q) + 1] = f /\ Len(q) + 1 \notin DOMAIN q
  OBVIOUS
<1> HIDE DEF Frames
<1> QED BY <1>1 DEF Has, Lone

(* the first is taken out: *)
LEMMA TakeOut ==
  ASSUME NEW q \in Seq(Frames), q # <<>>, NEW T, NEW o
  PROVE  /\ Head(q) \in Frames /\ Tail(q) \in Seq(Frames)
         /\ Has(Tail(q), T, o) => Has(q, T, o)
         /\ Bears(Head(q), T, o) => Has(q, T, o)
         /\ Lone(q, T, o) => Lone(Tail(q), T, o) /\ ~(Bears(Head(q), T, o) /\ Has(Tail(q), T, o))
<1>1. /\ Head(q) \in Frames /\ Tail(q) \in Seq(Frames) /\ Head(q) = q[1] /\ 1 \in DOMAIN q
      /\ DOMAIN Tail(q) \subseteq Nat \ {0}
      /\ \A i \in DOMAIN Tail(q) : i + 1 \in DOMAIN q /\ Tail(q)[i] = q[i + 1]
  OBVIOUS
<1> HIDE DEF Frames
<1>2. \A i, j \in DOMAIN Tail(q) : i + 1 = j + 1 => i = j
  BY <1>1
<1>3. \A i \in DOMAIN Tail(q) : i + 1 # 1
  BY <1>1
<1> QED BY <1>1, <1>2, <1>3 DEF Has, Lone

(* several that bear nothing are put in: *)
LEMMA PutNone ==
  ASSUME NEW q \in Seq(Frames), NEW fs \in Seq(Frames), NEW T, NEW o,
         \A k \in DOMAIN fs : ~Bears(fs[k], T, o)
  PROVE  /\ q \o fs \in Seq(Frames)
         /\ Has(q \o fs, T, o) => Has(q, T, o)
         /\ Lone(q, T, o) => Lone(q \o fs, T, o)
<1>1. /\ q \o fs \in Seq(Frames)
      /\ \A i \in DOMAIN (q \o fs) : \/ i \in DOMAIN q /\ (q \o fs)[i] = q[i]
                                     \/ \E k \in DOMAIN fs : (q \o fs)[i] = fs[k]
  <2>1. q \o fs \in Seq(Frames) /\ Len(q \o fs) = Len(q) + Len(fs)
    BY ConcatProperties
  <2>2. ASSUME NEW i \in DOMAIN (q \o fs)
        PROVE  \/ i \in DOMAIN q /\ (q \o fs)[i] = q[i]
               \/ \E k \in DOMAIN fs : (q \o fs)[i] = fs[k]
    <3>1. i \in 1 .. (Len(q) + Len(fs))
      BY <2>1
    <3>2. CASE i <= Len(q)
      BY <3>1, <3>2
    <3>3. CASE i > Len(q)
      <4>1. i - Len(q) \in DOMAIN fs /\ (q \o fs)[i] = fs[i - Len(q)]
        BY <3>1, <3>3
      <4> QED BY <4>1
    <3> QED BY <3>1, <3>2, <3>3
  <2> QED BY <2>1, <2>2
<1> HIDE DEF Frames
<1> QED BY <1>1 DEF Has, Lone

(* and none is left. *)
LEMMA Emptied ==
  ASSUME NEW T, NEW o
  PROVE  ~Has(<<>>, T, o) /\ Lone(<<>>, T, o) /\ <<>> \in Seq(Frames)
BY DEF Has, Lone

(* An item on its way is offered, or acknowledged. *)
LEMMA ItemsAre ==
  ASSUME NEW o
  PROVE  OnWay(Items, o) <=> OnWay(Offers, o) \/ OnWay(Thanks, o)
BY DEF OnWay, Has, Bears, Items

(* What was handed over tells the two directions apart. *)
LEMMA UptoNext ==
  ASSUME NEW n \in Nat
  PROVE  /\ Upto(n) # Upto(n + 1)
         /\ Append(Upto(n), n) = Upto(n + 1)
         /\ Upto(0) = <<>>
<1>1. Upto(n) \in Seq(Int) /\ Len(Upto(n)) = n /\ Upto(n + 1) \in Seq(Int) /\ Len(Upto(n + 1)) = n + 1
  BY DEF Upto
<1>2. Append(Upto(n), n) = Upto(n + 1)
  BY <1>1 DEF Upto
<1>3. Upto(0) = <<>>
  BY DEF Upto
<1> QED BY <1>1, <1>2, <1>3

-----------------------------------------------------------------------------
(* What a step does to the frames of an operation. *)

(* Those of T are no more than they were, *)
Kept(T, o) == (OnWay(T, o)' => OnWay(T, o)) /\ (Single(T, o) => Single(T, o)')

(* and so of every kind of token. *)
Still(o) ==
  Kept(Calls, o) /\ Kept(Offers, o) /\ Kept(Thanks, o) /\ Kept(Items, o) /\ Kept(Endings, o)

(* A pipe is as it was, read, or cut. *)
Shrinks(q, r) == r = q \/ r = <<>> \/ (q # <<>> /\ r = Tail(q))

(* Nothing is put in that was not there. *)
LEMMA Shrinking ==
  ASSUME NEW q \in Seq(Frames), NEW r, Shrinks(q, r), NEW T, NEW o
  PROVE  r \in Seq(Frames) /\ (Has(r, T, o) => Has(q, T, o)) /\ (Lone(q, T, o) => Lone(r, T, o))
<1>1. CASE r = q
  BY <1>1
<1>2. CASE r = <<>>
  BY <1>2, Emptied
<1>3. CASE q # <<>> /\ r = Tail(q)
  BY <1>3, TakeOut
<1> QED BY <1>1, <1>2, <1>3 DEF Shrinks

(* A pipe stays one. *)
LEMMA PipeStays ==
  ASSUME NEW q \in Seq(Frames)
  PROVE  /\ \A r : Shrinks(q, r) => r \in Seq(Frames)
         /\ \A f \in Frames : Append(q, f) \in Seq(Frames) /\ q \o <<f>> = Append(q, f)
         /\ \A fs \in Seq(Frames) : q \o fs \in Seq(Frames)
         /\ q # <<>> => Head(q) \in Frames /\ Tail(q) \in Seq(Frames)
<1> HIDE DEF Frames
<1>1. \A fs \in Seq(Frames) : q \o fs \in Seq(Frames)
  OBVIOUS
<1>2. \A f \in Frames : Append(q, f) \in Seq(Frames) /\ q \o <<f>> = Append(q, f)
  OBVIOUS
<1>3. <<>> \in Seq(Frames) /\ (q # <<>> => Head(q) \in Frames /\ Tail(q) \in Seq(Frames))
  OBVIOUS
<1> QED BY <1>1, <1>2, <1>3 DEF Shrinks

(* Then no token appears. *)
LEMMA ShrunkKeeps ==
  ASSUME Pipes, NEW T, NEW o, Shrinks(toNode, toNode'), Shrinks(toPython, toPython')
  PROVE  Kept(T, o)
<1>2. toNode \in Seq(Frames) /\ toPython \in Seq(Frames)
  BY DEF Pipes
<1>1. /\ toNode' \in Seq(Frames) /\ (Has(toNode', T, o) => Has(toNode, T, o))
      /\ Lone(toNode, T, o) => Lone(toNode', T, o)
  BY <1>2, Shrinking
<1>3. /\ toPython' \in Seq(Frames) /\ (Has(toPython', T, o) => Has(toPython, T, o))
      /\ Lone(toPython, T, o) => Lone(toPython', T, o)
  BY <1>2, Shrinking
<1> QED BY <1>1, <1>3 DEF Kept, OnWay, Single

(* A frame that is sent is the only new one. *)
LEMMA SentKeeps ==
  ASSUME Pipes, NEW F \in Frames, toNode' \in {toNode, Append(toNode, F)}, UNCHANGED toPython,
         NEW T, NEW o
  PROVE  /\ ~Bears(F, T, o) => Kept(T, o)
         /\ ~OnWay(T, o) => Single(T, o)'
<1>1. toNode \in Seq(Frames)
  BY DEF Pipes
<1>2. ~OnWay(T, o) => Lone(toNode, T, o) /\ Lone(toPython, T, o)
  BY DEF OnWay, Has, Lone
<1> QED BY ZenonT(60), <1>1, <1>2, PutIn DEF Kept, OnWay, Single, Pipes

(* The process answers a frame with one of the same kind. *)
LEMMA PassedKeeps ==
  ASSUME Pipes, NEW T, NEW o, NEW f \in Frames, toNode # <<>>,
         toNode' = Tail(toNode), toPython' = Append(toPython, f),
         Bears(f, T, o) => Bears(Head(toNode), T, o)
  PROVE  Kept(T, o)
<1>1. toNode \in Seq(Frames) /\ toPython \in Seq(Frames)
  BY DEF Pipes
<1>2. /\ Tail(toNode) \in Seq(Frames)
      /\ Has(Tail(toNode), T, o) => Has(toNode, T, o)
      /\ Bears(Head(toNode), T, o) => Has(toNode, T, o)
      /\ Lone(toNode, T, o) => /\ Lone(Tail(toNode), T, o)
                               /\ ~(Bears(Head(toNode), T, o) /\ Has(Tail(toNode), T, o))
  BY <1>1, TakeOut
<1>3. /\ Append(toPython, f) \in Seq(Frames)
      /\ Has(Append(toPython, f), T, o) <=> Has(toPython, T, o) \/ Bears(f, T, o)
      /\ Lone(toPython, T, o) /\ ~(Has(toPython, T, o) /\ Bears(f, T, o))
           => Lone(Append(toPython, f), T, o)
  BY <1>1, PutIn
<1> QED BY <1>2, <1>3 DEF Kept, OnWay, Single

(* Or tells Python what is no token. *)
LEMMA ToldKeeps ==
  ASSUME Pipes, NEW T, NEW o, Shrinks(toNode, toNode'),
         NEW fs \in Seq(Frames), \A k \in DOMAIN fs : ~Bears(fs[k], T, o), toPython' = toPython \o fs
  PROVE  Kept(T, o)
<1>1. toNode \in Seq(Frames) /\ toPython \in Seq(Frames)
  BY DEF Pipes
<1>2. /\ toPython \o fs \in Seq(Frames)
      /\ Has(toPython \o fs, T, o) => Has(toPython, T, o)
      /\ Lone(toPython, T, o) => Lone(toPython \o fs, T, o)
  BY <1>1, PutNone
<1>3. /\ toNode' \in Seq(Frames)
      /\ Has(toNode', T, o) => Has(toNode, T, o)
      /\ Lone(toNode, T, o) => Lone(toNode', T, o)
  BY <1>1, Shrinking
<1> QED BY <1>2, <1>3 DEF Kept, OnWay, Single

(* A kind of token is passed on as such, and includes no other frames. *)
Matched(T) ==
  /\ "host.call" \in T => "invoke" \in T
  /\ "item" \in T => "host.item" \in T
  /\ "host.ack" \in T => "ack" \in T
  /\ "done" \in T => "host.done" \in T
  /\ \A type \in {"accepted", "refused", "failed", "host.cancel"} : type \notin T

(* What the process answers is of the kind it was asked. *)
LEMMA KindsMatch ==
  Matched(Calls) /\ Matched(Offers) /\ Matched(Thanks) /\ Matched(Items) /\ Matched(Endings)
BY DEF Matched, Calls, Offers, Thanks, Items, Endings

(* What a frame is made of. *)
LEMMA FrameIs ==
  ASSUME NEW type \in Types, NEW of \in Op \union Control, NEW n \in Int
  PROVE  /\ Frame(type, of) \in Frames
         /\ Frame(type, of).type = type /\ Frame(type, of).of = of
         /\ Numbered(type, of, n) \in Frames
         /\ Numbered(type, of, n).type = type
         /\ Numbered(type, of, n).of = of
BY DEF Frame, Numbered, Frames

(* The process makes no tokens. *)
LEMMA NodeKeeps ==
  ASSUME Pipes, NodeStep \/ NodeDies
  PROVE  Pipes' /\ \A o : Still(o)
<1>1. toNode \in Seq(Frames) /\ toPython \in Seq(Frames)
  BY DEF Pipes
<1>2. ASSUME toNode # <<>> PROVE Head(toNode) \in Frames /\ Head(toNode).of \in Op \union Control
  <2>1. Head(toNode) \in Frames
    BY <1>1, <1>2, TakeOut
  <2> QED BY <2>1 DEF Frames
<1>3. /\ \A type \in Types, of \in Op \union Control :
           /\ Frame(type, of) \in Frames
           /\ Frame(type, of).type = type /\ Frame(type, of).of = of
      /\ \A type \in Types, of \in Op \union Control, n \in Int :
           /\ Numbered(type, of, n) \in Frames
           /\ Numbered(type, of, n).type = type
           /\ Numbered(type, of, n).of = of
  BY FrameIs
<1> USE DEF Types
<1>4. \A fs : Answers(fs) => /\ toNode' = Tail(toNode) /\ toPython' = toPython \o fs
  BY DEF Answers, Tells
<1>5. /\ DOMAIN node = DOMAIN NoNode /\ NoNode.ops = {} /\ IsFiniteSet({})
      /\ IsFiniteSet(node.ops) /\ node.ops \subseteq Op \union Control
  BY FS_EmptySet DEF Pipes, NoNode
<1>6. ASSUME toNode # <<>>, NEW type \in {"accepted", "refused", "failed"}, Answers(<<Frame(type, Asked)>>)
      PROVE  /\ toNode' \in Seq(Frames) /\ toPython' \in Seq(Frames)
             /\ \A T, o : Matched(T) => Kept(T, o)
  <2> DEFINE f == Frame(type, Asked)
             fs == <<f>>
  <2>1. f \in Frames /\ f.type = type
    BY <1>2, <1>3, <1>6 DEF Asked
  <2> HIDE DEF f
  <2>2. fs \in Seq(Frames) /\ \A k \in DOMAIN fs : fs[k].type = type
    BY <2>1
  <2>3. Shrinks(toNode, toNode') /\ toPython' = toPython \o fs
    BY <1>4, <1>6 DEF Shrinks, f
  <2> HIDE DEF fs
  <2>4. ASSUME NEW T, NEW o, Matched(T) PROVE Kept(T, o)
    <3>1. \A k \in DOMAIN fs : ~Bears(fs[k], T, o)
      BY <2>2, <2>4 DEF Matched, Bears
    <3> QED BY <2>2, <2>3, <3>1, ToldKeeps
  <2> QED BY <1>1, <2>2, <2>3, <2>4, PipeStays
<1>7. ASSUME toNode # <<>>, Answers(<<>>)
      PROVE  /\ toNode' \in Seq(Frames) /\ toPython' \in Seq(Frames)
             /\ \A T, o : Matched(T) => Kept(T, o)
  <2>1. Shrinks(toNode, toNode') /\ Shrinks(toPython, toPython')
    BY SMTT(60), <1>1, <1>4, <1>7 DEF Shrinks
  <2> QED BY <1>1, <2>1, ShrunkKeeps, PipeStays
<1>8. ASSUME toNode # <<>>, NEW f \in Frames, Answers(<<f>>), f.of = Asked,
             \/ Head(toNode).type = "invoke" /\ f.type = "host.call"
             \/ Head(toNode).type = "host.item" /\ f.type = "item"
             \/ Head(toNode).type = "ack" /\ f.type = "host.ack"
             \/ Head(toNode).type = "host.done" /\ f.type = "done"
      PROVE  /\ toNode' \in Seq(Frames) /\ toPython' \in Seq(Frames)
             /\ \A T, o : Matched(T) => Kept(T, o)
  <2>1. toNode' = Tail(toNode) /\ toPython' = toPython \o <<f>>
    BY <1>4, <1>8
  <2>2. toPython' = Append(toPython, f)
    BY <1>1, <1>8, <2>1, PipeStays
  <2>3. ASSUME NEW T, NEW o, Matched(T) PROVE Kept(T, o)
    <3>1. Bears(f, T, o) => Bears(Head(toNode), T, o)
      BY <1>8, <2>3 DEF Matched, Bears, Asked
    <3> QED BY <1>8, <2>1, <2>2, <3>1, PassedKeeps
  <2>4. toNode' \in Seq(Frames) /\ toPython' \in Seq(Frames)
    BY <1>1, <1>8, <2>1, <2>2, PipeStays
  <2> QED BY <2>3, <2>4
<1>9. CASE NodeInitialize
  <2>1. toNode # <<>> /\ node'.ops = node.ops
    BY <1>5, <1>9 DEF NodeInitialize, Serves, NoNode
  <2> QED BY <1>6, <1>9, <2>1, KindsMatch DEF NodeInitialize, Still, Pipes
<1>10. CASE NodeConfigure
  <2>1. toNode # <<>> /\ node'.ops = node.ops
    BY <1>5, <1>10 DEF NodeConfigure, Serves, NoNode
  <2> QED BY <1>6, <1>10, <2>1, KindsMatch DEF NodeConfigure, Still, Pipes
<1>11. CASE NodeClose
  <2>1. toNode' = <<>> /\ node' = NoNode
    BY <1>11 DEF NodeClose, Dies
  <2>2. PICK order \in [1..Cardinality(node.ops) -> node.ops] :
          Tells([i \in 1..(2 * Len(order)) |->
                     Frame(IF i % 2 = 1 THEN "host.cancel" ELSE "failed", order[(i + 1) \div 2])]
                  \o <<Frame("accepted", "close")>>)
    BY <1>11 DEF NodeClose
  <2>3. Cardinality(node.ops) \in Nat /\ node.ops \subseteq Op \union Control
    BY FS_CardinalityType DEF Pipes
  <2>4. Len(order) \in Nat /\ DOMAIN order = 1 .. Len(order)
    BY <2>3
  <2> DEFINE es == [i \in 1..(2 * Len(order)) |->
                     Frame(IF i % 2 = 1 THEN "host.cancel" ELSE "failed", order[(i + 1) \div 2])]
             fs == es \o <<Frame("accepted", "close")>>
  <2>5. \A i \in 1..(2 * Len(order)) : es[i] \in Frames /\ es[i].type \in {"host.cancel", "failed"}
    <3> SUFFICES ASSUME NEW i \in 1..(2 * Len(order))
                 PROVE  es[i] \in Frames /\ es[i].type \in {"host.cancel", "failed"}
      OBVIOUS
    <3>1. (i + 1) \div 2 \in 1 .. Len(order)
      BY <2>4
    <3>2. order[(i + 1) \div 2] \in Op \union Control
      BY <2>3, <2>4, <3>1
    <3>3. ASSUME NEW type \in {"host.cancel", "failed"}, es[i] = Frame(type, order[(i + 1) \div 2])
          PROVE  es[i] \in Frames /\ es[i].type \in {"host.cancel", "failed"}
      <4>1. type \in Types
        OBVIOUS
      <4> HIDE DEF es
      <4> QED BY <1>3, <3>2, <3>3, <4>1
    <3>4. es[i] = Frame("host.cancel", order[(i + 1) \div 2]) \/ es[i] = Frame("failed", order[(i + 1) \div 2])
      OBVIOUS
    <3> QED BY <3>3, <3>4
  <2>6. es \in Seq(Frames) /\ Len(es) = 2 * Len(order)
    BY <2>4, <2>5
  <2>7. Frame("accepted", "close") \in Frames /\ Frame("accepted", "close").type = "accepted"
    BY <1>3 DEF Control
  <2> HIDE DEF es
  <2>8. fs = Append(es, Frame("accepted", "close"))
    BY <2>6, <2>7
  <2>9. fs \in Seq(Frames) /\ \A k \in DOMAIN fs : fs[k].type \in {"host.cancel", "failed", "accepted"}
    BY <2>4, <2>5, <2>6, <2>7, <2>8
  <2>10. toPython' = toPython \o fs
    BY <2>2 DEF Tells, es
  <2> HIDE DEF fs
  <2>11. \A T, o : Matched(T) => \A k \in DOMAIN fs : ~Bears(fs[k], T, o)
    BY <2>9 DEF Matched, Bears
  <2>12. /\ toNode' \in Seq(Frames) /\ toPython' \in Seq(Frames)
         /\ \A T, o : Matched(T) => Kept(T, o)
    <3>1. Shrinks(toNode, toNode')
      BY <2>1 DEF Shrinks
    <3> QED BY <1>1, <2>9, <2>10, <2>11, <3>1, ToldKeeps, PipeStays
  <2> QED BY <1>5, <2>1, <2>12, KindsMatch DEF Pipes, Still
<1>12. CASE NodeInvoke
  <2>1. toNode # <<>> /\ Head(toNode).type = "invoke" /\ Asked \in Op \union Control
    BY <1>2, <1>12 DEF NodeInvoke, Serves, Asked
  <2>2. CASE node' = [node EXCEPT !.ops = @ \union {Asked}] /\ Answers(<<Frame("host.call", Asked)>>)
    <3>1. node'.ops \in {node.ops, node.ops \union {Asked}}
      BY <2>2
    <3>2. IsFiniteSet(node'.ops) /\ node'.ops \subseteq Op \union Control
      BY SMTT(60), <2>1, <3>1, FS_AddElement DEF Pipes
    <3> QED BY <1>3, <1>8, <2>1, <2>2, <3>2, KindsMatch DEF Still, Pipes
  <2>3. CASE node' = node /\ Answers(<<Frame("failed", Asked)>>)
    BY <1>6, <2>1, <2>3, KindsMatch DEF Still, Pipes
  <2> QED BY <1>12, <2>2, <2>3 DEF NodeInvoke
<1>13. CASE NodeItem
  <2>1. toNode # <<>> /\ Head(toNode).type = "host.item" /\ Asked \in Op \union Control
        /\ node'.ops = node.ops /\ DOMAIN node' = DOMAIN node /\ Head(toNode) \in Frames
    BY <1>2, <1>5, <1>13 DEF NodeItem, Serves, Asked, NoNode
  <2>2. Answers(<<>>) \/ (node.sequence[Asked] = Head(toNode).sequence
                           /\ Answers(<<Numbered("item", Asked, node.sequence[Asked])>>))
    BY <1>13 DEF NodeItem
  <2>3. Head(toNode).sequence \in Int
    BY <2>1 DEF Frames
  <2>4. node.sequence[Asked] = Head(toNode).sequence => node.sequence[Asked] \in Int
    BY <2>3
  <2> HIDE DEF Frames
  <2> QED BY <1>3, <1>5, <1>7, <1>8, <2>1, <2>2, <2>4, KindsMatch DEF Still, Pipes
<1>14. CASE NodeAck
  <2>1. toNode # <<>> /\ Head(toNode).type = "ack" /\ Asked \in Op \union Control
        /\ node'.ops = node.ops /\ DOMAIN node' = DOMAIN node /\ Head(toNode) \in Frames
    BY <1>2, <1>5, <1>14 DEF NodeAck, Serves, Asked, NoNode
  <2>2. Answers(<<>>) \/ (node.sequence[Asked] = Head(toNode).sequence
                           /\ Answers(<<Numbered("host.ack", Asked, node.sequence[Asked])>>))
    BY <1>14 DEF NodeAck
  <2>3. Head(toNode).sequence \in Int
    BY <2>1 DEF Frames
  <2>4. node.sequence[Asked] = Head(toNode).sequence => node.sequence[Asked] \in Int
    BY <2>3
  <2> HIDE DEF Frames
  <2> QED BY <1>3, <1>5, <1>7, <1>8, <2>1, <2>2, <2>4, KindsMatch DEF Still, Pipes
<1>15. CASE NodeDone
  <2>1. toNode # <<>> /\ Head(toNode).type \in {"host.done", "host.error"} /\ Asked \in Op \union Control
    BY <1>2, <1>15 DEF NodeDone, Serves, Asked
  <2>2. node'.ops \in {node.ops, node.ops \ {Asked}} /\ DOMAIN node' = DOMAIN node
    BY <1>5, <1>15 DEF NodeDone, Forgetting, NoNode
  <2>3. IsFiniteSet(node'.ops) /\ node'.ops \subseteq Op \union Control
    BY <1>5, <2>2, FS_RemoveElement
  <2>4. CASE Answers(<<>>)
    BY <1>5, <1>7, <2>1, <2>2, <2>3, <2>4, KindsMatch DEF Still, Pipes
  <2>5. CASE Answers(<<Frame("failed", Asked)>>)
    BY <1>5, <1>6, <2>1, <2>2, <2>3, <2>5, KindsMatch DEF Still, Pipes
  <2>6. CASE Head(toNode).type = "host.done" /\ Answers(<<Frame("done", Asked)>>)
    <3>1. /\ toNode' \in Seq(Frames) /\ toPython' \in Seq(Frames)
          /\ \A T, o : Matched(T) => Kept(T, o)
      BY <1>3, <1>8, <2>1, <2>6
    <3> QED BY <1>5, <2>2, <2>3, <3>1, KindsMatch DEF Still, Pipes
  <2> QED BY <1>15, <2>1, <2>4, <2>5, <2>6 DEF NodeDone, Serves
<1>16. CASE NodeCancel
  <2>1. toNode # <<>> /\ Asked \in Op \union Control
    BY <1>2, <1>16 DEF NodeCancel, Serves, Asked
  <2>2. node'.ops \in {node.ops, node.ops \ {Asked}} /\ DOMAIN node' = DOMAIN node
    BY <1>5, <1>16 DEF NodeCancel, Forgetting, NoNode
  <2>3. IsFiniteSet(node'.ops) /\ node'.ops \subseteq Op \union Control
    BY <2>1, <2>2, FS_RemoveElement DEF Pipes
  <2> DEFINE fs == <<Frame("host.cancel", Asked), Frame("failed", Asked)>>
  <2>4. Answers(<<>>) \/ Answers(fs)
    BY <1>16 DEF NodeCancel
  <2>5. fs \in Seq(Frames) /\ \A k \in DOMAIN fs : fs[k].type \in {"host.cancel", "failed"}
    BY <1>3, <2>1
  <2> HIDE DEF fs
  <2>6. \A T, o : Matched(T) => \A k \in DOMAIN fs : ~Bears(fs[k], T, o)
    BY <2>5 DEF Matched, Bears
  <2>7. ASSUME Answers(fs)
        PROVE  /\ toNode' \in Seq(Frames) /\ toPython' \in Seq(Frames)
               /\ \A T, o : Matched(T) => Kept(T, o)
    <3>1. Shrinks(toNode, toNode') /\ toPython' = toPython \o fs
      BY <1>4, <2>1, <2>7 DEF Shrinks
    <3> QED BY <1>1, <2>5, <2>6, <3>1, ToldKeeps, PipeStays
  <2> QED BY <1>5, <1>7, <2>1, <2>2, <2>3, <2>4, <2>7, KindsMatch DEF Still, Pipes
<1>17. CASE NodeDies
  <2>1. toNode' = <<>> /\ node' = NoNode /\ toPython' = toPython
    BY <1>17 DEF NodeDies, Dies, readerVars
  <2>2. Shrinks(toNode, toNode') /\ Shrinks(toPython, toPython')
    BY <2>1 DEF Shrinks
  <2> QED BY <1>1, <1>5, <2>1, <2>2, ShrunkKeeps, PipeStays DEF Pipes, Still
<1> QED BY <1>9, <1>10, <1>11, <1>12, <1>13, <1>14, <1>15, <1>16, <1>17 DEF NodeStep

-----------------------------------------------------------------------------
(* What a step does to an operation. *)

(* Nothing that matters here. *)
Same(x, y) ==
  /\ DOMAIN y = DOMAIN x
  /\ y.pc = x.pc /\ y.outcome = x.outcome /\ y.task = x.task /\ y.ended = x.ended
  /\ y.error = x.error /\ y.queue = x.queue /\ y.sequence = x.sequence /\ y.value = x.value
  /\ y.acked = x.acked /\ y.got = x.got

(* It will not succeed any more. *)
Worse(x, y) ==
  /\ Shape(y) /\ y.pc \notin Unborn /\ y.outcome # "ok"
  /\ y.pc \in Attended =>
       /\ x.pc \in Attended /\ (x.task = "none" => y.task = "none")
       /\ \/ y.error # "none"
          \/ /\ x.error = "none" /\ x.task # "gone" /\ y.task = "stop"
             /\ Holds(y, "done") => Holds(x, "done")

(* A token that is no more than it was, of an operation that is as it was, *)
LEMMA SameKeeps ==
  ASSUME NEW o, Token(o), Still(o), Same(op[o], op'[o])
  PROVE  Token(o)'
<1> DEFINE x == op[o]
           y == op'[o]
<1>1. Shape(x) /\ Untold(o) /\ Called(o) /\ Round(o) /\ Closing(o) /\ Succeeds(x)
  BY DEF Token
<1>2. Shape(y) /\ Succeeds(y) /\ (Live(y) <=> Live(x)) /\ (Handed(x) => Handed(y)) /\ (Sole(x) => Sole(y))
      /\ (Offered(x) => Offered(y)) /\ (Thanked(x) => Thanked(y)) /\ \A type : Holds(y, type) => Holds(x, type)
  BY <1>1 DEF Same, Shape, Succeeds, Live, Handed, Sole, Offered, Thanked, Holds
<1>3. Untold(o)' /\ Called(o)' /\ Closing(o)'
  BY <1>1, <1>2 DEF Same, Untold, Called, Closing, Still, Kept
<1>4. Round(o)'
  BY <1>1, <1>2 DEF Same, Round, Still, Kept
<1> QED BY <1>2, <1>3, <1>4 DEF Token

(* or will not succeed. *)
LEMMA WorseKeeps ==
  ASSUME NEW o, Token(o), Worse(op[o], op'[o]),
         op'[o].pc \in Attended => Kept(Calls, o) /\ (op'[o].error = "none" => Kept(Endings, o))
  PROVE  Token(o)'
<1>1. ~Live(op'[o]) /\ Shape(op'[o]) /\ Succeeds(op'[o])
  BY DEF Worse, Live, Succeeds
<1>2. Untold(o)' /\ Round(o)'
  BY <1>1 DEF Worse, Untold, Round
<1>3. Called(o)' /\ Closing(o)'
  BY DEF Worse, Called, Closing, Token, Kept
<1> QED BY <1>1, <1>2, <1>3 DEF Token

(* What _fail does to a registered operation. *)
LEMMA StruckWorse ==
  ASSUME NEW x, NEW y, Worse(x, y)
  PROVE  Worse(x, Struck(y))
<1>1. Shape(Struck(y)) /\ Struck(y).pc = y.pc /\ Struck(y).outcome = y.outcome
      /\ Struck(y).error = "engine" /\ (y.task = "none" => Struck(y).task = "none")
  BY DEF Struck, Worse, Shape, New, Entries, Done, Cancelled
<1> QED BY <1>1 DEF Worse

(* One that was as it was before. *)
LEMMA AttendedStruck ==
  ASSUME NEW x, Shape(x), x.pc \in Attended, Succeeds(x)
  PROVE  Worse(x, Struck(x))
<1>1. Shape(Struck(x)) /\ Struck(x).pc = x.pc /\ Struck(x).outcome = x.outcome
      /\ Struck(x).error = "engine" /\ (x.task = "none" => Struck(x).task = "none")
  BY DEF Struck, Shape, New, Entries, Done, Cancelled
<1> QED BY <1>1 DEF Worse, Succeeds, Attended, Unborn

(* Cancelling its callback. *)
Halted(x) == [x EXCEPT !.task = Cancelled(@)]

(* It matters only where the callback was at work. *)
LEMMA HaltedKeeps ==
  ASSUME NEW x, Shape(x), x.pc \in Attended, Succeeds(x)
  PROVE  Same(x, Halted(x)) \/ Worse(x, Halted(x))
<1>1. /\ DOMAIN Halted(x) = DOMAIN x
      /\ Halted(x).pc = x.pc /\ Halted(x).outcome = x.outcome /\ Halted(x).ended = x.ended
      /\ Halted(x).error = x.error /\ Halted(x).queue = x.queue /\ Halted(x).sequence = x.sequence
      /\ Halted(x).value = x.value /\ Halted(x).acked = x.acked /\ Halted(x).got = x.got
      /\ Halted(x).task = Cancelled(x.task)
  BY DEF Halted, Shape, New
<1>2. CASE x.task \in {"check", "run", "ack"}
  <2>1. Halted(x).task = "stop" /\ x.task \notin {"gone", "none"}
    BY <1>1, <1>2 DEF Cancelled
  <2>2. Shape(Halted(x)) /\ Halted(x).pc \notin Unborn /\ Halted(x).outcome # "ok"
    BY <1>1 DEF Shape, Unborn, Attended, Succeeds
  <2>3. Holds(Halted(x), "done") => Holds(x, "done")
    BY <1>1 DEF Holds
  <2> QED BY <1>1, <2>1, <2>2, <2>3 DEF Worse
<1>3. CASE x.task \notin {"check", "run", "ack"}
  BY <1>1, <1>3 DEF Cancelled, Same
<1> QED BY <1>2, <1>3

(* A caller that leaves without success, or is gone. *)
LEMMA LeavesWorse ==
  ASSUME NEW x, NEW outcome, Shape(x), outcome # "ok"
  PROVE  Worse(x, Leaves(x, outcome))
<1>1. /\ DOMAIN Leaves(x, outcome) = DOMAIN x
      /\ Leaves(x, outcome).pc = "release" /\ Leaves(x, outcome).outcome = outcome
      /\ Leaves(x, outcome).queue = x.queue /\ Leaves(x, outcome).sequence = x.sequence
      /\ Leaves(x, outcome).error = x.error
  BY DEF Shape, Leaves, New
<1> QED BY <1>1 DEF Worse, Shape, Unborn, Attended

(* That is gone, its release cut short or not. *)
LEMMA EndsWorse ==
  ASSUME NEW x, Shape(x), Succeeds(x)
  PROVE  Worse(x, Ends(x)) /\ Worse(x, Ends([x EXCEPT !.cut = TRUE]))
<1>1. Shape(Past) /\ Past.pc = "end" /\ Past.outcome = "none"
  BY DEF Shape, Past, New
<1>2. Worse(x, Past)
  BY <1>1 DEF Worse, Unborn, Attended
<1>3. ASSUME NEW y, DOMAIN y = DOMAIN New, y.outcome = x.outcome, y.task = x.task, y.sequence = x.sequence
      PROVE  Worse(x, Ends(y))
  <2> DEFINE z == [y EXCEPT !.pc = "end", !.queue = <<>>, !.error = "none", !.got = <<>>]
  <2>1. Ends(y) = Past \/ (Ends(y) = z /\ x.task \notin {"none", "gone"})
    BY <1>3 DEF Ends
  <2>2. DOMAIN z = DOMAIN New /\ z.pc = "end" /\ z.queue = <<>> /\ z.outcome = x.outcome /\ z.sequence = x.sequence
        /\ z.error = "none"
    BY <1>3 DEF New
  <2>3. x.task # "gone" => Worse(x, z)
    BY <2>2 DEF Worse, Shape, Unborn, Attended, Succeeds
  <2> QED BY <1>2, <2>1, <2>3
<1>4. Worse(x, Ends(x))
  BY <1>3 DEF Shape
<1>5. Worse(x, Ends([x EXCEPT !.cut = TRUE]))
  <2>1. DOMAIN [x EXCEPT !.cut = TRUE] = DOMAIN New /\ [x EXCEPT !.cut = TRUE].outcome = x.outcome
        /\ [x EXCEPT !.cut = TRUE].task = x.task /\ [x EXCEPT !.cut = TRUE].sequence = x.sequence
    BY DEF Shape, New
  <2> QED BY <1>3, <2>1
<1> QED BY <1>4, <1>5

(* A callback that ends with an error. *)
LEMMA FailedWorse ==
  ASSUME NEW x, NEW e, NEW how, Shape(x), Succeeds(x), x.pc \notin Unborn,
         x.task \notin {"none", "gone"}, e \notin {"none", "ok"}
  PROVE  Worse(x, Over(Error(x, e), how))
<1> DEFINE z == Over(Error(x, e), how)
<1>1. DOMAIN z = DOMAIN x /\ z.pc = x.pc /\ z.outcome = x.outcome /\ z.error = e
      /\ z.queue = x.queue /\ z.sequence = x.sequence
  BY DEF Over, Error, Shape, New
<1> HIDE DEF z
<1>2. Worse(x, z)
  BY <1>1 DEF Worse, Shape, Succeeds
<1> QED BY <1>2 DEF z

-----------------------------------------------------------------------------
(* What _fail and _send keep. *)

(* _fail strikes what is registered, and ends the process; *)
LEMMA FailMoves ==
  ASSUME NEW f, DOMAIN f = Op, Fail(f)
  PROVE  /\ Shrinks(toNode, toNode') /\ node' \in {node, NoNode}
         /\ \A o \in Op : op'[o] = f[o] \/ (o \in operations /\ op'[o] = Struck(f[o]))
BY DEF Fail, Dies, Shrinks, nodeVars

(* The pipes stay pipes. *)
LEMMA PipesKept ==
  ASSUME Pipes, node' \in {node, NoNode},
         toNode' \in Seq(Frames), toPython' \in Seq(Frames)
  PROVE  Pipes'
<1>1. NoNode.ops = {} /\ IsFiniteSet({})
  BY FS_EmptySet DEF NoNode
<1>2. (DOMAIN NoNode)' = DOMAIN NoNode
  BY DEF NoNode
<1> QED BY <1>1, <1>2 DEF Pipes

(* no operation gets a token by it. *)
LEMMA FailKeeps ==
  ASSUME Tokens, NEW f, DOMAIN f = Op, Fail(f), Shrinks(toPython, toPython'),
         \A o \in Op : f[o] = op[o] \/ Worse(op[o], f[o])
  PROVE  Pipes' /\ \A o \in Op : Token(o)'
<1>1. Shrinks(toNode, toNode') /\ node' \in {node, NoNode}
      /\ \A o \in Op : op'[o] = f[o] \/ (o \in operations /\ op'[o] = Struck(f[o]))
  BY FailMoves
<1>2. Pipes /\ toNode \in Seq(Frames) /\ toPython \in Seq(Frames)
  BY DEF Tokens, Pipes
<1>3. Pipes'
  BY <1>1, <1>2, PipeStays, PipesKept
<1>4. ASSUME NEW o \in Op PROVE Token(o)'
  <2>1. Token(o) /\ Shape(op[o]) /\ Succeeds(op[o]) /\ (o \in operations => op[o].pc \in Attended)
    BY DEF Tokens, Token, Inv, AllGood
  <2>2. Still(o)
    BY <1>1, <1>2, ShrunkKeeps DEF Still
  <2>3. CASE op'[o] = op[o]
    BY <2>1, <2>2, <2>3, SameKeeps DEF Same
  <2>4. CASE Worse(op[o], op'[o])
    BY <2>1, <2>2, <2>4, WorseKeeps DEF Still
  <2>5. op'[o] = op[o] \/ Worse(op[o], op'[o])
    BY <1>1, <2>1, StruckWorse, AttendedStruck
  <2> QED BY <2>3, <2>4, <2>5
<1> QED BY <1>3, <1>4

(* A frame of o is sent, or what it takes fails. *)
LEMMA WriteKeeps ==
  ASSUME Tokens, NEW o \in Op, NEW F \in Frames, F.of = o, NEW sent, NEW raised, Worse(op[o], raised),
         Write(F, [op EXCEPT ![o] = sent], [op EXCEPT ![o] = raised]), UNCHANGED toPython,
         op'[o] = sent /\ toNode' \in {toNode, Append(toNode, F)} => Token(o)'
  PROVE  Pipes' /\ \A p \in Op : Token(p)'
<1>1. Pipes /\ toNode \in Seq(Frames) /\ toPython \in Seq(Frames) /\ DOMAIN op = Op
  BY DEF Tokens, Pipes, Inv, AllGood
<1>2. Shrinks(toPython, toPython')
  BY DEF Shrinks
<1>3. CASE Fail([op EXCEPT ![o] = raised])
  BY <1>1, <1>2, <1>3, FailKeeps
<1>4. CASE op' = [op EXCEPT ![o] = raised] /\ UNCHANGED nodeVars
  <2>1. Shrinks(toNode, toNode') /\ node' = node
    BY <1>4 DEF Shrinks, nodeVars
  <2>2. Pipes' /\ \A p : Still(p)
    BY <1>1, <1>2, <2>1, ShrunkKeeps, PipeStays, PipesKept DEF Still
  <2>3. \A p \in Op : Token(p) /\ (Same(op[p], op'[p]) \/ Worse(op[p], op'[p]))
    BY <1>1, <1>4 DEF Same, Tokens
  <2> QED BY <2>2, <2>3, SameKeeps, WorseKeeps DEF Still
<1>5. CASE op' = [op EXCEPT ![o] = sent] /\ Send(F) /\ node' = node
  <2>1. toNode' \in {toNode, Append(toNode, F)}
    BY <1>5 DEF Send
  <2>2. Pipes'
    BY <1>1, <1>5, <2>1, PipeStays, PipesKept
  <2>3. ASSUME NEW p \in Op, p # o PROVE Token(p)'
    <3>1. Still(p)
      BY <1>1, <2>1, <2>3, SentKeeps DEF Still, Bears
    <3> QED BY <1>1, <1>5, <2>3, <3>1, SameKeeps DEF Same, Tokens
  <2> QED BY <1>1, <1>5, <2>1, <2>2, <2>3
<1> QED BY <1>3, <1>4, <1>5 DEF Write

-----------------------------------------------------------------------------
(* The steps keep the tokens. *)

(* What is known of an operation. *)
LEMMA About ==
  ASSUME Tokens, NEW o \in Op
  PROVE  /\ DOMAIN op = Op /\ Pipes /\ toNode \in Seq(Frames) /\ toPython \in Seq(Frames)
         /\ Shape(op[o]) /\ Untold(o) /\ Called(o) /\ Round(o) /\ Closing(o) /\ Succeeds(op[o])
         /\ Good(op[o]) /\ (o \in operations => op[o].pc \in Attended)
BY DEF Tokens, Pipes, Token, Inv, AllGood

(* A step of one operation that puts no token on its way. *)
LEMMA OneKeeps ==
  ASSUME Tokens, NEW o \in Op, NEW y, op' = [op EXCEPT ![o] = y],
         Pipes', \A p : Still(p), Token(o)'
  PROVE  \A p \in Op : Token(p)'
<1> SUFFICES ASSUME NEW p \in Op, p # o PROVE Token(p)'
  OBVIOUS
<1>1. Same(op[p], op'[p]) /\ Token(p)
  BY About DEF Same, Tokens
<1> QED BY <1>1, SameKeeps

(* And leaves the pipes alone. *)
LEMMA StepKeeps ==
  ASSUME Tokens, NEW o \in Op, NEW y, op' = [op EXCEPT ![o] = y],
         UNCHANGED <<nodeVars, toPython>>, (\A p : Still(p)) => Token(o)'
  PROVE  Pipes' /\ \A p \in Op : Token(p)'
<1>1. Pipes /\ toNode \in Seq(Frames) /\ toPython \in Seq(Frames)
  BY About
<1>2. Shrinks(toNode, toNode') /\ Shrinks(toPython, toPython') /\ node' = node
  BY DEF Shrinks, nodeVars
<1>3. Pipes' /\ \A p : Still(p)
  BY <1>1, <1>2, ShrunkKeeps, PipeStays, PipesKept DEF Still
<1> QED BY <1>3, OneKeeps

(* Frames that are no tokens. *)
LEMMA Plain ==
  ASSUME Pipes, NEW F \in Frames, F.type \in {"initialize", "configure", "close", "cancel", "host.error"},
         toNode' \in {toNode, Append(toNode, F)}, node' = node, UNCHANGED toPython
  PROVE  Pipes' /\ \A p : Still(p)
<1>1. toNode \in Seq(Frames) /\ toPython \in Seq(Frames)
  BY DEF Pipes
<1>2. \A p : ~Bears(F, Calls, p) /\ ~Bears(F, Offers, p) /\ ~Bears(F, Thanks, p) /\ ~Bears(F, Items, p)
             /\ ~Bears(F, Endings, p)
  BY DEF Bears, Calls, Offers, Thanks, Items, Endings
<1>3. Pipes'
  BY <1>1, PipeStays, PipesKept
<1> QED BY <1>2, <1>3, SentKeeps DEF Still

(* Callers come: nothing is on its way for them. *)
LEMMA ArrivalTokens ==
  ASSUME Tokens, NEW o \in Op,
         Start(o) \/ Started(o) \/ StartEnds(o) \/ StartFails(o) \/ StartCancelled(o)
  PROVE  Pipes' /\ \A p \in Op : Token(p)'
<1>0. DOMAIN op = Op /\ Pipes /\ Shape(op[o]) /\ Untold(o) /\ Succeeds(op[o])
  BY About
<1>1. op[o].pc \in {"out", "starting"}
  BY DEF Start, Started, StartEnds, StartFails, StartCancelled
<1>2. Worse(op[o], Ends(op[o]))
  BY <1>0, EndsWorse
<1>3. ASSUME NEW pc \in {"starting", "verify"}, op' = [op EXCEPT ![o].pc = pc], Still(o)
      PROVE  Token(o)'
  <2> DEFINE x == op[o]
             y == op'[o]
  <2>1. /\ DOMAIN y = DOMAIN x /\ y.pc = pc /\ y.sequence = x.sequence /\ y.got = x.got
        /\ y.queue = x.queue /\ y.outcome = x.outcome /\ y.error = x.error
    BY <1>0, <1>3 DEF Shape, New
  <2>2. Shape(y) /\ Succeeds(y)
    BY <1>0, <1>1, <2>1 DEF Shape, Succeeds
  <2>3. Untold(o)'
    BY <1>0, <1>1, <1>3, <2>1 DEF Untold, Unborn, Still, Kept
  <2>4. Called(o)' /\ Round(o)' /\ Closing(o)'
    BY <1>3, <2>1 DEF Called, Round, Closing, Live, Attended
  <2> QED BY <2>2, <2>3, <2>4 DEF Token
<1>4. CASE Start(o)
  <2>1. Frame("initialize", "initialize") \in Frames /\ Frame("initialize", "initialize").type = "initialize"
    BY FrameIs DEF Types, Control
  <2>2. Pipes' /\ \A p : Still(p)
    BY <1>0, <1>4, <2>1, Plain DEF Start
  <2> QED BY <1>3, <1>4, <2>2, OneKeeps DEF Start
<1>5. CASE Started(o)
  <2>1. CASE op' = [op EXCEPT ![o] = [op[o] EXCEPT !.pc = "verify"]]
    BY <1>3, <1>5, <2>1, StepKeeps DEF Started, readerVars
  <2>2. CASE op' = [op EXCEPT ![o] = Ends(op[o])]
    <3>1. Still(o) => Token(o)'
      BY <1>0, <1>2, <2>2, WorseKeeps DEF Still, Tokens
    <3> QED BY <1>5, <2>2, <3>1, StepKeeps DEF Started, readerVars
  <2> QED BY <1>5, <2>1, <2>2 DEF Started
<1>6. CASE StartEnds(o)
  BY <1>3, <1>6, StepKeeps DEF StartEnds, readerVars
<1>7. CASE StartFails(o) \/ StartCancelled(o)
  <2>1. Fail([op EXCEPT ![o] = Ends(op[o])]) /\ toPython' = toPython
    BY <1>7 DEF StartFails, StartCancelled
  <2> QED BY <1>0, <1>2, <2>1, FailKeeps DEF Shrinks
<1> QED BY <1>4, <1>5, <1>6, <1>7

(* The frame that asks for an operation is its first. *)
LEMMA InvokeTokens ==
  ASSUME Tokens, NEW o \in Op, Invoke(o) \/ InvokeRevoked(o)
  PROVE  Pipes' /\ \A p \in Op : Token(p)'
<1>0. DOMAIN op = Op /\ Pipes /\ Shape(op[o]) /\ Untold(o) /\ Succeeds(op[o]) /\ Good(op[o])
  BY About
<1>1. op[o].pc = "verify" /\ op[o].task = "none"
  BY <1>0 DEF Invoke, InvokeRevoked, Good, Unborn
<1>2. Worse(op[o], Ends(op[o]))
  BY <1>0, EndsWorse
<1>3. CASE InvokeRevoked(o)
  BY <1>0, <1>2, <1>3, FailKeeps DEF InvokeRevoked, readerVars, Shrinks
<1>4. CASE Invoke(o)
  <2> DEFINE F == Frame("invoke", o)
             y == [op[o] EXCEPT !.pc = "wait"]
  <2>1. F \in Frames /\ F.of = o /\ F.type = "invoke"
    BY FrameIs DEF Types
  <2>2. CASE op' = [op EXCEPT ![o] = Ends(op[o])] /\ UNCHANGED nodeVars
    <3>1. Still(o) => Token(o)'
      BY <1>0, <1>2, <2>2, WorseKeeps DEF Still, Tokens
    <3> QED BY <1>4, <2>2, <3>1, StepKeeps DEF Invoke, readerVars
  <2>3. ASSUME op'[o] = y, toNode' \in {toNode, Append(toNode, F)} PROVE Token(o)'
    <3>1. /\ DOMAIN y = DOMAIN op[o] /\ y.pc = "wait" /\ y.sequence = 0 /\ y.got = <<>>
          /\ y.queue = <<>> /\ y.outcome = op[o].outcome /\ y.task = "none" /\ y.error = op[o].error
      BY <1>0, <1>1 DEF Shape, New, Untold, Unborn
    <3>2. ~OnWay(Calls, o) /\ ~OnWay(Items, o) /\ ~OnWay(Endings, o)
      BY <1>0, <1>1 DEF Untold, Unborn
    <3>3. ~OnWay(Offers, o) /\ ~OnWay(Thanks, o)
      BY <3>2, ItemsAre
    <3>4. ~Bears(F, Items, o) /\ ~Bears(F, Offers, o) /\ ~Bears(F, Thanks, o) /\ ~Bears(F, Endings, o)
      BY <2>1 DEF Bears, Items, Offers, Thanks, Endings
    <3> HIDE DEF F, y
    <3>5. toPython' = toPython
      BY <1>4 DEF Invoke, readerVars
    <3>6. Single(Calls, o)' /\ Single(Items, o)' /\ ~OnWay(Items, o)' /\ ~OnWay(Endings, o)'
          /\ ~OnWay(Offers, o)' /\ ~OnWay(Thanks, o)'
      BY <1>0, <2>1, <2>3, <3>2, <3>3, <3>4, <3>5, SentKeeps DEF Kept
    <3>7. ~Holds(y, "item") /\ ~Holds(y, "done") /\ Sole(y)
      BY <3>1 DEF Holds, Sole
    <3>8. Shape(y) /\ Succeeds(y)
      BY <1>0, <1>1, <3>1 DEF Shape, Succeeds
    <3>9. Handed(y)
      BY <3>1, UptoNext DEF Handed
    <3>10. Untold(o)' /\ Called(o)' /\ Closing(o)' /\ Round(o)'
      BY <2>3, <3>1, <3>6, <3>7, <3>9 DEF Untold, Called, Closing, Round, Unborn
    <3> QED BY <2>3, <3>8, <3>10 DEF Token
  <2>4. CASE Write(F, [op EXCEPT ![o] = y], [op EXCEPT ![o] = Ends(op[o])])
    <3> HIDE DEF F, y
    <3> QED BY <1>2, <1>4, <2>1, <2>3, <2>4, WriteKeeps DEF Invoke, readerVars
  <2> QED BY <1>4, <2>2, <2>4 DEF Invoke
<1> QED BY <1>3, <1>4

(* Leaving without success. *)
LEMMA LeaveTokens ==
  ASSUME Tokens, NEW o \in Op, NEW outcome, outcome # "ok",
         \/ op' = [op EXCEPT ![o] = Leaves(op[o], outcome)] /\ UNCHANGED <<nodeVars, toPython>>
         \/ Fail([op EXCEPT ![o] = Leaves(op[o], outcome)]) /\ UNCHANGED toPython
  PROVE  Pipes' /\ \A p \in Op : Token(p)'
<1>1. DOMAIN op = Op /\ Shape(op[o]) /\ Token(o)
  BY About DEF Tokens
<1>2. Worse(op[o], Leaves(op[o], outcome))
  BY <1>1, LeavesWorse
<1>3. CASE op' = [op EXCEPT ![o] = Leaves(op[o], outcome)] /\ UNCHANGED <<nodeVars, toPython>>
  <2>1. Still(o) => Token(o)'
    BY <1>1, <1>2, <1>3, WorseKeeps DEF Still
  <2> QED BY <1>3, <2>1, StepKeeps
<1>4. CASE Fail([op EXCEPT ![o] = Leaves(op[o], outcome)]) /\ UNCHANGED toPython
  BY <1>1, <1>2, <1>4, FailKeeps DEF Shrinks
<1> QED BY <1>3, <1>4

(* The consumer takes the end: it is a success where the callback has told *)
(* no error, and then nothing it gave is on its way any more.              *)
LEMMA TakeDoneTokens ==
  ASSUME Tokens, NEW o \in Op, TakeDone(o)
  PROVE  Pipes' /\ \A p \in Op : Token(p)'
<1> DEFINE x == op[o]
           outcome == IF op[o].error = "none" THEN "ok" ELSE op[o].error
           z == [op[o] EXCEPT !.queue = Tail(@)]
           y == Leaves(z, outcome)
<1>1. DOMAIN op = Op /\ Shape(x) /\ Round(o) /\ Closing(o)
  BY About
<1>2. /\ x.pc = "wait" /\ x.queue # <<>> /\ Head(x.queue) = Done /\ op' = [op EXCEPT ![o] = y]
      /\ UNCHANGED <<nodeVars, toPython>>
  BY DEF TakeDone, Queued, readerVars
<1>3. Holds(x, "done")
  <2>1. x.queue \in Seq(Entries)
    BY <1>1 DEF Shape
  <2>2. 1 \in DOMAIN x.queue /\ x.queue[1] = Done
    BY <1>2, <2>1
  <2> QED BY <2>2 DEF Holds, Done
<1>4. Shape(y) /\ y.pc = "release" /\ y.outcome = outcome /\ y.task = x.task /\ y.ended = x.ended
      /\ y.got = x.got /\ y.sequence = x.sequence
  <2>1. Tail(x.queue) \in Seq(Entries)
    BY <1>1, <1>2 DEF Shape
  <2> QED BY <1>1, <2>1 DEF Leaves, Shape, New
<1>5. Succeeds(y)
  <2>1. CASE x.error = "none"
    <3>1. x.task = "gone"
      BY <1>1, <1>2, <1>3, <2>1 DEF Closing, Attended
    <3>2. Handed(x)
      BY <1>1, <1>2, <2>1, <3>1 DEF Round, Live, Attended
    <3> QED BY <1>4, <3>1, <3>2 DEF Handed, Succeeds
  <2>2. CASE x.error # "none"
    BY <1>1, <1>4, <2>2 DEF Succeeds, Shape
  <2> QED BY <2>1, <2>2
<1> HIDE DEF y
<1>6. Token(o)'
  BY <1>1, <1>2, <1>4, <1>5 DEF Token, Untold, Called, Closing, Round, Live, Unborn, Attended
<1> QED BY <1>2, <1>6, StepKeeps

(* Or an item: nothing else of the stream is on its way then. *)
LEMMA TakeItemTokens ==
  ASSUME Tokens, NEW o \in Op, TakeItem(o)
  PROVE  Pipes' /\ \A p \in Op : Token(p)'
<1> DEFINE x == op[o]
           y == [op[o] EXCEPT !.queue = Tail(@), !.got = Append(@, op[o].value), !.pc = "hold"]
<1>1. DOMAIN op = Op /\ Shape(x) /\ Called(o) /\ Round(o) /\ Closing(o) /\ Succeeds(x)
  BY About
<1>2. x.pc = "wait" /\ x.queue # <<>> /\ UNCHANGED <<nodeVars, toPython>>
  BY DEF TakeItem, Queued, readerVars
<1>3. CASE Head(x.queue) # Item(x.sequence)
  BY <1>2, <1>3, LeaveTokens DEF TakeItem
<1>4. CASE Head(x.queue) = Item(x.sequence)
  <2>1. op' = [op EXCEPT ![o] = y]
    BY <1>4 DEF TakeItem
  <2>2. /\ DOMAIN y = DOMAIN x /\ y.pc = "hold" /\ y.queue = Tail(x.queue)
        /\ y.got = Append(x.got, x.value) /\ y.task = x.task /\ y.acked = x.acked /\ y.error = x.error
        /\ y.sequence = x.sequence /\ y.value = x.value /\ y.outcome = x.outcome /\ y.ended = x.ended
    BY <1>1 DEF Shape, New
  <2> HIDE DEF y
  <2>3. x.queue \in Seq(Entries) /\ x.sequence \in Nat
    BY <1>1 DEF Shape
  <2>4. /\ 1 \in DOMAIN x.queue /\ x.queue[1].type = "item" /\ Tail(x.queue) \in Seq(Entries)
        /\ \A i \in DOMAIN Tail(x.queue) : i + 1 \in DOMAIN x.queue /\ i + 1 # 1 /\ Tail(x.queue)[i] = x.queue[i + 1]
    BY <1>2, <1>4, <2>3 DEF Item
  <2>5. Holds(x, "item") /\ (Holds(y, "done") => Holds(x, "done")) /\ (Sole(x) => ~Holds(y, "item") /\ Sole(y))
    BY <2>2, <2>4 DEF Holds, Sole
  <2>6. Shape(y) /\ Succeeds(y)
    BY <1>1, <1>2, <2>2, <2>3, <2>4 DEF Shape, Succeeds
  <2>7. ASSUME Still(o) PROVE Token(o)'
    <3>1. CASE Live(x)
      <4>1. Offered(x) /\ Handed(x) /\ Single(Items, o) /\ ~OnWay(Offers, o) /\ Sole(x)
        BY <1>1, <2>5, <3>1 DEF Round
      <4>2. ~OnWay(Thanks, o)
        <5>1. Upto(x.sequence) # Upto(x.sequence + 1)
          BY <2>3, UptoNext
        <5> QED BY <1>1, <3>1, <4>1, <5>1 DEF Round, Offered, Thanked
      <4>3. y.got = Upto(y.sequence + 1)
        BY <2>2, <2>3, <4>1, UptoNext DEF Offered, Handed
      <4>4. Round(o)'
        BY <2>1, <2>2, <2>5, <2>7, <4>1, <4>2, <4>3, <1>1 DEF Round, Handed, Offered, Still, Kept
      <4>5. Untold(o)' /\ Called(o)' /\ Closing(o)'
        BY <1>1, <1>2, <2>1, <2>2, <2>5, <2>7 DEF Untold, Called, Closing, Still, Kept, Unborn, Attended
      <4> QED BY <1>1, <2>1, <2>6, <4>4, <4>5 DEF Token
    <3>2. CASE ~Live(x)
      <4>1. ~Live(y)
        BY <1>2, <2>2, <3>2 DEF Live, Attended
      <4>2. Untold(o)' /\ Called(o)' /\ Closing(o)' /\ Round(o)'
        BY <1>1, <1>2, <2>1, <2>2, <2>5, <2>7, <4>1
           DEF Untold, Called, Closing, Round, Still, Kept, Unborn, Attended
      <4> QED BY <1>1, <2>1, <2>6, <4>2 DEF Token
    <3> QED BY <3>1, <3>2
  <2> QED BY <1>2, <2>1, <2>7, StepKeeps
<1> QED BY <1>3, <1>4

(* And asks for the next one. *)
LEMMA AcknowledgeTokens ==
  ASSUME Tokens, NEW o \in Op, Acknowledge(o)
  PROVE  Pipes' /\ \A p \in Op : Token(p)'
<1> DEFINE x == op[o]
           y == [op[o] EXCEPT !.pc = "wait"]
           F == Numbered("ack", o, op[o].sequence)
<1>1. DOMAIN op = Op /\ Pipes /\ Shape(x) /\ Called(o) /\ Round(o) /\ Closing(o) /\ Succeeds(x)
  BY About
<1>2. x.pc = "hold" /\ UNCHANGED toPython
      /\ Write(F, [op EXCEPT ![o] = y], [op EXCEPT ![o] = Leaves(x, "engine")])
  BY DEF Acknowledge, readerVars
<1>3. F \in Frames /\ F.of = o /\ F.type = "ack"
  BY <1>1, FrameIs DEF Types, Shape
<1>4. Worse(x, Leaves(x, "engine"))
  BY <1>1, LeavesWorse
<1>5. /\ DOMAIN y = DOMAIN x /\ y.pc = "wait" /\ y.queue = x.queue
      /\ y.got = x.got /\ y.task = x.task /\ y.acked = x.acked /\ y.error = x.error
      /\ y.sequence = x.sequence /\ y.value = x.value /\ y.outcome = x.outcome /\ y.ended = x.ended
  BY <1>1 DEF Shape, New
<1>6. ~Bears(F, Calls, o) /\ ~Bears(F, Offers, o) /\ ~Bears(F, Endings, o)
  BY <1>3 DEF Bears, Calls, Offers, Endings
<1> HIDE DEF y, F
<1>7. ASSUME op'[o] = y, toNode' \in {toNode, Append(toNode, F)} PROVE Token(o)'
  <2>1. Kept(Calls, o) /\ Kept(Offers, o) /\ Kept(Endings, o) /\ (~OnWay(Items, o) => Single(Items, o)')
    BY <1>1, <1>2, <1>3, <1>6, <1>7, SentKeeps
  <2>2. Shape(y) /\ Succeeds(y) /\ (Holds(y, "done") <=> Holds(x, "done")) /\ (Holds(y, "item") <=> Holds(x, "item"))
        /\ (Sole(x) => Sole(y)) /\ (Live(y) <=> Live(x))
    BY <1>1, <1>2, <1>5 DEF Shape, Succeeds, Holds, Sole, Live, Attended
  <2>3. Untold(o)' /\ Called(o)' /\ Closing(o)'
    BY <1>1, <1>2, <1>5, <1>7, <2>1, <2>2 DEF Untold, Called, Closing, Kept, Unborn, Attended
  <2>4. CASE Live(x)
    <3>1. Handed(x) /\ x.task = "ack" /\ ~x.acked /\ ~OnWay(Offers, o) /\ ~OnWay(Thanks, o) /\ ~Holds(x, "item")
          /\ x.got = Upto(x.sequence + 1) /\ Sole(x)
      BY <1>1, <1>2, <2>4 DEF Round, Handed, Offered, Thanked
    <3>2. Single(Items, o)'
      BY <2>1, <3>1, ItemsAre
    <3>3. Round(o)'
      BY <1>5, <1>7, <2>1, <2>2, <3>1, <3>2 DEF Round, Handed, Thanked, Kept
    <3> QED BY <1>7, <2>2, <2>3, <3>3 DEF Token
  <2>5. CASE ~Live(x)
    BY <1>7, <2>2, <2>3, <2>5 DEF Token, Round
  <2> QED BY <2>4, <2>5
<1> QED BY <1>2, <1>3, <1>4, <1>7, WriteKeeps

(* What callers do once they wait. *)
LEMMA ConsumerTokens ==
  ASSUME Tokens, NEW o \in Op, DispatchTimeout(o) \/ CloseStream(o)
  PROVE  Pipes' /\ \A p \in Op : Token(p)'
<1>1. CASE DispatchTimeout(o)
  <2>1. Raised # "ok" /\ Fail([op EXCEPT ![o] = Leaves(op[o], Raised)]) /\ UNCHANGED toPython
    BY <1>1 DEF DispatchTimeout, Raised, readerVars
  <2> QED BY <2>1, LeaveTokens
<1>2. CASE CloseStream(o)
  BY <1>2, LeaveTokens DEF CloseStream, readerVars
<1> QED BY <1>1, <1>2

(* A caller that has left, or is cancelled. *)
LEMMA DepartureTokens ==
  ASSUME Tokens, NEW o \in Op, Release(o) \/ Joined(o) \/ CancelCaller(o)
  PROVE  Pipes' /\ \A p \in Op : Token(p)'
<1> DEFINE x == op[o]
           F == Frame("cancel", o)
<1>1. DOMAIN op = Op /\ Pipes /\ Shape(x) /\ Succeeds(x) /\ Token(o)
  BY About DEF Tokens
<1>2. F \in Frames /\ F.of = o /\ F.type = "cancel"
  BY FrameIs DEF Types
<1> HIDE DEF F
<1>3. Worse(x, Ends(x)) /\ Worse(x, Ends([x EXCEPT !.cut = TRUE]))
  BY <1>1, EndsWorse
<1>4. ASSUME NEW y, Worse(x, y), op' = [op EXCEPT ![o] = y], UNCHANGED <<nodeVars, toPython>>
      PROVE  Pipes' /\ \A p \in Op : Token(p)'
  <2>1. Still(o) => Token(o)'
    BY <1>1, <1>4, WorseKeeps DEF Still
  <2> QED BY <1>4, <2>1, StepKeeps
<1>5. ASSUME NEW y, Worse(x, y), op' = [op EXCEPT ![o] = y], UNCHANGED <<node, toPython>>,
             toNode' \in {toNode, Append(toNode, F)}
      PROVE  Pipes' /\ \A p \in Op : Token(p)'
  <2>1. Pipes' /\ \A p : Still(p)
    BY <1>1, <1>2, <1>5, Plain
  <2>2. Token(o)'
    BY <1>1, <1>5, <2>1, WorseKeeps DEF Still
  <2> QED BY <1>5, <2>1, <2>2, OneKeeps
<1>6. CASE Release(o)
  <2> DEFINE y == IF x.task \in {"none", "gone"} THEN Ends(x)
                  ELSE [x EXCEPT !.task = Cancelled(x.task), !.pc = "join"]
  <2>1. Left(o) = [op EXCEPT ![o] = y] /\ x.pc = "release"
    BY <1>6 DEF Left, Release
  <2>2. Worse(x, y)
    <3>1. CASE x.task \in {"none", "gone"}
      BY <1>3, <3>1
    <3>2. CASE x.task \notin {"none", "gone"}
      BY <1>1, <3>2 DEF Worse, Shape, New, Succeeds, Unborn, Attended
    <3> QED BY <3>1, <3>2
  <2> HIDE DEF y
  <2>3. CASE op' = Left(o) /\ UNCHANGED <<nodeVars, toPython>>
    BY <1>4, <2>1, <2>2, <2>3
  <2>4. CASE Write(F, Left(o), Left(o)) /\ UNCHANGED toPython
    <3>1. op'[o] = y /\ toNode' \in {toNode, Append(toNode, F)} => Token(o)'
      <4> SUFFICES ASSUME op'[o] = y, toNode' \in {toNode, Append(toNode, F)} PROVE Token(o)'
        OBVIOUS
      <4>1. ~Bears(F, Calls, o) /\ ~Bears(F, Endings, o)
        BY <1>2 DEF Bears, Calls, Endings
      <4>2. Kept(Calls, o) /\ Kept(Endings, o)
        BY <1>1, <1>2, <2>4, <4>1, SentKeeps
      <4> QED BY <1>1, <2>2, <4>2, WorseKeeps
    <3>2. Write(F, [op EXCEPT ![o] = y], [op EXCEPT ![o] = y])
      BY <2>1, <2>4
    <3> QED BY <1>2, <2>2, <2>4, <3>1, <3>2, WriteKeeps
  <2> QED BY <1>6, <2>3, <2>4 DEF Release, readerVars, F
<1>7. CASE Joined(o)
  BY <1>3, <1>4, <1>7 DEF Joined, readerVars
<1>8. CASE CancelCaller(o)
  <2>1. UNCHANGED <<node, toPython>> /\ toNode' \in {toNode, Append(toNode, F)}
    BY <1>8 DEF CancelCaller, readerVars, F
  <2>2. \/ op' = [op EXCEPT ![o] = Ends(x)]
        \/ op' = [op EXCEPT ![o] = Leaves(x, "cancelled")]
        \/ op' = [op EXCEPT ![o] = Ends([x EXCEPT !.cut = TRUE])]
    BY <1>8 DEF CancelCaller
  <2>3. Worse(x, Leaves(x, "cancelled"))
    BY <1>1, LeavesWorse
  <2> QED BY <1>3, <1>5, <2>1, <2>2, <2>3
<1> QED BY <1>6, <1>7, <1>8

(* Steps after which every operation is as it was, or will not succeed. *)
LEMMA AllKeep ==
  ASSUME Tokens, Pipes', \A p : Still(p),
         \A p \in Op : Same(op[p], op'[p]) \/ Worse(op[p], op'[p])
  PROVE  Pipes' /\ \A p \in Op : Token(p)'
<1> SUFFICES ASSUME NEW p \in Op PROVE Token(p)'
  OBVIOUS
<1>1. Token(p) /\ Still(p) /\ Kept(Calls, p) /\ Kept(Endings, p)
  BY DEF Tokens, Still
<1> QED BY <1>1, SameKeeps, WorseKeeps

(* A caller that is there, with no success yet: what its token needs. *)
LEMMA Stays ==
  ASSUME NEW o, NEW x, NEW y, op'[o] = y, x.pc \notin Unborn, x.outcome # "ok",
         Shape(y), y.pc = x.pc, y.outcome = x.outcome, Called(o)', Round(o)', Closing(o)'
  PROVE  Token(o)'
BY DEF Token, Untold, Succeeds

(* A callback that runs: its call was answered, and nothing ends it. *)
LEMMA CallbackRuns ==
  ASSUME Tokens, NEW o \in Op, op[o].task \notin {"none", "gone"}
  PROVE  /\ op[o].pc \notin Unborn /\ op[o].outcome # "ok"
         /\ op[o].pc \in Attended => ~OnWay(Calls, o) /\ Single(Calls, o)
         /\ op[o].pc \in Attended /\ op[o].error = "none" => ~OnWay(Endings, o) /\ ~Holds(op[o], "done")
         /\ Live(op[o]) /\ (op[o].task # "ack" \/ op[o].acked) =>
              /\ op[o].pc = "wait" /\ Single(Items, o) /\ ~OnWay(Items, o)
              /\ ~OnWay(Offers, o) /\ ~OnWay(Thanks, o) /\ ~Holds(op[o], "item") /\ Sole(op[o])
<1>1. Good(op[o]) /\ Called(o) /\ Round(o) /\ Closing(o) /\ Succeeds(op[o])
  BY About
<1>2. op[o].pc \notin Unborn /\ op[o].outcome # "ok"
  BY <1>1 DEF Good, Succeeds
<1>3. op[o].pc \in Attended => ~OnWay(Calls, o) /\ Single(Calls, o)
  BY <1>1 DEF Called
<1>4. op[o].pc \in Attended /\ op[o].error = "none" => ~OnWay(Endings, o) /\ ~Holds(op[o], "done")
  BY <1>1 DEF Closing
<1>5. ASSUME Live(op[o]), op[o].task # "ack" \/ op[o].acked
      PROVE  /\ op[o].pc = "wait" /\ Single(Items, o) /\ ~OnWay(Items, o)
             /\ ~OnWay(Offers, o) /\ ~OnWay(Thanks, o) /\ ~Holds(op[o], "item") /\ Sole(op[o])
  BY <1>1, <1>5, ItemsAre DEF Round, Handed, Offered, Thanked, Live, Attended
<1> QED BY <1>2, <1>3, <1>4, <1>5

(* A callback ends with an error, told or not. *)
LEMMA FailedTokens ==
  ASSUME Tokens, NEW o \in Op, op[o].task \notin {"none", "gone"}, NEW e, e \notin {"none", "ok"}, NEW how
  PROVE  Worse(op[o], Over(Error(op[o], e), how))
<1>1. Shape(op[o]) /\ Succeeds(op[o]) /\ op[o].pc \notin Unborn
  BY About, CallbackRuns
<1> QED BY <1>1, FailedWorse

(* It is begun, or goes on after an item. *)
LEMMA GoesOnTokens ==
  ASSUME Tokens, NEW o \in Op, Checked(o) \/ Resume(o)
  PROVE  Pipes' /\ \A p \in Op : Token(p)'
<1> DEFINE x == op[o]
           y == IF x.task = "check" THEN [op[o] EXCEPT !.task = "run"]
                ELSE [op[o] EXCEPT !.sequence = @ + 1, !.value = Nothing, !.task = "run"]
<1>1. DOMAIN op = Op /\ Shape(x) /\ Round(o)
  BY About
<1>2. /\ x.task = "check" \/ (x.task = "ack" /\ x.acked)
      /\ UNCHANGED <<nodeVars, toPython>>
  BY DEF Checked, Resume, readerVars
<1>3. op' = [op EXCEPT ![o] = y]
  <2>1. CASE Checked(o)
    BY <2>1 DEF Checked
  <2>2. CASE Resume(o)
    BY <2>2 DEF Resume
  <2> QED BY <2>1, <2>2
<1>4. /\ DOMAIN y = DOMAIN x /\ y.pc = x.pc /\ y.outcome = x.outcome /\ y.error = x.error
      /\ y.queue = x.queue /\ y.got = x.got /\ y.task = "run"
      /\ y.sequence = IF x.task = "check" THEN x.sequence ELSE x.sequence + 1
  BY <1>1 DEF Shape, New
<1> HIDE DEF y
<1>5. /\ x.pc \notin Unborn /\ x.outcome # "ok"
      /\ x.pc \in Attended => ~OnWay(Calls, o) /\ Single(Calls, o)
      /\ x.pc \in Attended /\ x.error = "none" => ~OnWay(Endings, o) /\ ~Holds(x, "done")
      /\ Live(x) => /\ x.pc = "wait" /\ Single(Items, o) /\ ~OnWay(Items, o)
                    /\ ~OnWay(Offers, o) /\ ~OnWay(Thanks, o) /\ ~Holds(x, "item") /\ Sole(x)
  BY <1>2, CallbackRuns
<1>6. Shape(y) /\ (Live(y) => Live(x)) /\ (Sole(x) => Sole(y)) /\ \A type : Holds(y, type) => Holds(x, type)
  BY <1>1, <1>2, <1>4 DEF Shape, Live, Sole, Holds
<1>7. Live(x) => Handed(y)
  <2> SUFFICES ASSUME Live(x) PROVE Handed(y)
    OBVIOUS
  <2>1. Handed(x)
    BY <1>1 DEF Round
  <2> QED BY <1>2, <1>4, <1>5, <2>1 DEF Handed
<1>8. ASSUME Still(o) PROVE Token(o)'
  <2>1. Called(o)' /\ Closing(o)'
    BY <1>1, <1>3, <1>4, <1>5, <1>6, <1>8 DEF Called, Closing, Still, Kept
  <2>2. Round(o)'
    BY <1>1, <1>3, <1>5, <1>6, <1>7, <1>8 DEF Round, Still, Kept
  <2> QED BY <1>1, <1>3, <1>4, <1>5, <1>6, <2>1, <2>2, Stays
<1> QED BY <1>2, <1>3, <1>8, StepKeeps

(* It returns, and that is sent. *)
LEMMA ReturnTokens ==
  ASSUME Tokens, NEW o \in Op, Return(o)
  PROVE  Pipes' /\ \A p \in Op : Token(p)'
<1> DEFINE x == op[o]
           y == Over(op[o], "returned")
           z == Over(Error(op[o], "engine"), "raised")
           F == Frame("host.done", o)
<1>1. DOMAIN op = Op /\ Pipes /\ Shape(x) /\ Round(o) /\ Closing(o)
  BY About
<1>2. /\ x.task = "run" /\ UNCHANGED toPython
      /\ Write(F, [op EXCEPT ![o] = y], [op EXCEPT ![o] = z])
  BY DEF Return, Sends, readerVars
<1>3. F \in Frames /\ F.of = o /\ F.type = "host.done"
  BY FrameIs DEF Types
<1>4. Worse(x, z)
  BY <1>2, FailedTokens
<1>5. /\ DOMAIN y = DOMAIN x /\ y.pc = x.pc /\ y.outcome = x.outcome /\ y.error = x.error
      /\ y.queue = x.queue /\ y.got = x.got /\ y.sequence = x.sequence /\ y.task = "gone" /\ y.ended = "returned"
  BY <1>1 DEF Shape, New, Over
<1> HIDE DEF y, z, F
<1>6. /\ x.pc \notin Unborn /\ x.outcome # "ok"
      /\ x.pc \in Attended => ~OnWay(Calls, o) /\ Single(Calls, o)
      /\ Live(x) => /\ x.pc = "wait" /\ Single(Items, o) /\ ~OnWay(Items, o)
                    /\ ~OnWay(Offers, o) /\ ~OnWay(Thanks, o) /\ ~Holds(x, "item") /\ Sole(x)
  BY <1>2, CallbackRuns
<1>7. Shape(y) /\ (Live(y) => Live(x)) /\ (Sole(x) => Sole(y)) /\ (Holds(y, "item") => Holds(x, "item"))
  BY <1>1, <1>2, <1>5 DEF Shape, Live, Sole, Holds
<1>8. Live(x) => Handed(y)
  <2> SUFFICES ASSUME Live(x) PROVE Handed(y)
    OBVIOUS
  <2>1. Handed(x)
    BY <1>1 DEF Round
  <2> QED BY <1>2, <1>5, <1>6, <2>1 DEF Handed
<1>9. ASSUME op'[o] = y, toNode' \in {toNode, Append(toNode, F)} PROVE Token(o)'
  <2>1. ~Bears(F, Calls, o) /\ ~Bears(F, Offers, o) /\ ~Bears(F, Thanks, o) /\ ~Bears(F, Items, o)
    BY <1>3 DEF Bears, Calls, Offers, Thanks, Items
  <2>2. Kept(Calls, o) /\ Kept(Offers, o) /\ Kept(Thanks, o) /\ Kept(Items, o)
    BY <1>1, <1>2, <1>3, <1>9, <2>1, SentKeeps
  <2>3. Called(o)' /\ Closing(o)'
    BY <1>5, <1>6, <1>9, <2>2 DEF Called, Closing, Kept
  <2>4. Round(o)'
    BY <1>6, <1>7, <1>8, <1>9, <2>2 DEF Round, Kept
  <2> QED BY <1>5, <1>6, <1>7, <1>9, <2>3, <2>4, Stays
<1> QED BY <1>2, <1>3, <1>4, <1>9, WriteKeeps

(* Or yields: the item is the only one on its way. *)
LEMMA YieldTokens ==
  ASSUME Tokens, NEW o \in Op, Yield(o)
  PROVE  Pipes' /\ \A p \in Op : Token(p)'
<1> DEFINE x == op[o]
           y == [op[o] EXCEPT !.value = op[o].sequence, !.acked = FALSE, !.task = "ack"]
           z == Over(Error(op[o], "engine"), "raised")
           F == Numbered("host.item", o, op[o].sequence)
<1>1. DOMAIN op = Op /\ Pipes /\ Shape(x) /\ Round(o) /\ Closing(o)
  BY About
<1>2. /\ x.task = "run" /\ UNCHANGED toPython
      /\ Write(F, [op EXCEPT ![o] = y], [op EXCEPT ![o] = z])
  BY DEF Yield, Sends, readerVars
<1>3. F \in Frames /\ F.of = o /\ F.type = "host.item"
  BY <1>1, FrameIs DEF Types, Shape
<1>4. Worse(x, z)
  BY <1>2, FailedTokens
<1>5. /\ DOMAIN y = DOMAIN x /\ y.pc = x.pc /\ y.outcome = x.outcome /\ y.error = x.error
      /\ y.queue = x.queue /\ y.got = x.got /\ y.sequence = x.sequence /\ y.task = "ack"
      /\ y.value = x.sequence /\ ~y.acked
  BY <1>1 DEF Shape, New
<1> HIDE DEF y, z, F
<1>6. /\ x.pc \notin Unborn /\ x.outcome # "ok"
      /\ x.pc \in Attended => ~OnWay(Calls, o) /\ Single(Calls, o)
      /\ x.pc \in Attended /\ x.error = "none" => ~OnWay(Endings, o) /\ ~Holds(x, "done")
      /\ Live(x) => /\ x.pc = "wait" /\ Single(Items, o) /\ ~OnWay(Items, o)
                    /\ ~OnWay(Offers, o) /\ ~OnWay(Thanks, o) /\ ~Holds(x, "item") /\ Sole(x)
  BY <1>2, CallbackRuns
<1>7. Shape(y) /\ (Live(y) => Live(x)) /\ (Sole(x) => Sole(y)) /\ \A type : Holds(y, type) => Holds(x, type)
  BY <1>1, <1>2, <1>5 DEF Shape, Live, Sole, Holds
<1>8. Live(x) => Handed(y) /\ Offered(y)
  <2> SUFFICES ASSUME Live(x) PROVE Handed(y) /\ Offered(y)
    OBVIOUS
  <2>1. Handed(x)
    BY <1>1 DEF Round
  <2> QED BY <1>2, <1>5, <1>6, <2>1 DEF Handed, Offered
<1>9. ASSUME op'[o] = y, toNode' \in {toNode, Append(toNode, F)} PROVE Token(o)'
  <2>1. ~Bears(F, Calls, o) /\ ~Bears(F, Thanks, o) /\ ~Bears(F, Endings, o)
    BY <1>3 DEF Bears, Calls, Thanks, Endings
  <2>2. Kept(Calls, o) /\ Kept(Thanks, o) /\ Kept(Endings, o) /\ (~OnWay(Items, o) => Single(Items, o)')
    BY <1>1, <1>2, <1>3, <1>9, <2>1, SentKeeps
  <2>3. Called(o)' /\ Closing(o)'
    BY <1>5, <1>6, <1>7, <1>9, <2>2 DEF Called, Closing, Kept
  <2>4. Round(o)'
    BY <1>6, <1>7, <1>8, <1>9, <2>2 DEF Round, Kept
  <2> QED BY <1>5, <1>6, <1>7, <1>9, <2>3, <2>4, Stays
<1> QED BY <1>2, <1>3, <1>4, <1>9, WriteKeeps

(* A callback that fails, is stopped, or is not called. *)
LEMMA ErrorTokens ==
  ASSUME Tokens, NEW o \in Op, Revoked(o) \/ Raise(o) \/ Stopped(o)
  PROVE  Pipes' /\ \A p \in Op : Token(p)'
<1> DEFINE x == op[o]
           F == Frame("host.error", o)
<1>1. DOMAIN op = Op /\ Pipes /\ Shape(x) /\ Token(o)
  BY About DEF Tokens
<1>2. x.task \notin {"none", "gone"} /\ UNCHANGED toPython
  BY DEF Revoked, Raise, Stopped, Sends, readerVars
<1>3. F \in Frames /\ F.of = o /\ F.type = "host.error"
  BY FrameIs DEF Types
<1> HIDE DEF F
<1>4. ASSUME NEW e, e \notin {"none", "ok"}, NEW how, NEW z, z = Over(Error(x, e), how),
             Write(F, [op EXCEPT ![o] = z], [op EXCEPT ![o] = z])
      PROVE  Pipes' /\ \A p \in Op : Token(p)'
  <2>1. Worse(x, z)
    BY <1>2, <1>4, FailedTokens
  <2>2. ASSUME op'[o] = z, toNode' \in {toNode, Append(toNode, F)} PROVE Token(o)'
    <3>1. ~Bears(F, Calls, o) /\ ~Bears(F, Endings, o)
      BY <1>3 DEF Bears, Calls, Endings
    <3>2. Kept(Calls, o) /\ Kept(Endings, o)
      BY <1>1, <1>2, <1>3, <2>2, <3>1, SentKeeps
    <3> QED BY <1>1, <2>1, <2>2, <3>2, WorseKeeps
  <2> QED BY <1>2, <1>3, <1>4, <2>1, <2>2, WriteKeeps
<1>5. CASE Revoked(o)
  <2>1. Raised \notin {"none", "ok"} /\ Fail([op EXCEPT ![o] = Over(Error(x, Raised), "raised")])
    BY <1>5 DEF Revoked, Raised
  <2>2. Worse(x, Over(Error(x, Raised), "raised"))
    BY <1>2, <2>1, FailedTokens
  <2> HIDE DEF x
  <2> QED BY <1>1, <1>2, <2>1, <2>2, FailKeeps DEF Shrinks, x
<1>6. CASE Raise(o)
  <2>1. Write(F, [op EXCEPT ![o] = Over(Error(x, "error"), "raised")],
                 [op EXCEPT ![o] = Over(Error(x, "error"), "raised")])
    BY <1>6 DEF Raise, Sends, F
  <2> QED BY <1>4, <2>1
<1>7. CASE Stopped(o)
  <2> DEFINE e == IF x.error = "none" THEN "cancelled" ELSE x.error
  <2>1. e \notin {"none", "ok"}
    BY <1>1 DEF Shape
  <2>2. Write(F, [op EXCEPT ![o] = Over(Error(x, e), "stopped")], [op EXCEPT ![o] = Over(Error(x, e), "stopped")])
    BY <1>7 DEF Stopped, Sends, F
  <2> HIDE DEF e
  <2> QED BY <1>4, <2>1, <2>2
<1> QED BY <1>5, <1>6, <1>7

(* A token that is read is on its way no more. *)
LEMMA Taken ==
  ASSUME Pipes, toPython # <<>>, toPython' = Tail(toPython), UNCHANGED toNode, NEW T, NEW o,
         Bears(Head(toPython), T, o)
  PROVE  OnWay(T, o) /\ (Single(T, o) => ~OnWay(T, o)')
<1>1. toPython \in Seq(Frames)
  BY DEF Pipes
<1>2. Has(toPython, T, o) /\ (Lone(toPython, T, o) => ~Has(Tail(toPython), T, o))
  BY <1>1, TakeOut
<1> QED BY <1>2 DEF OnWay, Single

(* The queue of an operation takes an entry more. *)
LEMMA Enqueued ==
  ASSUME NEW q \in Seq(Entries), NEW e \in Entries
  PROVE  /\ Append(q, e) \in Seq(Entries)
         /\ \E i \in DOMAIN Append(q, e) : Append(q, e)[i] = e
         /\ \A i \in DOMAIN q : i \in DOMAIN Append(q, e) /\ Append(q, e)[i] = q[i]
         /\ \A i \in DOMAIN Append(q, e) : i = Len(q) + 1 \/ i \in DOMAIN q
         /\ Append(q, e)[Len(q) + 1] = e
<1> HIDE DEF Entries
<1> QED OBVIOUS

(* What a frame does to the operation it is for. *)
LEMMA ToldTokens ==
  ASSUME Tokens, NEW o \in Op, op[o].pc \in Attended, NEW f \in Frames, f.of = o,
         toPython # <<>>, f = Head(toPython), toPython' = Tail(toPython), UNCHANGED toNode,
         op'[o] = Told(o, f), Still(o)
  PROVE  Token(o)'
<1> DEFINE x == op[o]
           y == Told(o, f)
<1>1. /\ Pipes /\ Shape(x) /\ Called(o) /\ Round(o) /\ Closing(o) /\ Succeeds(x) /\ Token(o)
      /\ x.pc \notin Unborn /\ x.outcome # "ok" /\ x.queue \in Seq(Entries)
  BY About DEF Tokens, Succeeds, Shape, Attended, Unborn
<1>0. op'[o] = y /\ Still(o)
  OBVIOUS
<1>2. f.sequence \in Int
  BY DEF Frames
<1>3. CASE f.type = "host.call"
  <2>1. /\ DOMAIN y = DOMAIN x /\ y.pc = x.pc /\ y.outcome = x.outcome /\ y.error = x.error
        /\ y.queue = x.queue /\ y.got = x.got /\ y.sequence = x.sequence /\ y.task = "check"
    BY <1>1, <1>3 DEF Told, Shape, New
  <2> HIDE DEF y
  <2>2. x.task = "none" /\ ~OnWay(Calls, o)' /\ Single(Calls, o)'
    <3>1. Bears(f, Calls, o)
      BY <1>3 DEF Bears, Calls
    <3> QED BY <1>1, <3>1, Taken DEF Called, Still, Kept
  <2>3. Shape(y) /\ (Live(y) => Live(x)) /\ (Sole(x) => Sole(y)) /\ \A type : Holds(y, type) => Holds(x, type)
    BY <1>1, <2>1, <2>2 DEF Shape, Live, Sole, Holds
  <2>4. Called(o)' /\ Closing(o)'
    BY <1>0, <1>1, <2>1, <2>2, <2>3 DEF Called, Closing, Still, Kept
  <2>5. Live(x) => Handed(y) /\ ~Offered(x) /\ ~Thanked(x)
    BY <1>1, <2>1, <2>2 DEF Round, Handed, Offered, Thanked
  <2>6. Round(o)'
    BY <1>0, <1>1, <2>3, <2>5 DEF Round, Still, Kept
  <2> QED BY <1>0, <1>1, <2>1, <2>3, <2>4, <2>6, Stays
<1>4. CASE f.type = "host.ack"
  <2>1. /\ DOMAIN y = DOMAIN x /\ y.pc = x.pc /\ y.outcome = x.outcome /\ y.error = x.error
        /\ y.queue = x.queue /\ y.got = x.got /\ y.sequence = x.sequence /\ y.task = x.task
        /\ y.value = x.value /\ y.acked
    BY <1>1, <1>4 DEF Told, Shape, New
  <2> HIDE DEF y
  <2>2. Shape(y) /\ (Live(y) => Live(x)) /\ (Sole(x) => Sole(y)) /\ \A type : Holds(y, type) => Holds(x, type)
    BY <1>1, <2>1 DEF Shape, Live, Sole, Holds
  <2>3. Called(o)' /\ Closing(o)'
    BY <1>0, <1>1, <2>1, <2>2 DEF Called, Closing, Still, Kept
  <2>4. ASSUME Live(x) PROVE Round(o)'
    <3>1. Bears(f, Thanks, o) /\ Bears(f, Items, o)
      BY <1>4 DEF Bears, Items, Thanks
    <3>2. Thanked(x) /\ Handed(x) /\ Sole(x)
      BY <1>1, <2>4, <3>1, Taken DEF Round
    <3>3. ~OnWay(Items, o)' /\ Single(Items, o)'
      BY <1>1, <2>4, <3>1, Taken DEF Round, Still, Kept
    <3>4. ~OnWay(Offers, o)' /\ ~OnWay(Thanks, o)'
      BY <3>3, PTL, ItemsAre
    <3>5. ~Holds(x, "item")
      BY <1>1, <2>4, <3>2, UptoNext DEF Round, Offered, Thanked, Shape
    <3>6. Handed(y)
      BY <2>1, <3>2 DEF Handed, Thanked
    <3> QED BY <1>0, <2>2, <3>2, <3>3, <3>4, <3>5, <3>6 DEF Round
  <2>5. Round(o)'
    BY <1>0, <2>2, <2>4 DEF Round
  <2> QED BY <1>0, <1>1, <2>1, <2>2, <2>3, <2>5, Stays
<1>5. CASE f.type = "item"
  <2> DEFINE e == Item(f.sequence)
  <2>1. /\ DOMAIN y = DOMAIN x /\ y.pc = x.pc /\ y.outcome = x.outcome /\ y.error = x.error
        /\ y.queue = Append(x.queue, e) /\ y.got = x.got /\ y.sequence = x.sequence /\ y.task = x.task
        /\ y.value = x.value /\ y.acked = x.acked /\ y.ended = x.ended
    BY <1>1, <1>5 DEF Told, Shape, New
  <2>2. e \in Entries /\ e.type = "item"
    BY <1>2 DEF Item, Entries
  <2> HIDE DEF y, e
  <2>3. Shape(y) /\ (Live(y) => Live(x)) /\ (Holds(y, "done") => Holds(x, "done"))
        /\ (~Holds(x, "item") => Sole(y))
    <3>1. Shape(y) /\ (Live(y) => Live(x))
      BY <1>1, <2>1, <2>2, Enqueued DEF Shape, Live
    <3>2. (Holds(y, "done") => Holds(x, "done")) /\ (~Holds(x, "item") => Sole(y))
      BY SMTT(60), <1>1, <2>1, <2>2, Enqueued DEF Sole, Holds
    <3> QED BY <3>1, <3>2
  <2>4. Called(o)' /\ Closing(o)'
    BY <1>0, <1>1, <2>1, <2>3 DEF Called, Closing, Still, Kept
  <2>5. ASSUME Live(x) PROVE Round(o)'
    <3>1. Bears(f, Offers, o) /\ Bears(f, Items, o)
      BY <1>5 DEF Bears, Items, Offers
    <3>2. Offered(x) /\ Handed(x) /\ ~Holds(x, "item")
      BY <1>1, <2>5, <3>1, Taken DEF Round
    <3>3. ~OnWay(Items, o)' /\ Single(Items, o)'
      BY <1>1, <2>5, <3>1, Taken DEF Round, Still, Kept
    <3>4. ~OnWay(Offers, o)' /\ ~OnWay(Thanks, o)'
      BY <3>3, PTL, ItemsAre
    <3>5. Handed(y) /\ Offered(y)
      BY <2>1, <3>2 DEF Handed, Offered
    <3> QED BY <1>0, <2>3, <3>2, <3>3, <3>4, <3>5 DEF Round
  <2>6. Round(o)'
    BY <1>0, <2>3, <2>5 DEF Round
  <2> QED BY <1>0, <1>1, <2>1, <2>3, <2>4, <2>6, Stays
<1>6. CASE f.type = "done"
  <2>1. /\ DOMAIN y = DOMAIN x /\ y.pc = x.pc /\ y.outcome = x.outcome /\ y.error = x.error
        /\ y.queue = Append(x.queue, Done) /\ y.got = x.got /\ y.sequence = x.sequence /\ y.task = x.task
        /\ y.value = x.value /\ y.acked = x.acked /\ y.ended = x.ended
    BY <1>1, <1>6 DEF Told, Shape, New
  <2>2. Done \in Entries /\ Done.type = "done"
    BY DEF Done, Entries
  <2> HIDE DEF y
  <2>3. Shape(y) /\ (Live(y) => Live(x)) /\ (Holds(y, "item") => Holds(x, "item")) /\ (Sole(x) => Sole(y))
    <3>1. Shape(y) /\ (Live(y) => Live(x))
      BY <1>1, <2>1, <2>2, Enqueued DEF Shape, Live
    <3>2. \A i \in DOMAIN y.queue : y.queue[i].type = "item" => i \in DOMAIN x.queue /\ y.queue[i] = x.queue[i]
      BY <1>1, <2>1, <2>2, Enqueued
    <3>3. (Holds(y, "item") => Holds(x, "item")) /\ (Sole(x) => Sole(y))
      BY <3>2 DEF Sole, Holds
    <3> QED BY <3>1, <3>3
  <2>4. Bears(f, Endings, o)
    BY <1>6 DEF Bears, Endings
  <2>5. x.error = "none" => x.task = "gone"
    BY <1>1, <2>4, Taken DEF Closing
  <2>6. Called(o)' /\ Closing(o)'
    BY <1>0, <1>1, <2>1, <2>5 DEF Called, Closing, Still, Kept
  <2>7. Live(x) => Handed(y) /\ (Offered(x) => Offered(y)) /\ (Thanked(x) => Thanked(y))
    BY <1>1, <2>1 DEF Round, Handed, Offered, Thanked
  <2>8. Round(o)'
    BY <1>0, <1>1, <2>3, <2>7 DEF Round, Still, Kept
  <2> QED BY <1>0, <1>1, <2>1, <2>3, <2>6, <2>8, Stays
<1>7. CASE f.type = "host.cancel"
  <2>1. op'[o] = Halted(x)
    BY <1>7 DEF Told, Halted
  <2>2. Same(x, Halted(x)) \/ Worse(x, Halted(x))
    BY <1>1, HaltedKeeps
  <2> QED BY <1>1, <2>1, <2>2, SameKeeps, WorseKeeps DEF Still
<1>8. CASE f.type \notin {"host.call", "host.ack", "item", "done", "host.cancel"}
  <2>1. /\ DOMAIN y = DOMAIN x /\ y.pc = x.pc /\ y.outcome = x.outcome
        /\ y.error = (IF x.error = "none" THEN "engine" ELSE x.error)
        /\ y.queue = Append(x.queue, Done) /\ y.sequence = x.sequence /\ y.task = x.task
    BY <1>1, <1>8 DEF Told, Shape, New
  <2>2. Done \in Entries
    BY DEF Done, Entries
  <2> HIDE DEF y
  <2>3. Shape(y)
    BY <1>1, <2>1, <2>2, Enqueued DEF Shape
  <2>4. Worse(x, y)
    BY <1>1, <2>1, <2>3 DEF Worse
  <2> QED BY <1>0, <1>1, <2>4, WorseKeeps DEF Still
<1> QED BY <1>3, <1>4, <1>5, <1>6, <1>7, <1>8

(* The reader reads, or ends. *)
LEMMA ReaderTokens ==
  ASSUME Tokens, Receive \/ Overflow \/ EndOfPipe
  PROVE  Pipes' /\ \A p \in Op : Token(p)'
<1>1. Pipes /\ toNode \in Seq(Frames) /\ toPython \in Seq(Frames) /\ DOMAIN op = Op /\ operations \subseteq Op
  BY DEF Tokens, Pipes, Inv, AllGood
<1>2. CASE Receive
  <2>1. /\ toPython # <<>> /\ toPython' = Tail(toPython) /\ UNCHANGED nodeVars
        /\ op' = IF Head(toPython).of \in operations
                 THEN [op EXCEPT ![Head(toPython).of] = Told(Head(toPython).of, Head(toPython))] ELSE op
    BY <1>2 DEF Receive
  <2>2. PICK f \in Frames : f = Head(toPython)
    BY <1>1, <2>1, PipeStays
  <2>3. Shrinks(toNode, toNode') /\ Shrinks(toPython, toPython') /\ node' = node /\ toNode' = toNode
    BY <2>1 DEF Shrinks, nodeVars
  <2>4. Pipes' /\ \A p : Still(p)
    BY <1>1, <2>3, ShrunkKeeps, PipeStays, PipesKept DEF Still
  <2>5. CASE f.of \in operations
    <3>1. PICK o \in Op : o = f.of
      BY <1>1, <2>5
    <3>2. op[o].pc \in Attended /\ op' = [op EXCEPT ![o] = Told(o, f)]
      BY <2>1, <2>2, <2>5, <3>1, About
    <3>3. op'[o] = Told(o, f)
      BY <1>1, <3>2
    <3>4. Token(o)'
      BY <2>1, <2>2, <2>3, <2>4, <3>1, <3>2, <3>3, ToldTokens
    <3> QED BY <2>4, <3>2, <3>4, OneKeeps
  <2>6. CASE f.of \notin operations
    <3>1. op' = op
      BY <2>1, <2>2, <2>6
    <3> QED BY <2>4, <3>1, AllKeep DEF Same
  <2> QED BY <2>5, <2>6
<1>3. CASE Fail(op) /\ UNCHANGED toPython
  BY <1>1, <1>3, FailKeeps DEF Shrinks
<1>4. CASE UNCHANGED <<op, nodeVars, toPython>>
  <2>1. Shrinks(toNode, toNode') /\ Shrinks(toPython, toPython') /\ node' = node
    BY <1>4 DEF Shrinks, nodeVars
  <2>2. Pipes' /\ \A p : Still(p)
    BY <1>1, <2>1, ShrunkKeeps, PipeStays, PipesKept DEF Still
  <2> QED BY <1>4, <2>2, AllKeep DEF Same
<1> QED BY <1>2, <1>3, <1>4 DEF Overflow, EndOfPipe

(* aclose stops the callbacks, and answers who is left. *)
LEMMA CloserTokens ==
  ASSUME Tokens, Close \/ CloseAnswered \/ Closed \/ \E k \in Control : ControlTimeout(k)
  PROVE  Pipes' /\ \A p \in Op : Token(p)'
<1>1. Pipes /\ toNode \in Seq(Frames) /\ toPython \in Seq(Frames) /\ DOMAIN op = Op
  BY DEF Tokens, Pipes, Inv, AllGood
<1>2. ASSUME NEW o \in Op PROVE Shape(op[o]) /\ Succeeds(op[o]) /\ (o \in operations => op[o].pc \in Attended)
  BY About
<1>3. ASSUME Shrinks(toNode, toNode'), Shrinks(toPython, toPython'), node' \in {node, NoNode}
      PROVE  Pipes' /\ \A p : Still(p)
  BY <1>1, <1>3, ShrunkKeeps, PipeStays, PipesKept DEF Still
<1>4. CASE CancelAll(op) /\ UNCHANGED <<toNode, node, toPython>>
  <2>1. Pipes' /\ \A p : Still(p)
    BY <1>3, <1>4 DEF Shrinks
  <2>2. \A p \in Op : op'[p] = op[p] \/ (p \in operations /\ op'[p] = Halted(op[p]))
    BY <1>4 DEF CancelAll, Halted
  <2>3. \A p \in Op : Same(op[p], op'[p]) \/ Worse(op[p], op'[p])
    <3> SUFFICES ASSUME NEW p \in Op PROVE Same(op[p], op'[p]) \/ Worse(op[p], op'[p])
      OBVIOUS
    <3>1. CASE op'[p] = op[p]
      BY <3>1 DEF Same
    <3>2. CASE p \in operations /\ op'[p] = Halted(op[p])
      BY <1>2, <3>2, HaltedKeeps
    <3> QED BY <2>2, <3>1, <3>2
  <2> QED BY <2>1, <2>3, AllKeep
<1>5. CASE Close
  <2> DEFINE F == Frame("close", "close")
  <2>1. F \in Frames /\ F.type = "close"
    BY FrameIs DEF Types, Control
  <2> HIDE DEF F
  <2>2. CASE op' = op /\ toNode' = Append(toNode, F) /\ node' = node /\ UNCHANGED toPython
    <3>1. Pipes' /\ \A p : Still(p)
      BY <1>1, <2>1, <2>2, Plain
    <3> QED BY <2>2, <3>1, AllKeep DEF Same
  <2> QED BY <1>4, <1>5, <2>2 DEF Close, readerVars, F
<1>6. CASE CloseAnswered
  BY <1>4, <1>6 DEF CloseAnswered, nodeVars, readerVars
<1>7. CASE Closed
  <2>1. toNode' = <<>> /\ toPython' = <<>> /\ node' = NoNode
    BY <1>7, Zenon DEF Closed, Dies
  <2>2. Pipes' /\ \A p : Still(p)
    BY <1>3, <2>1 DEF Shrinks
  <2>3. ASSUME NEW p \in Op PROVE Same(op[p], op'[p]) \/ Worse(op[p], op'[p])
    <3> DEFINE y == [op[p] EXCEPT !.error = "engine", !.queue = <<Done>>]
    <3>1. op'[p] = IF p \in operations THEN y ELSE op[p]
      BY <1>7, Zenon DEF Closed
    <3>2. CASE p \notin operations
      BY <3>1, <3>2 DEF Same
    <3>3. CASE p \in operations
      <4>1. /\ Shape(y) /\ y.pc = op[p].pc /\ y.outcome = op[p].outcome /\ y.error = "engine"
            /\ y.task = op[p].task
        BY <1>2 DEF Shape, New, Entries, Done
      <4> HIDE DEF y
      <4> QED BY <1>2, <3>1, <3>3, <4>1 DEF Worse, Succeeds, Attended, Unborn
    <3> QED BY <3>2, <3>3
  <2> QED BY <2>2, <2>3, AllKeep
<1>8. CASE \E k \in Control : ControlTimeout(k)
  <2>1. (Fail(op) \/ UNCHANGED <<op, nodeVars>>) /\ UNCHANGED toPython
    BY <1>8 DEF ControlTimeout, readerVars
  <2>2. CASE Fail(op)
    BY <1>1, <2>1, <2>2, FailKeeps DEF Shrinks
  <2>3. CASE UNCHANGED <<op, nodeVars>>
    <3>1. Pipes' /\ \A p : Still(p)
      BY <1>3, <2>1, <2>3 DEF Shrinks, nodeVars
    <3> QED BY <2>3, <3>1, AllKeep DEF Same
  <2> QED BY <2>1, <2>2, <2>3
<1> QED BY <1>5, <1>6, <1>7, <1>8

(* The process, the plugins and configure move no operation. *)
LEMMA ElsewhereTokens ==
  ASSUME Tokens, NodeStep \/ NodeDies \/ Configure \/ PluginsChange \/ UNCHANGED vars
  PROVE  Pipes' /\ \A p \in Op : Token(p)'
<1>1. Pipes /\ toNode \in Seq(Frames) /\ toPython \in Seq(Frames)
  BY DEF Tokens, Pipes
<1>2. op' = op
  <2>1. CASE NodeStep
    BY ZenonT(60), <2>1 DEF NodeStep, NodeInitialize, NodeConfigure, NodeClose, NodeInvoke, NodeItem,
                NodeAck, NodeDone, NodeCancel, Answers, Tells
  <2> QED BY <2>1 DEF NodeDies, Configure, PluginsChange, vars
<1>3. Pipes' /\ \A p : Still(p)
  <2>1. CASE NodeStep \/ NodeDies
    BY <1>1, <2>1, NodeKeeps
  <2>2. CASE Configure
    <3> DEFINE F == Frame("configure", "configure")
    <3>1. F \in Frames /\ F.type = "configure"
      BY FrameIs DEF Types, Control
    <3>2. toNode' = Append(toNode, F) /\ node' = node /\ UNCHANGED toPython
      BY <2>2 DEF Configure, readerVars
    <3> HIDE DEF F
    <3> QED BY <1>1, <3>1, <3>2, Plain
  <2>3. CASE PluginsChange \/ UNCHANGED vars
    <3>1. Shrinks(toNode, toNode') /\ Shrinks(toPython, toPython') /\ node' = node
      BY <2>3 DEF PluginsChange, vars, nodeVars, readerVars, Shrinks
    <3> QED BY <1>1, <3>1, ShrunkKeeps, PipeStays, PipesKept DEF Still
  <2> QED BY <2>1, <2>2, <2>3
<1> QED BY <1>2, <1>3, AllKeep DEF Same

-----------------------------------------------------------------------------
(* Every initial state satisfies the invariant, *)
LEMMA InitTokens == Init => Tokens
<1> SUFFICES ASSUME Init PROVE Pipes /\ \A o \in Op : Token(o)
  BY InitInv DEF Tokens
<1>1. Pipes
  <2>1. NoNode.ops = {} /\ IsFiniteSet({}) /\ <<>> \in Seq(Frames)
    BY FS_EmptySet, Emptied DEF NoNode
  <2> QED BY <2>1 DEF Init, Pipes
<1>2. ASSUME NEW T, NEW o PROVE ~OnWay(T, o)
  BY Emptied DEF OnWay, Init
<1>3. ASSUME NEW o \in Op PROVE Token(o)
  <2>1. op[o] = New
    BY DEF Init
  <2>2. /\ New.pc = "out" /\ New.outcome = "none" /\ New.error = "none" /\ New.sequence = 0
        /\ New.got = <<>> /\ New.queue = <<>> /\ New.queue \in Seq(Entries)
    BY DEF New
  <2> QED BY <1>2, <2>1, <2>2 DEF Token, Shape, Untold, Called, Round, Closing, Succeeds, Live, Attended
<1> QED BY <1>1, <1>3

(* and every step keeps it. *)
LEMMA NextTokens == Tokens /\ [Next]_vars => Tokens'
<1> SUFFICES ASSUME Tokens, [Next]_vars PROVE Tokens'
  OBVIOUS
<1>1. Inv'
  BY NextInv DEF Tokens
<1>2. Pipes' /\ \A p \in Op : Token(p)'
  <2>1. CASE \E o \in Op : Caller(o) \/ Callback(o)
    BY <2>1, ArrivalTokens, InvokeTokens, ConsumerTokens, TakeDoneTokens, TakeItemTokens,
       DepartureTokens, GoesOnTokens, ErrorTokens DEF Caller, Callback
  <2>2. CASE \E o \in Op : \/ Start(o) \/ Started(o) \/ StartCancelled(o) \/ Acknowledge(o)
                          \/ CloseStream(o) \/ CancelCaller(o) \/ Return(o) \/ Raise(o) \/ Yield(o)
    BY <2>2, ArrivalTokens, AcknowledgeTokens, ConsumerTokens, DepartureTokens, ReturnTokens,
       ErrorTokens, YieldTokens
  <2>3. CASE Receive \/ Overflow \/ EndOfPipe
    BY <2>3, ReaderTokens
  <2>4. CASE Close \/ CloseAnswered \/ Closed \/ \E k \in Control : ControlTimeout(k)
    BY <2>4, CloserTokens
  <2>5. CASE NodeStep \/ NodeDies \/ Configure \/ PluginsChange \/ UNCHANGED vars
    BY <2>5, ElsewhereTokens
  <2> QED BY <2>1, <2>2, <2>3, <2>4, <2>5 DEF Next, Internal, External
<1> QED BY <1>1, <1>2 DEF Tokens

(* A call succeeds only if its callback ran to its end, and a stream only  *)
(* if its consumer has had every item of it in order, each with the value  *)
(* it had (cordis_engine.py:276), for any number of operations and items,  *)
(* whatever is cancelled, fails, dies or is closed.                        *)
THEOREM SuccessesAreReal == Spec => []SuccessIsReal
<1>1. Tokens => SuccessIsReal
  BY DEF Tokens, Token, Succeeds, SuccessIsReal, Upto
<1> QED BY InitTokens, NextTokens, <1>1, PTL DEF Spec
=============================================================================
