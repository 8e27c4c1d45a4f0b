--------------------------- MODULE RunStoreProofs ---------------------------
(***************************************************************************)
(* Theorems about RunStore for any number of processes, threads and        *)
(* follow-ups, and any number of crashes, failed writes and cancellations. *)
(***************************************************************************)
EXTENDS RunStore, SequenceTheorems, TLAPS

(* Inside the section that queue.lock protects. *)
InQueue(t) == kind[t] \in QueueKind /\ pc[t] \notin {"idle", "loadrun", "flock"}

(* About to write an event into the journal. *)
PreAppend(t) == pc[t] \in {"load", "count", "append"}

Owns(t) == claim[t] # NoItem /\ Started(journal, claim[t])

(* queue.lock excludes: whoever is inside holds it. *)
Exclusive == \A t \in Thread : InQueue(t) => flock = t

(* Marks are written by claims and returns only, about their own follow-up, *)
(* and a claim marks a follow-up nobody has claimed.                        *)
Marks ==
  \A t \in Thread : PreAppend(t) /\ event[t].type \in Mark =>
    /\ claim[t] = event[t].item
    /\ claim[t] # NoItem
    /\ \/ /\ event[t].type = "queued_message_started"
          /\ kind[t] \in {"take", "finish"}
          /\ ~Started(journal, claim[t])
       \/ /\ event[t].type = "queued_message_returned"
          /\ kind[t] = "release"

(* A follow-up named by a thread is started, but for the instants between   *)
(* choosing it and marking it, and between marking it returned and leaving. *)
Claiming ==
  \A t \in Thread : claim[t] # NoItem =>
    \/ Started(journal, claim[t]) /\ kind[t] \in {"take", "finish", "release"}
    \/ /\ InQueue(t)
       /\ \/ /\ kind[t] = "release" /\ pc[t] # "read"
             /\ ~(PreAppend(t) /\ event[t].type = "queued_message_returned")
          \/ /\ kind[t] \in {"take", "finish"}
             /\ PreAppend(t) /\ event[t].type = "queued_message_started"

(* A thread that does nothing holds nothing. *)
Idle == \A t \in Thread : pc[t] = "idle" => event[t] = NoEvent /\ claim[t] = NoItem

(* Owners are unique, and what is owned or was run stays marked started. *)
Ownership ==
  /\ \A p \in Proc : \A i \in work[p] : Started(journal, i) /\ i \notin executed
  /\ \A p, q \in Proc : p # q => work[p] \cap work[q] = {}
  /\ \A i \in executed : Started(journal, i)
  /\ \A t \in Thread : Owns(t) => /\ claim[t] \notin executed
                                  /\ \A p \in Proc : claim[t] \notin work[p]
  /\ \A t, u \in Thread : Owns(t) /\ claim[t] = claim[u] => t = u

Discipline == Exclusive /\ Marks /\ Claiming /\ Idle /\ Ownership

Inv == TypeOK /\ Discipline

-----------------------------------------------------------------------------
(* What thread t does next is a label, and the event it appends an event.   *)
Control == pc \in [Thread -> Label] /\ event \in [Thread -> Event]

(* Appending sets it so. *)
LEMMA AppendingControl ==
  ASSUME TypeOK, NEW t \in Thread, NEW ty \in EventType, NEW i \in Item \cup {NoItem},
         Appending(t, ty, i)
  PROVE  Control'
BY DEF TypeOK, Appending, Control, Label, Event

(* So is what a thread does after it returned a claim. *)
LEMMA AfterReleaseControl ==
  ASSUME TypeOK, NEW t \in Thread, AfterRelease(t)
  PROVE  Control'
<1>1. CASE cancels[t]
  BY <1>1, AppendingControl DEF AfterRelease, EventType
<1>2. CASE ~cancels[t]
  BY <1>2 DEF AfterRelease, TypeOK, Control, Label
<1> QED BY <1>1, <1>2

(* The oldest follow-up of a queue is one of it. *)
LEMMA QueueIsItems == TypeOK => Queue \subseteq Item
<1> SUFFICES ASSUME TypeOK PROVE Queue \subseteq Item
  OBVIOUS
<1>1. \A k \in DOMAIN journal : journal[k].item \in Item \cup {NoItem}
  <2> SUFFICES ASSUME NEW k \in DOMAIN journal PROVE journal[k].item \in Item \cup {NoItem}
    OBVIOUS
  <2>1. journal[k] \in Line
    BY ElementOfSeq DEF TypeOK
  <2> QED BY <2>1 DEF Line
<1>2. queueFile \subseteq Item
  BY DEF TypeOK
<1> QED BY <1>1, <1>2 DEF Queue, ReadQueue

(* Spending a bound keeps the bounds natural numbers. *)
LEMMA SpendType ==
  ASSUME TypeOK, NEW k \in Hazard, Spend(k)
  PROVE  budget' \in [Hazard -> Nat]
BY DEF TypeOK, Spend

(* Threads that stop leave every variable in its type. *)
LEMMA StopType ==
  ASSUME TypeOK, NEW S \in SUBSET Thread, Stop(S),
         work' \in [Proc -> SUBSET Item],
         budget' \in [Hazard -> Nat]
  PROVE  TypeOK'
<1>1. /\ pc' \in [Thread -> Label] /\ kind' \in [Thread -> Kind]
      /\ seen' \in [Thread -> RunState] /\ target' \in [Thread -> RunState]
      /\ eid' \in [Thread -> Nat \ {0}]
  BY DEF TypeOK, Stop, Reset, Label, Kind, RunState
<1>2. event' \in [Thread -> Event]
  BY DEF TypeOK, Stop, Reset, Event, NoEvent, EventType
<1>3. items' \in [Thread -> SUBSET Item] /\ claim' \in [Thread -> Item \cup {NoItem}]
  BY DEF TypeOK, Stop, Reset
<1>4. /\ drain' \in [Thread -> BOOLEAN] /\ hold' \in [Thread -> BOOLEAN]
      /\ cancels' \in [Thread -> BOOLEAN] /\ detached' \in [Thread -> BOOLEAN]
  BY DEF TypeOK, Stop, Reset
<1>5. flock' \in Thread \cup {NoThread} /\ lock' \in [Proc -> Thread \cup {NoThread}]
  BY DEF TypeOK, Stop
<1> QED BY <1>1, <1>2, <1>3, <1>4, <1>5 DEF TypeOK, Stop, files

(* Every variable keeps the type the code gives it, whatever interleaves.   *)
LEMMA TypeInductive == TypeOK /\ [Next]_vars => TypeOK'
<1> SUFFICES ASSUME TypeOK, [Next]_vars PROVE TypeOK'
  OBVIOUS
<1>1. ASSUME NEW t \in Thread, Request(t) PROVE TypeOK'
  <2>1. CASE QueueMessage(t)
    BY <2>1 DEF QueueMessage, TypeOK, Begin, files, Kind, Label
  <2>2. CASE TakeQueuedMessage(t)
    BY <2>2 DEF TakeQueuedMessage, TypeOK, Begin, files, Kind, Label
  <2>3. CASE AppendEvent(t)
    <3>1. budget' \in [Hazard -> Nat]
      BY <2>3, SpendType DEF AppendEvent, Hazard
    <3> QED BY <2>3, <3>1 DEF AppendEvent, TypeOK, Begin, files, Kind, Label
  <2>4. ASSUME NEW i \in work[ProcOf[t]] \cup {NoItem}, NEW c \in BOOLEAN,
               ReleaseQueuedMessage(t, i, c)
        PROVE TypeOK'
    BY <2>4, StoreAssumption DEF ReleaseQueuedMessage, TypeOK, Begin, files, Kind, Label, RunState
  <2>5. ASSUME NEW e \in TurnEnd, FinishTurn(t, e[1], e[2], e[3]) PROVE TypeOK'
    BY <2>5, StoreAssumption DEF FinishTurn, TypeOK, Begin, files, Kind, Label
  <2>6. ASSUME NEW s \in SetState, UpdateState(t, s) PROVE TypeOK'
    BY <2>6, StoreAssumption DEF UpdateState, TypeOK, Begin, files, Kind, Label
  <2>7. CASE SetRuntime(t)
    <3>1. budget' \in [Hazard -> Nat]
      BY <2>7, SpendType DEF SetRuntime, Hazard
    <3> QED BY <2>7, <3>1 DEF SetRuntime, TypeOK, Begin, files, Kind, Label
  <2> QED BY <1>1, <2>1, <2>2, <2>3, <2>4, <2>5, <2>6, <2>7 DEF Request
<1>2. ASSUME NEW t \in Thread, Step(t) PROVE TypeOK'
  <2>1. CASE LoadRun(t)
    BY <2>1 DEF LoadRun, TypeOK, KeepsRest, files, args, client, Label
  <2>2. CASE TakeFlock(t)
    <3>1. Control'
      <4>1. CASE pc' = [pc EXCEPT ![t] = "read"] /\ UNCHANGED event
        BY <4>1 DEF TypeOK, Control, Label
      <4>2. CASE Appending(t, "turn_finished", NoItem)
        BY <4>2, AppendingControl DEF EventType
      <4> QED BY <2>2, <4>1, <4>2 DEF TakeFlock
    <3> QED BY <2>2, <3>1 DEF TakeFlock, Control, TypeOK, KeepsRest, files, args, client
  <2>3. CASE ReadFiles(t)
    <3>1. /\ Control'
          /\ items' \in [Thread -> SUBSET Item]
          /\ claim' \in [Thread -> Item \cup {NoItem}]
      <4>1. CASE ReadToQueue(t)
        <5>1. nextItem \in Item /\ Queue \cup {nextItem} \in SUBSET Item
          BY QueueIsItems DEF TypeOK
        <5>2. Control'
          BY <4>1 DEF ReadToQueue, TypeOK, Control, Label
        <5>3. items' \in [Thread -> SUBSET Item]
          BY <4>1, <5>1 DEF ReadToQueue, TypeOK
        <5> QED BY <4>1, <5>2, <5>3 DEF ReadToQueue, TypeOK
      <4>2. CASE ReadToClaim(t)
        <5>2. ASSUME NEW i \in Queue,
                     claim' = [claim EXCEPT ![t] = i],
                     items' = [items EXCEPT ![t] = Queue \ {i}],
                     Appending(t, "queued_message_started", i)
              PROVE  /\ Control'
                     /\ items' \in [Thread -> SUBSET Item]
                     /\ claim' \in [Thread -> Item \cup {NoItem}]
          <6>1. i \in Item
            BY QueueIsItems
          <6>2. Control'
            BY <5>2, <6>1, AppendingControl DEF EventType
          <6> QED BY <5>2, <6>1, <6>2, QueueIsItems DEF TypeOK
        <5>3. CASE Queue = {}
          <6>1. Control'
            <7>1. CASE kind[t] = "take"
              BY <4>2, <5>3, <7>1 DEF ReadToClaim, TypeOK, Control, Label
            <7>2. CASE kind[t] # "take"
              BY <4>2, <5>3, <7>2, AppendingControl DEF ReadToClaim, EventType
            <7> QED BY <7>1, <7>2
          <6> QED BY <4>2, <5>3, <6>1 DEF ReadToClaim, TypeOK
        <5> QED BY <4>2, <5>2, <5>3 DEF ReadToClaim
      <4>3. CASE ReadToRelease(t)
        <5>1. Control'
          <6>1. CASE Appending(t, "queued_message_returned", claim[t])
            BY <6>1, AppendingControl DEF EventType, TypeOK
          <6>2. CASE AfterRelease(t)
            BY <6>2, AfterReleaseControl
          <6>3. CASE pc' = [pc EXCEPT ![t] = "return"] /\ UNCHANGED <<event, items>>
            BY <6>3 DEF TypeOK, Control, Label
          <6> QED BY <4>3, <6>1, <6>2, <6>3 DEF ReadToRelease
        <5>2. items' \in [Thread -> SUBSET Item]
          <6>1. CASE items' = [items EXCEPT ![t] = Queue \cup {claim[t]}] /\ claim[t] \in Item
            BY <6>1, QueueIsItems DEF TypeOK
          <6>2. CASE UNCHANGED items
            BY <6>2 DEF TypeOK
          <6> QED BY <4>3, <6>1, <6>2 DEF ReadToRelease, TypeOK
        <5> QED BY <4>3, <5>1, <5>2 DEF ReadToRelease, TypeOK
      <4> QED BY <2>3, <4>1, <4>2, <4>3 DEF ReadFiles
    <3> QED BY <2>3, <3>1 DEF ReadFiles, Control, TypeOK, KeepsRest, files, args, client
  <2>4. CASE AppendLoad(t)
    BY <2>4 DEF AppendLoad, TypeOK, KeepsRest, files, args, client, Label
  <2>5. CASE NextEventId(t)
    BY <2>5 DEF NextEventId, TypeOK, KeepsRest, files, args, client, Label
  <2>6. CASE AppendLine(t)
    BY <2>6 DEF AppendLine, TypeOK, KeepsRest, args, client, Label, Line, Event
  <2>7. CASE StampMeta(t)
    <3>1. Control'
      <4>1. CASE Appending(t, "run_finished", NoItem)
        BY <4>1, AppendingControl DEF EventType
      <4>2. CASE UNCHANGED event /\ \E l \in Label : pc' = [pc EXCEPT ![t] = l]
        BY <4>2 DEF TypeOK, Control
      <4> QED BY <2>7, <4>1, <4>2 DEF StampMeta, Label
    <3> QED BY <2>7, <3>1 DEF StampMeta, Control, TypeOK, KeepsRest, args, client
  <2>8. CASE WriteQueue(t)
    <3>1. Control'
      <4>1. CASE Appending(t, "turn_finished", NoItem)
        BY <4>1, AppendingControl DEF EventType
      <4>2. CASE AfterRelease(t)
        BY <4>2, AfterReleaseControl
      <4>3. CASE pc' = [pc EXCEPT ![t] = "return"] /\ UNCHANGED event
        BY <4>3 DEF TypeOK, Control, Label
      <4> QED BY <2>8, <4>1, <4>2, <4>3 DEF WriteQueue
    <3>2. nextItem' \in Item
      BY <2>8 DEF WriteQueue, TypeOK, Item
    <3>3. queueFile' \subseteq Item
      BY <2>8 DEF WriteQueue, TypeOK
    <3> QED BY <2>8, <3>1, <3>2, <3>3 DEF WriteQueue, Control, TypeOK, KeepsRest, args, client
  <2>9. CASE Publish(t)
    BY <2>9 DEF Publish, TypeOK, KeepsRest, args, client, local, FinalState, RunState, Label
  <2>10. CASE Return(t)
    <3>1. work' \in [Proc -> SUBSET Item]
      BY <2>10, StoreAssumption DEF Return, TypeOK
    <3> QED BY <2>10, <3>1, StopType DEF Return, TypeOK
  <2> QED BY <1>2, <2>1, <2>2, <2>3, <2>4, <2>5, <2>6, <2>7, <2>8, <2>9, <2>10 DEF Step
<1>3. ASSUME NEW t \in Thread, Cancel(t) PROVE TypeOK'
  <2>1. budget' \in [Hazard -> Nat]
    BY <1>3, SpendType DEF Cancel, Hazard
  <2>2. lock' \in [Proc -> Thread \cup {NoThread}]
    BY <1>3, StoreAssumption DEF Cancel, TypeOK
  <2> QED BY <1>3, <2>1, <2>2 DEF Cancel, TypeOK, files, args, local, client
<1>4. ASSUME NEW t \in Thread, FaultyWrite(t) PROVE TypeOK'
  <2>1. budget' \in [Hazard -> Nat]
    BY <1>4, SpendType DEF FaultyWrite, Hazard
  <2> QED BY <1>4, <2>1, StopType DEF FaultyWrite, TypeOK
<1>5. ASSUME NEW p \in Proc, Crash(p) PROVE TypeOK'
  <2>1. budget' \in [Hazard -> Nat]
    BY <1>5, SpendType DEF Crash, Hazard
  <2>2. work' \in [Proc -> SUBSET Item]
    BY <1>5 DEF Crash, TypeOK
  <2> QED BY <1>5, <2>1, <2>2, StopType DEF Crash
<1>6. ASSUME NEW p \in Proc, NEW i \in work[p], Execute(p, i) PROVE TypeOK'
  BY <1>6 DEF Execute, TypeOK, files, args, local
<1>7. CASE UNCHANGED vars
  BY <1>7 DEF TypeOK, vars, files, args, local, client
<1> QED BY <1>1, <1>2, <1>3, <1>4, <1>5, <1>6, <1>7 DEF Next

(* The initial state is well typed. *)
LEMMA TypeInit == Init => TypeOK
BY StoreAssumption DEF Init, TypeOK, RunState, Kind, Label, Event, NoEvent, EventType, Item,
     NoItem, Line, Bound, Hazard
(* The type invariant of the run directory, its locks and its threads.      *)
THEOREM TypeCorrect == Spec => []TypeOK
BY TypeInit, TypeInductive, PTL DEF Spec
-----------------------------------------------------------------------------
(* Appending a line changes the last mark of one follow-up at most.         *)
LEMMA MarkAppend ==
  ASSUME NEW j \in Seq(Line), NEW e \in Line, NEW i \in Item, NEW m \in Mark
  PROVE  LastMark(Append(j, e), i, m) <=>
           \/ e.item = i /\ e.type = m
           \/ ~(e.item = i /\ e.type \in Mark) /\ LastMark(j, i, m)
<1> DEFINE a == Append(j, e)
           last == Len(j) + 1
<1>1. /\ DOMAIN j = 1 .. Len(j) /\ Len(j) \in Nat
      /\ DOMAIN a = 1 .. last
      /\ a[last] = e
      /\ \A k \in DOMAIN j : a[k] = j[k]
  OBVIOUS
<1> HIDE DEF a
<1>2. CASE e.item = i /\ e.type \in Mark
  <2>1. ASSUME LastMark(a, i, m) PROVE e.type = m
    <3>1. PICK k \in DOMAIN a :
            /\ a[k].item = i /\ a[k].type = m
            /\ \A n \in DOMAIN a : n > k /\ a[n].item = i => a[n].type \notin Mark
      BY <2>1 DEF LastMark
    <3>2. ~(last > k)
      BY <1>1, <1>2, <3>1
    <3> QED BY <1>1, <3>1, <3>2
  <2>2. ASSUME e.type = m PROVE LastMark(a, i, m)
    BY <1>1, <1>2, <2>2 DEF LastMark
  <2> QED BY <1>2, <2>1, <2>2 DEF a
<1>3. CASE ~(e.item = i /\ e.type \in Mark)
  <2>1. ASSUME LastMark(a, i, m) PROVE LastMark(j, i, m)
    <3>1. PICK k \in DOMAIN a :
            /\ a[k].item = i /\ a[k].type = m
            /\ \A n \in DOMAIN a : n > k /\ a[n].item = i => a[n].type \notin Mark
      BY <2>1 DEF LastMark
    <3>2. k # last
      BY <1>1, <1>3, <3>1
    <3>3. k \in DOMAIN j
      BY <1>1, <3>1, <3>2
    <3>4. \A n \in DOMAIN j : n \in DOMAIN a /\ a[n] = j[n]
      BY <1>1
    <3> QED BY <3>1, <3>3, <3>4 DEF LastMark
  <2>2. ASSUME LastMark(j, i, m) PROVE LastMark(a, i, m)
    <3>1. PICK k \in DOMAIN j :
            /\ j[k].item = i /\ j[k].type = m
            /\ \A n \in DOMAIN j : n > k /\ j[n].item = i => j[n].type \notin Mark
      BY <2>2 DEF LastMark
    <3>2. k \in DOMAIN a /\ a[k] = j[k]
      BY <1>1
    <3>3. ASSUME NEW n \in DOMAIN a, n > k, a[n].item = i PROVE a[n].type \notin Mark
      <4>1. CASE n = last BY <1>1, <1>3, <3>3, <4>1
      <4>2. CASE n # last BY <1>1, <3>1, <3>3, <4>2
      <4> QED BY <4>1, <4>2
    <3> QED BY <3>1, <3>2, <3>3 DEF LastMark
  <2> QED BY <1>3, <2>1, <2>2 DEF a
<1> QED BY <1>2, <1>3

(* What is offered is not started: started and returned exclude each other. *)
LEMMA QueueNotStarted ==
  TypeOK => \A i \in Queue : i \in Item /\ i # NoItem /\ ~Started(journal, i)
<1> SUFFICES ASSUME TypeOK, NEW i \in Queue
             PROVE  i \in Item /\ i # NoItem /\ ~Started(journal, i)
  OBVIOUS
<1>1. i \in Item /\ i # NoItem
  BY QueueIsItems DEF Queue, ReadQueue
<1>2. ASSUME Returned(journal, i), Started(journal, i) PROVE FALSE
  <2>1. PICK k \in DOMAIN journal :
          /\ journal[k].item = i /\ journal[k].type = "queued_message_returned"
          /\ \A n \in DOMAIN journal :
               n > k /\ journal[n].item = i => journal[n].type \notin Mark
    BY <1>2 DEF Returned, LastMark
  <2>2. PICK m \in DOMAIN journal :
          /\ journal[m].item = i /\ journal[m].type = "queued_message_started"
          /\ \A n \in DOMAIN journal :
               n > m /\ journal[n].item = i => journal[n].type \notin Mark
    BY <1>2 DEF Started, LastMark
  <2>3. k \in Nat /\ m \in Nat
    BY DEF TypeOK
  <2>4. ~(m > k) /\ ~(k > m)
    BY <2>1, <2>2 DEF Mark
  <2> QED BY <2>1, <2>2, <2>3, <2>4
<1> QED BY <1>1, <1>2 DEF Queue, ReadQueue
-----------------------------------------------------------------------------
(* Steps that touch neither journal nor claims nor clients: only the place  *)
(* and the event of one thread change.                                      *)
Quiet == UNCHANGED <<journal, claim, kind, work, executed>>

(* A quiet step leaves every owner its follow-ups. *)
LEMMA QuietOwnership ==
  ASSUME Ownership, Quiet
  PROVE  Ownership'
BY DEF Ownership, Quiet, Owns

(* A quiet step in which no thread moves keeps the discipline. *)
LEMMA Unmoved ==
  ASSUME Inv, Quiet, UNCHANGED <<pc, event, flock>>
  PROVE  Discipline'
<1>1. Exclusive' /\ Marks' /\ Claiming' /\ Idle'
  BY DEF Inv, Discipline, Exclusive, Marks, Claiming, Idle, InQueue, PreAppend, Quiet
<1> QED BY <1>1, QuietOwnership DEF Inv, Discipline

(* Such a step of thread t keeps the discipline if it keeps t's part of it. *)
LEMMA QuietDiscipline ==
  ASSUME Inv, Quiet, NEW t \in Thread,
         \A u \in Thread : u # t => pc'[u] = pc[u] /\ event'[u] = event[u],
         flock' = flock \/ (flock = NoThread /\ flock' = t),
         InQueue(t)' => flock' = t,
         pc'[t] # "idle",
         PreAppend(t)' => event'[t].type \notin Mark \/ (PreAppend(t) /\ event'[t] = event[t]),
         claim[t] # NoItem => Started(journal, claim[t]) \/ InQueue(t)',
         pc'[t] = "read" => pc[t] = "flock",
         PreAppend(t) /\ event[t].type = "queued_message_started"
           => PreAppend(t)' /\ event'[t] = event[t]
  PROVE  Discipline'
<1>1. Exclusive'
  BY StoreAssumption DEF Inv, Discipline, Exclusive, InQueue, Quiet
<1>2. Marks'
  BY DEF Inv, Discipline, Marks, PreAppend, Quiet
<1>3. Claiming'
  BY DEF Inv, Discipline, Claiming, PreAppend, InQueue, Quiet, Mark
<1>4. Idle'
  BY DEF Inv, Discipline, Idle, Quiet
<1> QED BY <1>1, <1>2, <1>3, <1>4, QuietOwnership DEF Inv, Discipline
(* Threads that stop give up their claims and nothing else.                 *)
LEMMA StopDiscipline ==
  ASSUME Inv, NEW S \in SUBSET Thread, Stop(S)
  PROVE  Exclusive' /\ Marks' /\ Claiming' /\ Idle'
<1>1. /\ \A t \in S : /\ pc'[t] = "idle" /\ kind'[t] = "idle"
                     /\ event'[t] = NoEvent /\ claim'[t] = NoItem
      /\ \A t \in Thread \ S : /\ pc'[t] = pc[t] /\ kind'[t] = kind[t]
                              /\ event'[t] = event[t] /\ claim'[t] = claim[t]
      /\ journal' = journal
  BY DEF Stop, Reset, files
<1>2. Exclusive'
  BY <1>1 DEF Inv, Discipline, Exclusive, InQueue, Stop
<1>3. Marks'
  BY <1>1 DEF Inv, Discipline, Marks, PreAppend
<1>4. Claiming'
  BY <1>1 DEF Inv, Discipline, Claiming, PreAppend, InQueue
<1>5. Idle'
  BY <1>1 DEF Inv, Discipline, Idle
<1> QED BY <1>2, <1>3, <1>4, <1>5

(* Threads that stop may hand what they own to the client of one process.   *)
LEMMA StopOwnership ==
  ASSUME Inv, NEW S \in SUBSET Thread, Stop(S),
         \A p \in Proc : work'[p] \subseteq work[p]
  PROVE  Ownership'
<1>1. /\ \A t \in S : claim'[t] = NoItem
      /\ \A t \in Thread \ S : claim'[t] = claim[t]
      /\ journal' = journal /\ executed' = executed
  BY DEF Stop, Reset, files
<1> QED BY <1>1 DEF Inv, Discipline, Ownership, Owns

(* Beginning an operation, a return included, keeps the discipline. *)
LEMMA RequestInv ==
  ASSUME Inv, NEW t \in Thread, Request(t)
  PROVE  Discipline'
<1>1. ASSUME NEW k, NEW l, Begin(t, k, l), UNCHANGED <<claim, work>>,
             l = "flock" \/ (k \notin QueueKind /\ l \in {"load", "publish"})
      PROVE  Discipline'
  <2>1. /\ pc[t] = "idle" /\ claim[t] = NoItem /\ event[t] = NoEvent
        /\ pc'[t] = l /\ kind'[t] = k
        /\ \A u \in Thread : u # t => pc'[u] = pc[u] /\ kind'[u] = kind[u]
        /\ UNCHANGED <<journal, event, claim, work, executed, flock>>
    BY <1>1 DEF Begin, files, Inv, Discipline, Idle, TypeOK
  <2>2. Exclusive'
    BY <1>1, <2>1 DEF Inv, Discipline, Exclusive, InQueue
  <2>3. Marks'
    BY <1>1, <2>1 DEF Inv, Discipline, Marks, PreAppend, NoEvent, Mark
  <2>4. Claiming'
    BY <1>1, <2>1 DEF Inv, Discipline, Claiming, PreAppend, InQueue
  <2>5. Idle'
    BY <1>1, <2>1 DEF Inv, Discipline, Idle
  <2>6. Ownership'
    BY <2>1 DEF Inv, Discipline, Ownership, Owns
  <2> QED BY <2>2, <2>3, <2>4, <2>5, <2>6 DEF Discipline
<1>2. CASE QueueMessage(t) BY <1>1, <1>2 DEF QueueMessage, QueueKind
<1>3. CASE TakeQueuedMessage(t) BY <1>1, <1>3 DEF TakeQueuedMessage, QueueKind
<1>4. CASE AppendEvent(t) BY <1>1, <1>4 DEF AppendEvent, QueueKind
<1>5. ASSUME NEW e \in TurnEnd, FinishTurn(t, e[1], e[2], e[3])
      PROVE  Discipline'
  BY <1>1, <1>5 DEF FinishTurn, QueueKind
<1>6. ASSUME NEW s \in SetState, UpdateState(t, s)
      PROVE  Discipline'
  BY <1>1, <1>6 DEF UpdateState, QueueKind
<1>7. ASSUME NEW i \in work[ProcOf[t]] \cup {NoItem}, NEW c \in BOOLEAN,
             ReleaseQueuedMessage(t, i, c)
      PROVE  Discipline'
  <2>1. /\ pc[t] = "idle" /\ claim[t] = NoItem /\ event[t] = NoEvent
        /\ pc'[t] = "loadrun" /\ kind'[t] = "release" /\ claim'[t] = i
        /\ \A u \in Thread : u # t => /\ pc'[u] = pc[u] /\ kind'[u] = kind[u]
                                    /\ claim'[u] = claim[u]
        /\ UNCHANGED <<journal, event, executed, flock>>
    BY <1>7 DEF ReleaseQueuedMessage, Begin, files, Inv, Discipline, Idle, TypeOK
  <2>2. ProcOf[t] \in Proc /\ work'[ProcOf[t]] = work[ProcOf[t]] \ {i}
        /\ \A p \in Proc : p # ProcOf[t] => work'[p] = work[p]
    BY <1>7, StoreAssumption DEF ReleaseQueuedMessage, Inv, Discipline, TypeOK
  <2>3. i # NoItem => /\ Started(journal, i) /\ i \notin executed
                      /\ \A p \in Proc : i \notin work'[p]
                      /\ \A u \in Thread : claim[u] # i
    BY <2>2, StoreAssumption DEF Inv, Discipline, Ownership, Owns
  <2>4. Exclusive'
    BY <2>1 DEF Inv, Discipline, Exclusive, InQueue
  <2>5. Marks'
    BY <2>1 DEF Inv, Discipline, Marks, PreAppend
  <2>6. Claiming'
    BY <2>1, <2>3 DEF Inv, Discipline, Claiming, PreAppend, InQueue
  <2>7. Idle'
    BY <2>1 DEF Inv, Discipline, Idle
  <2>8. Ownership'
    <3>1. /\ \A p \in Proc : \A n \in work'[p] : Started(journal', n) /\ n \notin executed'
          /\ \A p, q \in Proc : p # q => work'[p] \cap work'[q] = {}
          /\ \A n \in executed' : Started(journal', n)
      BY <2>1, <2>2 DEF Inv, Discipline, Ownership
    <3>2. \A u \in Thread : Owns(u)' => claim'[u] \notin executed'
                                       /\ \A p \in Proc : claim'[u] \notin work'[p]
      BY <2>1, <2>2, <2>3 DEF Inv, Discipline, Ownership, Owns
    <3>3. \A u, v \in Thread : Owns(u)' /\ claim'[u] = claim'[v] => u = v
      BY <2>1, <2>3 DEF Inv, Discipline, Ownership, Owns
    <3> QED BY <3>1, <3>2, <3>3 DEF Ownership
  <2> QED BY <2>4, <2>5, <2>6, <2>7, <2>8 DEF Discipline
<1>8. CASE SetRuntime(t) BY <1>1, <1>8 DEF SetRuntime, QueueKind
<1> QED BY <1>2, <1>3, <1>4, <1>5, <1>6, <1>7, <1>8 DEF Request

(* So does writing a line: only then does a follow-up become started or     *)
(* returned.                                                                *)
LEMMA AppendInv ==
  ASSUME Inv, NEW t \in Thread, AppendLine(t)
  PROVE  Discipline'
<1> DEFINE i == event[t].item
           e == [id |-> eid[t], type |-> event[t].type, item |-> i]
<1>1. /\ PreAppend(t) /\ pc[t] # "idle" /\ pc'[t] = "stamp"
      /\ \A u \in Thread : u # t => pc'[u] = pc[u]
      /\ UNCHANGED <<event, claim, kind, work, executed, flock>>
      /\ journal' = Append(journal, e)
  BY DEF AppendLine, PreAppend, KeepsRest, args, client, Inv, Discipline, TypeOK
<1>2. e \in Line /\ i \in Item \cup {NoItem} /\ event[t].type \in EventType
  BY DEF Inv, Discipline, TypeOK, Line, Event
<1>3. \A n \in Item : Started(journal', n) <=>
         \/ i = n /\ event[t].type = "queued_message_started"
         \/ ~(i = n /\ event[t].type \in Mark) /\ Started(journal, n)
  BY <1>1, <1>2, MarkAppend DEF Started, Mark, Inv, Discipline, TypeOK
<1>4. \A u \in Thread : claim[u] # NoItem => claim[u] \in Item
  BY DEF Inv, Discipline, TypeOK
<1>5. /\ \A p \in Proc : work[p] \subseteq Item
      /\ executed \subseteq Item
  BY DEF Inv, Discipline, TypeOK
<1>6. Exclusive'
  BY <1>1 DEF Inv, Discipline, Exclusive, InQueue, PreAppend
<1>7. Idle'
  BY <1>1 DEF Inv, Discipline, Idle
<1>8. CASE event[t].type \notin Mark
  <2>1. \A n \in Item : Started(journal', n) <=> Started(journal, n)
    BY <1>3, <1>8 DEF Mark
  <2>2. Marks'
    BY <1>1, <1>4, <2>1 DEF Inv, Discipline, Marks, PreAppend
  <2>3. Claiming'
    BY <1>1, <1>4, <1>8, <2>1 DEF Inv, Discipline, Claiming, PreAppend, InQueue, Mark
  <2>4. Ownership'
    BY <1>1, <1>4, <1>5, <2>1 DEF Inv, Discipline, Ownership, Owns
  <2> QED BY <1>6, <1>7, <2>2, <2>3, <2>4 DEF Discipline
<1>9. CASE event[t].type = "queued_message_started"
  <2>1. /\ i = claim[t] /\ i \in Item /\ i # NoItem /\ ~Started(journal, i)
        /\ kind[t] \in {"take", "finish"}
    BY <1>1, <1>4, <1>9 DEF Inv, Discipline, Marks, Mark
  <2>2. Started(journal', i) /\ \A n \in Item : n # i => (Started(journal', n) <=> Started(journal, n))
    BY <1>3, <1>9, <2>1
  <2>3. flock = t
    BY <1>1, <2>1 DEF Inv, Discipline, Exclusive, InQueue, PreAppend, QueueKind
  <2>4. \A u \in Thread : u # t => ~InQueue(u)
    BY <2>3 DEF Inv, Discipline, Exclusive
  <2>5. \A u \in Thread : u # t => claim[u] # i
    BY <2>1, <2>4 DEF Inv, Discipline, Claiming
  <2>6. Marks'
    BY <1>1, <1>4, <2>2, <2>5 DEF Inv, Discipline, Marks, PreAppend
  <2>7. Claiming'
    <3>1. \A u \in Thread : u # t /\ claim[u] # NoItem =>
             Started(journal', claim[u]) /\ kind[u] \in {"take", "finish", "release"}
      BY <1>4, <2>2, <2>4, <2>5 DEF Inv, Discipline, Claiming
    <3> QED BY <1>1, <2>1, <2>2, <3>1 DEF Claiming
  <2>8. Ownership'
    <3>1. i \notin executed /\ \A p \in Proc : i \notin work[p]
      BY <2>1 DEF Inv, Discipline, Ownership
    <3>2. /\ \A p \in Proc : \A n \in work'[p] : Started(journal', n) /\ n \notin executed'
          /\ \A p, q \in Proc : p # q => work'[p] \cap work'[q] = {}
          /\ \A n \in executed' : Started(journal', n)
      BY <1>1, <1>5, <2>2, <3>1 DEF Inv, Discipline, Ownership
    <3>3. \A u \in Thread : Owns(u)' => claim'[u] \notin executed'
                                       /\ \A p \in Proc : claim'[u] \notin work'[p]
      BY <1>1, <1>4, <2>1, <2>2, <2>5, <3>1 DEF Inv, Discipline, Ownership, Owns
    <3>4. \A u, v \in Thread : Owns(u)' /\ claim'[u] = claim'[v] => u = v
      BY <1>1, <1>4, <2>1, <2>2, <2>5 DEF Inv, Discipline, Ownership, Owns
    <3> QED BY <3>2, <3>3, <3>4 DEF Ownership
  <2> QED BY <1>6, <1>7, <2>6, <2>7, <2>8 DEF Discipline
<1>10. CASE event[t].type = "queued_message_returned"
  <2>1. i = claim[t] /\ i \in Item /\ i # NoItem /\ kind[t] = "release"
    BY <1>1, <1>4, <1>10 DEF Inv, Discipline, Marks, Mark
  <2>2. Started(journal, i)
    BY <1>1, <1>10, <2>1 DEF Inv, Discipline, Claiming
  <2>3. /\ i \notin executed /\ \A p \in Proc : i \notin work[p]
        /\ \A u \in Thread : u # t => claim[u] # i
    BY <2>1, <2>2 DEF Inv, Discipline, Ownership, Owns
  <2>4. ~Started(journal', i) /\ \A n \in Item : n # i => (Started(journal', n) <=> Started(journal, n))
    BY <1>3, <1>10, <2>1 DEF Mark
  <2>5. Marks'
    BY <1>1, <1>4, <2>3, <2>4 DEF Inv, Discipline, Marks, PreAppend
  <2>6. Claiming'
    <3>1. \A u \in Thread : u # t /\ claim'[u] # NoItem =>
             (Started(journal', claim'[u]) <=> Started(journal, claim[u]))
      BY <1>1, <1>4, <2>3, <2>4
    <3>2. InQueue(t)'
      BY <1>1, <2>1 DEF InQueue, QueueKind
    <3> QED BY <1>1, <2>1, <3>1, <3>2 DEF Inv, Discipline, Claiming, PreAppend, InQueue
  <2>7. Ownership'
    <3>1. /\ \A p \in Proc : \A n \in work'[p] : Started(journal', n) /\ n \notin executed'
          /\ \A p, q \in Proc : p # q => work'[p] \cap work'[q] = {}
          /\ \A n \in executed' : Started(journal', n)
      BY <1>1, <1>5, <2>3, <2>4 DEF Inv, Discipline, Ownership
    <3>2. \A u \in Thread : Owns(u)' => Owns(u)
      BY <1>1, <1>4, <2>1, <2>2, <2>4 DEF Owns
    <3> QED BY <1>1, <3>1, <3>2 DEF Inv, Discipline, Ownership
  <2> QED BY <1>6, <1>7, <2>5, <2>6, <2>7 DEF Discipline
<1> QED BY <1>8, <1>9, <1>10 DEF Mark
(* So does reading the files, where a claim picks its follow-up.            *)
LEMMA ReadInv ==
  ASSUME Inv, NEW t \in Thread, ReadFiles(t)
  PROVE  Discipline'
<1>1. /\ pc[t] = "read" /\ \A u \in Thread : u # t => pc'[u] = pc[u] /\ event'[u] = event[u]
      /\ UNCHANGED <<journal, kind, work, executed, flock>>
      /\ ~PreAppend(t)
  BY DEF ReadFiles, ReadToQueue, ReadToClaim, ReadToRelease, AfterRelease, Appending, PreAppend,
         KeepsRest, files, args, client, Inv, Discipline, TypeOK
<1>2. kind[t] \in QueueKind
  BY DEF ReadFiles, ReadToQueue, ReadToClaim, ReadToRelease, Claims, QueueKind
<1>3. InQueue(t) /\ flock = t /\ flock' = t
  BY <1>1, <1>2 DEF InQueue, Inv, Discipline, Exclusive
<1>4. claim[t] # NoItem => Started(journal, claim[t])
  BY <1>1 DEF Inv, Discipline, Claiming, PreAppend
<1>5. ASSUME UNCHANGED claim, pc'[t] \notin {"idle", "read", "flock"},
             PreAppend(t)' => event'[t].type \notin Mark
      PROVE  Discipline'
  BY <1>1, <1>3, <1>4, <1>5, QuietDiscipline DEF Quiet
<1>6. CASE ReadToQueue(t)
  BY <1>5, <1>6 DEF ReadToQueue, PreAppend, Inv, Discipline, TypeOK
<1>7. ASSUME kind[t] = "release" \/ Claims(t), UNCHANGED claim, AfterRelease(t)
      PROVE  Discipline'
  BY <1>5, <1>7 DEF AfterRelease, Appending, PreAppend, Mark, Inv, Discipline, TypeOK
<1>8. CASE ReadToRelease(t)
  <2>1. CASE /\ claim[t] # NoItem /\ claim[t] \notin Queue
             /\ Appending(t, "queued_message_returned", claim[t])
    <3>1. /\ pc'[t] = "load" /\ kind[t] = "release" /\ UNCHANGED claim
          /\ event'[t] = [type |-> "queued_message_returned", item |-> claim[t]]
      BY <1>8, <2>1 DEF ReadToRelease, Appending, Inv, Discipline, TypeOK
    <3>2. Exclusive'
      BY <1>1, <1>3, <3>1 DEF Inv, Discipline, Exclusive, InQueue
    <3>3. Marks'
      BY <1>1, <2>1, <3>1 DEF Inv, Discipline, Marks, PreAppend
    <3>4. Claiming'
      BY <1>1, <1>4, <3>1 DEF Inv, Discipline, Claiming, PreAppend, InQueue
    <3>5. Idle'
      BY <1>1, <3>1 DEF Inv, Discipline, Idle
    <3>6. Ownership'
      BY <1>1, <3>1, QuietOwnership DEF Inv, Discipline, Quiet
    <3> QED BY <3>2, <3>3, <3>4, <3>5, <3>6 DEF Discipline
  <2>2. CASE AfterRelease(t)
    BY <1>7, <1>8, <2>2 DEF ReadToRelease
  <2>3. CASE pc' = [pc EXCEPT ![t] = "return"] /\ UNCHANGED <<event, items>>
    BY <1>5, <1>8, <2>3 DEF ReadToRelease, PreAppend, Inv, Discipline, TypeOK
  <2> QED BY <1>8, <2>1, <2>2, <2>3 DEF ReadToRelease
<1>9. CASE ReadToClaim(t)
  <2>1. ASSUME NEW i \in Queue,
               claim' = [claim EXCEPT ![t] = i],
               Appending(t, "queued_message_started", i)
        PROVE  Discipline'
    <3>1. i \in Item /\ i # NoItem /\ ~Started(journal, i)
      BY QueueNotStarted DEF Inv, Discipline
    <3>2. /\ pc'[t] = "load" /\ claim'[t] = i
          /\ event'[t] = [type |-> "queued_message_started", item |-> i]
          /\ kind[t] \in {"take", "finish"}
          /\ \A u \in Thread : u # t => claim'[u] = claim[u]
      BY <1>9, <2>1 DEF ReadToClaim, Claims, Appending, Inv, Discipline, TypeOK
    <3>3. Exclusive'
      BY <1>1, <1>3, <3>2 DEF Inv, Discipline, Exclusive, InQueue
    <3>4. Marks'
      BY <1>1, <3>1, <3>2 DEF Inv, Discipline, Marks, PreAppend
    <3>5. Claiming'
      BY <1>1, <1>2, <3>2 DEF Inv, Discipline, Claiming, PreAppend, InQueue
    <3>6. Idle'
      BY <1>1, <3>2 DEF Inv, Discipline, Idle
    <3>7. \A u \in Thread : Owns(u)' => u # t /\ Owns(u)
      BY <1>1, <3>1, <3>2 DEF Owns
    <3>8. Ownership'
      <4>1. \A u, v \in Thread : Owns(u)' /\ claim'[u] = claim'[v] => u = v
        <5> SUFFICES ASSUME NEW u \in Thread, NEW v \in Thread, Owns(u)', claim'[u] = claim'[v]
                     PROVE  u = v
          OBVIOUS
        <5>1. u # t /\ Owns(u) /\ claim'[u] = claim[u]
          BY <3>2, <3>7
        <5>2. v # t
          BY <3>1, <3>2, <5>1 DEF Owns
        <5> QED BY <3>2, <5>1, <5>2 DEF Inv, Discipline, Ownership
      <4>2. \A u \in Thread : Owns(u)' => /\ claim'[u] \notin executed'
                                          /\ \A p \in Proc : claim'[u] \notin work'[p]
        BY <1>1, <3>2, <3>7 DEF Inv, Discipline, Ownership
      <4> QED BY <1>1, <4>1, <4>2 DEF Inv, Discipline, Ownership
    <3> QED BY <3>3, <3>4, <3>5, <3>6, <3>8 DEF Discipline
  <2>2. CASE Queue = {} /\ UNCHANGED claim
    BY <1>5, <1>9, <2>2 DEF ReadToClaim, Appending, PreAppend, Mark, Inv, Discipline, TypeOK
  <2> QED BY <1>9, <2>1, <2>2 DEF ReadToClaim
<1> QED BY <1>6, <1>8, <1>9 DEF ReadFiles

(* Steps of an append before its line is written change nothing of this. *)
LEMMA AppendProgress ==
  ASSUME Inv, NEW t \in Thread, PreAppend(t), PreAppend(t)', Quiet, UNCHANGED <<event, flock>>,
         \A u \in Thread : u # t => pc'[u] = pc[u]
  PROVE  Discipline'
<1>1. \A u \in Thread : PreAppend(u)' <=> PreAppend(u)
  BY DEF PreAppend
<1>2. \A u \in Thread : InQueue(u)' <=> InQueue(u)
  BY DEF PreAppend, InQueue, Quiet
<1>3. Exclusive'
  BY <1>2 DEF Inv, Discipline, Exclusive
<1>4. Marks'
  BY <1>1 DEF Inv, Discipline, Marks, Quiet
<1>5. Claiming'
  BY <1>1, <1>2 DEF Inv, Discipline, Claiming, Quiet, PreAppend
<1>6. Idle'
  BY DEF Inv, Discipline, Idle, Quiet, PreAppend
<1> QED BY <1>3, <1>4, <1>5, <1>6, QuietOwnership DEF Inv, Discipline

(* So does every step of a thread inside an operation.                      *)
LEMMA StepInv ==
  ASSUME Inv, NEW t \in Thread, Step(t)
  PROVE  Discipline'
<1>1. CASE LoadRun(t)
  <2>1. claim[t] # NoItem => Started(journal, claim[t])
    BY <1>1 DEF LoadRun, Inv, Discipline, Claiming, InQueue
  <2> QED BY <1>1, <2>1, QuietDiscipline
        DEF LoadRun, Quiet, KeepsRest, files, args, client, InQueue, PreAppend, Inv, Discipline, TypeOK
<1>2. CASE TakeFlock(t)
  <2>1. claim[t] # NoItem => Started(journal, claim[t])
    BY <1>2 DEF TakeFlock, Inv, Discipline, Claiming, InQueue
  <2>2. /\ pc[t] = "flock" /\ flock = NoThread /\ flock' = t
        /\ Quiet /\ pc'[t] # "idle"
        /\ PreAppend(t)' => event'[t].type \notin Mark
        /\ \A u \in Thread : u # t => pc'[u] = pc[u] /\ event'[u] = event[u]
    BY <1>2 DEF TakeFlock, Appending, Quiet, KeepsRest, files, args, client, PreAppend, Mark, Inv, Discipline, TypeOK
  <2> QED BY <2>1, <2>2, QuietDiscipline DEF PreAppend
<1>3. CASE ReadFiles(t) BY <1>3, ReadInv
<1>4. CASE AppendLoad(t)
  <2>1. /\ PreAppend(t) /\ pc[t] = "load"
        /\ pc'[t] = IF kind[t] = "set" THEN "stamp" ELSE "count"
        /\ UNCHANGED <<event, flock>> /\ Quiet
        /\ \A u \in Thread : u # t => pc'[u] = pc[u]
    BY <1>4 DEF AppendLoad, PreAppend, Quiet, KeepsRest, files, args, client, Inv, Discipline, TypeOK
  <2>2. CASE kind[t] = "set"
    <3>1. event[t].type \notin Mark
      BY <2>1, <2>2 DEF Inv, Discipline, Marks
    <3>2. claim[t] # NoItem => Started(journal, claim[t])
      BY <2>2 DEF Inv, Discipline, Claiming, InQueue, QueueKind
    <3>3. pc'[t] = "stamp" /\ ~PreAppend(t)' /\ ~InQueue(t)'
      BY <2>1, <2>2 DEF PreAppend, InQueue, QueueKind, Quiet
    <3> QED BY <2>1, <3>1, <3>2, <3>3, QuietDiscipline DEF Mark
  <2>3. CASE kind[t] # "set"
    BY <2>1, <2>3, AppendProgress DEF PreAppend
  <2> QED BY <2>2, <2>3
<1>5. CASE NextEventId(t)
  <2>1. /\ PreAppend(t) /\ PreAppend(t)' /\ pc[t] = "count" /\ pc'[t] = "append"
        /\ UNCHANGED <<event, flock>> /\ Quiet
        /\ \A u \in Thread : u # t => pc'[u] = pc[u]
    BY <1>5 DEF NextEventId, PreAppend, Quiet, KeepsRest, files, args, client, Inv, Discipline, TypeOK
  <2> QED BY <2>1, AppendProgress
<1>6. CASE AppendLine(t) BY <1>6, AppendInv
<1>7. ASSUME pc[t] \in {"stamp", "snapshot", "publish"}, Quiet, UNCHANGED flock,
             pc'[t] \notin {"idle", "read", "flock", "loadrun"},
             PreAppend(t)' => event'[t].type \notin Mark,
             \A u \in Thread : u # t => pc'[u] = pc[u] /\ event'[u] = event[u]
      PROVE  Discipline'
  <2>1. InQueue(t)' => InQueue(t) /\ flock' = t
    BY <1>7 DEF InQueue, Quiet, Inv, Discipline, Exclusive
  <2>2. claim[t] # NoItem => Started(journal, claim[t]) \/ InQueue(t)'
    BY <1>7 DEF InQueue, Quiet, Inv, Discipline, Claiming
  <2> QED BY <1>7, <2>1, <2>2, QuietDiscipline DEF PreAppend
<1>8. CASE StampMeta(t)
  BY <1>7, <1>8 DEF StampMeta, Appending, Quiet, KeepsRest, args, client, PreAppend, Mark, Inv, Discipline, TypeOK
<1>9. CASE WriteQueue(t)
  BY <1>7, <1>9 DEF WriteQueue, AfterRelease, Appending, Quiet, KeepsRest, args, client, PreAppend,
                    Mark, Inv, Discipline, TypeOK
<1>10. CASE Publish(t)
  BY <1>7, <1>10 DEF Publish, Quiet, KeepsRest, args, client, local, PreAppend, Inv, Discipline, TypeOK
<1>11. CASE Return(t)
  <2>1. Stop({t}) /\ {t} \in SUBSET Thread
    BY <1>11 DEF Return
  <2>2. Exclusive' /\ Marks' /\ Claiming' /\ Idle'
    BY <2>1, StopDiscipline
  <2>3. CASE UNCHANGED work
    BY <2>1, <2>2, <2>3, StopOwnership DEF Discipline
  <2>4. CASE Claims(t) /\ claim[t] # NoItem /\ work' = [work EXCEPT ![ProcOf[t]] = @ \cup {claim[t]}]
    <3>1. Owns(t)
      BY <1>11, <2>4 DEF Return, Inv, Discipline, Claiming, Owns, PreAppend, Claims
    <3>2. /\ claim'[t] = NoItem
          /\ \A u \in Thread : u # t => claim'[u] = claim[u]
          /\ UNCHANGED <<journal, executed>>
      BY <2>1 DEF Stop, Reset, files
    <3>3. /\ ProcOf[t] \in Proc /\ work'[ProcOf[t]] = work[ProcOf[t]] \cup {claim[t]}
          /\ \A p \in Proc : p # ProcOf[t] => work'[p] = work[p]
      BY <2>4, StoreAssumption DEF Inv, Discipline, TypeOK
    <3>4. /\ \A p \in Proc : \A n \in work'[p] : Started(journal', n) /\ n \notin executed'
          /\ \A p, q \in Proc : p # q => work'[p] \cap work'[q] = {}
          /\ \A n \in executed' : Started(journal', n)
      BY <3>1, <3>2, <3>3 DEF Inv, Discipline, Ownership, Owns
    <3>5. \A u \in Thread : Owns(u)' => u # t /\ Owns(u) /\ claim'[u] # claim[t]
      BY <3>1, <3>2 DEF Owns, Inv, Discipline, Ownership
    <3>6. \A u \in Thread : Owns(u)' => /\ claim'[u] \notin executed'
                                        /\ \A p \in Proc : claim'[u] \notin work'[p]
      BY <3>2, <3>3, <3>5 DEF Inv, Discipline, Ownership
    <3>7. \A u, v \in Thread : Owns(u)' /\ claim'[u] = claim'[v] => u = v
      BY <3>2, <3>5 DEF Inv, Discipline, Ownership, Owns
    <3> QED BY <2>2, <3>4, <3>6, <3>7 DEF Ownership, Discipline
  <2> QED BY <1>11, <2>3, <2>4 DEF Return
<1> QED BY <1>1, <1>2, <1>3, <1>4, <1>5, <1>6, <1>8, <1>9, <1>10, <1>11 DEF Step
(* The ownership discipline survives every step: requests, file steps,      *)
(* cancellations, failed writes, crashes and executed turns.                *)
LEMMA Inductive == Inv /\ [Next]_vars => Inv'
<1> SUFFICES ASSUME Inv, [Next]_vars PROVE TypeOK' /\ Discipline'
  BY DEF Inv, Discipline
<1>1. TypeOK'
  BY TypeInductive DEF Inv, Discipline
<1>2. ASSUME NEW t \in Thread, Request(t) PROVE Discipline'
  BY <1>2, RequestInv DEF Discipline
<1>3. ASSUME NEW t \in Thread, Step(t) PROVE Discipline'
  BY <1>3, StepInv DEF Discipline
<1>4. ASSUME NEW t \in Thread, Cancel(t) PROVE Discipline'
  <2>1. /\ UNCHANGED <<pc, event, flock>> /\ Quiet
    BY <1>4 DEF Cancel, Quiet, files, args, local, client
  <2> QED BY <2>1, Unmoved
<1>5. ASSUME NEW t \in Thread, FaultyWrite(t) PROVE Discipline'
  BY <1>5, StopDiscipline, StopOwnership DEF FaultyWrite, Discipline
<1>6. ASSUME NEW p \in Proc, Crash(p) PROVE Discipline'
  <2>1. \A q \in Proc : work'[q] \subseteq work[q]
    BY <1>6 DEF Crash, Inv, Discipline, TypeOK
  <2> QED BY <1>6, <2>1, StopDiscipline, StopOwnership DEF Crash, Discipline
<1>7. ASSUME NEW p \in Proc, NEW i \in work[p], Execute(p, i) PROVE Discipline'
  <2>1. /\ UNCHANGED <<pc, kind, event, claim, flock, journal>>
        /\ executed' = executed \cup {i}
        /\ work'[p] = work[p] \ {i} /\ \A q \in Proc : q # p => work'[q] = work[q]
    BY <1>7 DEF Execute, files, args, local, Inv, Discipline, TypeOK
  <2>2. Exclusive' /\ Marks' /\ Claiming' /\ Idle'
    BY <2>1 DEF Inv, Discipline, Exclusive, Marks, Claiming, Idle, InQueue, PreAppend
  <2>3. Ownership'
    BY <2>1 DEF Inv, Discipline, Ownership, Owns
  <2> QED BY <2>2, <2>3 DEF Discipline
<1>8. CASE UNCHANGED vars
  <2>1. UNCHANGED <<pc, event, flock>> /\ Quiet
    BY <1>8 DEF vars, Quiet, files, args, local, client
  <2> QED BY <1>1, <2>1, Unmoved
<1> QED BY <1>1, <1>2, <1>3, <1>4, <1>5, <1>6, <1>7, <1>8 DEF Next

(* A follow-up handed to a client is in no other client's hands, no longer *)
(* offered, and was never run before; what was run is never offered again.  *)
THEOREM RunsAtMostOnce == Spec => []AtMostOnce
<1>1. Init => Inv
  <2> SUFFICES ASSUME Init PROVE Inv
    OBVIOUS
  <2>1. TypeOK
    BY TypeInit
  <2>2. Exclusive /\ Marks /\ Claiming /\ Idle
    BY DEF Init, Exclusive, Marks, Claiming, Idle, InQueue, PreAppend
  <2>3. Ownership
    BY DEF Init, Ownership, Owns
  <2> QED BY <2>1, <2>2, <2>3 DEF Inv, Discipline
<1>2. Inv => AtMostOnce
  BY QueueNotStarted DEF Inv, Discipline, Ownership, AtMostOnce
<1> QED BY <1>1, <1>2, Inductive, PTL DEF Spec
=============================================================================
