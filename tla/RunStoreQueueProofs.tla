------------------------ MODULE RunStoreQueueProofs ------------------------
(***************************************************************************)
(* More theorems about RunStore: the follow-up queue it keeps in two files *)
(* is the queue its clients believe in (FollowupQueue), nothing accepted   *)
(* vanishes without trace, a run is not completed over a follow-up, and in *)
(* one process the published state and the event ids stand.                *)
(*                                                                         *)
(* RunStoreProofs shows who may claim; here, what a thread inside          *)
(* queue.lock is about to write is the queue as its operation leaves it.   *)
(***************************************************************************)
EXTENDS RunStoreProofs, FiniteSetTheorems

USE DEF files, args, local, client, KeepsRest

(* Only accepted follow-ups appear anywhere. *)
Numbered ==
  /\ \A k \in DOMAIN journal : journal[k].item < nextItem
  /\ \A i \in queueFile : i < nextItem
  /\ \A t \in Thread : claim[t] < nextItem /\ event[t].item < nextItem

(* A mark is in the journal, queue.json is not yet written. *)
Marked(t) == \/ pc[t] = "stamp" /\ event[t].type \in Mark
             \/ pc[t] = "snapshot" /\ kind[t] # "queue"

(* What t is about to write into queue.json is the queue as its operation   *)
(* leaves it.                                                               *)
Drafts(t) ==
  /\ pc[t] = "snapshot" /\ kind[t] = "queue" =>
       items[t] = Queue \cup {nextItem} /\ Cardinality(Queue) < QueueLimit
  /\ PreAppend(t) /\ event[t].type = "queued_message_started" =>
       claim[t] \in Queue /\ Oldest(claim[t], Queue) /\ items[t] = Queue \ {claim[t]}
  /\ PreAppend(t) /\ event[t].type = "queued_message_returned" =>
       items[t] = Queue \cup {claim[t]}
  /\ Marked(t) => kind[t] \in {"take", "finish", "release"} /\ items[t] = Queue

(* A claim that found nothing found the queue empty, and it stays empty. *)
Emptied(t) ==
  InQueue(t) /\ pc[t] # "read" /\ Claims(t) /\ claim[t] = NoItem => Queue = {}

(* A thread that is to claim has nothing yet, and only claims claim. *)
Entering(t) ==
  /\ kind[t] \in {"take", "finish"} /\ pc[t] \in {"loadrun", "flock", "read"}
       => claim[t] = NoItem
  /\ kind[t] = "finish" /\ claim[t] # NoItem => Claims(t)

Returning(t) == PreAppend(t) /\ event[t].type = "queued_message_returned"

(* A return that has read the files leaves its follow-up not started. *)
Restored(t) ==
  kind[t] = "release" /\ InQueue(t) /\ pc[t] # "read" /\ claim[t] # NoItem /\ ~Returning(t)
    => ~Started(journal, claim[t])

(* take_queued_message writes its mark and nothing else. *)
Taking(t) ==
  kind[t] = "take" => /\ pc[t] # "publish"
                      /\ event[t].type \in {"event", "queued_message_started"}

Own(t) == Drafts(t) /\ Emptied(t) /\ Entering(t) /\ Restored(t) /\ Taking(t)

Bounded == \A k \in Hazard : budget[k] <= Bound[k]

(* Nothing has crashed, failed or been cancelled yet. *)
Unspoiled == \A k \in {"crash", "fault", "cancel"} : budget[k] = Bound[k]

(* Undisturbed, what is started is in somebody's hands or was run. *)
Kept ==
  Unspoiled => /\ \A t \in Thread : ~detached[t]
               /\ \A i \in Item : Started(journal, i) => i \in Owned \cup executed

Store ==
  Numbered /\ (\A t \in Thread : Own(t)) /\ NoSilentLoss /\ Bounded /\ Kept

-----------------------------------------------------------------------------
(* The queue read from the two files, without the detour over their items. *)
LEMMA QueueIs ==
  ASSUME NEW q \in SUBSET Item, NEW j \in Seq(Line)
  PROVE  ReadQueue(q, j) =
           {i \in Item : (i \in q /\ ~Started(j, i)) \/ Returned(j, i)}
<1>1. \A k \in DOMAIN j : j[k].item \in Item \cup {NoItem}
  <2> SUFFICES ASSUME NEW k \in DOMAIN j PROVE j[k].item \in Item \cup {NoItem}
    OBVIOUS
  <2>1. j[k] \in Line
    BY ElementOfSeq
  <2> QED BY <2>1 DEF Line
<1>2. \A i : Returned(j, i) => \E k \in DOMAIN j : j[k].item = i
  BY DEF Returned, LastMark
<1>3. NoItem \notin Item
  BY DEF Item, NoItem
<1> QED BY <1>1, <1>2, <1>3 DEF ReadQueue

(* What is marked is in the journal, and what is offered was accepted. *)
LEMMA Accepted ==
  ASSUME TypeOK, Numbered
  PROVE  /\ \A i \in Item : Started(journal, i) => i < nextItem
         /\ \A i \in Queue : i \in Item /\ i < nextItem
<1>1. \A i : Started(journal, i) \/ Returned(journal, i) =>
               \E k \in DOMAIN journal : journal[k].item = i
  BY DEF Started, Returned, LastMark
<1>2. Queue \subseteq Item
  BY QueueIsItems
<1>3. \A i \in Queue : i \in queueFile \/ Returned(journal, i)
  BY DEF Queue, ReadQueue
<1> QED BY <1>1, <1>2, <1>3 DEF Numbered

(* The queue is finite: its length is a number. *)
LEMMA QueueFinite ==
  ASSUME TypeOK, Numbered
  PROVE  Cardinality(Queue) \in Nat
<1>1. Queue \subseteq 1 .. nextItem
  BY Accepted DEF TypeOK, Item
<1>2. IsFiniteSet(1 .. nextItem)
  BY FS_Interval DEF TypeOK, Item
<1> QED BY <1>1, <1>2, FS_Subset, FS_CardinalityType

(* What is owned is in a client's hands or marked by the thread that has it. *)
LEMMA OwnedIs ==
  \A i : i \in Owned <=>
     \/ \E p \in Proc : i \in work[p]
     \/ \E t \in Thread : claim[t] = i /\ i # NoItem /\ Started(journal, i)
<1> DEFINE W == UNION {work[p] : p \in Proc}
<1>1. \A i : i \in InFlight <=> \E t \in Thread : claim[t] = i /\ i # NoItem
  BY DEF InFlight
<1>2. \A i : i \in W <=> \E p \in Proc : i \in work[p]
  OBVIOUS
<1>3. Owned = W \cup {i \in InFlight : Started(journal, i)}
  BY DEF Owned
<1> HIDE DEF W
<1> QED BY <1>1, <1>2, <1>3

(* While one thread is inside queue.lock, no other is. *)
LEMMA Alone ==
  ASSUME Inv, NEW t \in Thread, InQueue(t), NEW u \in Thread, u # t
  PROVE  ~InQueue(u)
BY DEF Inv, Discipline, Exclusive

-----------------------------------------------------------------------------
(* What a line does to the queue and to the marks, by its type. *)
LEMMA LineEffect ==
  ASSUME Inv, NEW t \in Thread, AppendLine(t)
  PROVE  /\ event[t].type \notin Mark =>
              /\ Queue' = Queue
              /\ \A n \in Item : Started(journal', n) <=> Started(journal, n)
         /\ event[t].type \in Mark =>
              InQueue(t) /\ event[t].item = claim[t] /\ claim[t] \in Item
         /\ event[t].type = "queued_message_started" =>
              /\ Queue' = Queue \ {claim[t]} /\ ~Started(journal, claim[t])
              /\ \A n \in Item : Started(journal', n) <=> n = claim[t] \/ Started(journal, n)
         /\ event[t].type = "queued_message_returned" =>
              /\ Queue' = Queue \cup {claim[t]} /\ Started(journal, claim[t])
              /\ \A n \in Item : Started(journal', n) <=> n # claim[t] /\ Started(journal, n)
<1> DEFINE i == event[t].item
           e == [id |-> eid[t], type |-> event[t].type, item |-> i]
<1>1. /\ PreAppend(t) /\ journal' = Append(journal, e) /\ UNCHANGED queueFile
  BY DEF AppendLine, PreAppend
<1>2. e \in Line /\ i \in Item \cup {NoItem} /\ event[t].type \in EventType
  BY DEF Inv, TypeOK, Line, Event
<1>3. \A n \in Item : Started(journal', n) <=>
         \/ i = n /\ event[t].type = "queued_message_started"
         \/ ~(i = n /\ event[t].type \in Mark) /\ Started(journal, n)
  BY <1>1, <1>2, MarkAppend DEF Started, Mark, Inv, TypeOK
<1>4. \A n \in Item : Returned(journal', n) <=>
         \/ i = n /\ event[t].type = "queued_message_returned"
         \/ ~(i = n /\ event[t].type \in Mark) /\ Returned(journal, n)
  BY <1>1, <1>2, MarkAppend DEF Returned, Mark, Inv, TypeOK
<1>5. /\ queueFile \in SUBSET Item /\ journal \in Seq(Line)
      /\ queueFile' \in SUBSET Item /\ journal' \in Seq(Line)
  BY <1>1, <1>2 DEF Inv, TypeOK
<1>6. /\ Queue = {n \in Item : (n \in queueFile /\ ~Started(journal, n)) \/ Returned(journal, n)}
      /\ Queue' = {n \in Item :
                     (n \in queueFile /\ ~Started(journal', n)) \/ Returned(journal', n)}
  BY <1>1, <1>5, QueueIs DEF Queue
<1>7. event[t].type \in Mark => InQueue(t) /\ i = claim[t] /\ claim[t] \in Item
  BY <1>1 DEF Inv, Discipline, Marks, InQueue, PreAppend, QueueKind, TypeOK
<1>8. event[t].type = "queued_message_returned" => Started(journal, claim[t])
  BY <1>1, <1>7 DEF Inv, Discipline, Marks, Claiming, Mark, NoItem, Item
<1>9. event[t].type = "queued_message_started" => ~Started(journal, claim[t])
  BY <1>1 DEF Inv, Discipline, Marks, Mark
<1>10. CASE event[t].type \notin Mark
  BY <1>3, <1>4, <1>6, <1>10 DEF Mark
<1>11. CASE event[t].type = "queued_message_started"
  BY <1>3, <1>4, <1>6, <1>7, <1>9, <1>11 DEF Mark
<1>12. CASE event[t].type = "queued_message_returned"
  BY <1>3, <1>4, <1>6, <1>7, <1>8, <1>12 DEF Mark
<1> QED BY <1>10, <1>11, <1>12 DEF Mark

(* Writing queue.json publishes the draft: the queue becomes what it says. *)
LEMMA WriteEffect ==
  ASSUME Inv, Store, NEW t \in Thread, WriteQueue(t)
  PROVE  /\ InQueue(t) /\ Queue' = items[t] /\ UNCHANGED journal
         /\ kind[t] = "queue" => /\ Queue' = Queue \cup {nextItem}
                                 /\ nextItem' = nextItem + 1
                                 /\ Cardinality(Queue) < QueueLimit
         /\ kind[t] # "queue" => Queue' = Queue /\ nextItem' = nextItem
<1>1. /\ pc[t] = "snapshot" /\ queueFile' = items[t] /\ UNCHANGED journal
      /\ nextItem' = IF kind[t] = "queue" THEN nextItem + 1 ELSE nextItem
      /\ InQueue(t)
  BY DEF WriteQueue, InQueue, QueueKind
<1>2. Drafts(t)
  BY DEF Store, Own
<1>3. \/ kind[t] = "queue" /\ items[t] = Queue \cup {nextItem} /\ Cardinality(Queue) < QueueLimit
      \/ kind[t] # "queue" /\ items[t] = Queue
  BY <1>1, <1>2 DEF Drafts, Marked
<1>4. /\ queueFile \in SUBSET Item /\ journal \in Seq(Line) /\ items[t] \in SUBSET Item
      /\ nextItem \in Item /\ \A i \in Item : i < nextItem => i # nextItem
  BY DEF Inv, TypeOK, Item
<1>5. Queue' = {n \in Item : (n \in items[t] /\ ~Started(journal, n)) \/ Returned(journal, n)}
  BY <1>1, <1>4, QueueIs DEF Queue
<1>6. \A n \in Item : Returned(journal, n) => n \in Queue
  BY <1>4, QueueIs DEF Queue
<1>7. \A n \in Queue : n \in Item /\ ~Started(journal, n)
  BY QueueNotStarted DEF Inv
<1>8. ~Started(journal, nextItem)
  BY <1>4, Accepted DEF Inv, Store
<1>9. \A n \in items[t] : n \in Item /\ ~Started(journal, n)
  BY <1>3, <1>4, <1>7, <1>8
<1>10. Queue' = items[t]
  BY <1>3, <1>5, <1>6, <1>9
<1> QED BY <1>1, <1>3, <1>10

-----------------------------------------------------------------------------
(* A thread that does not move keeps its part, if nobody changes the queue   *)
(* or if it is outside queue.lock.                                          *)
LEMMA Bystander ==
  ASSUME Inv, NEW u \in Thread, Own(u),
         pc'[u] = pc[u], kind'[u] = kind[u], event'[u] = event[u], items'[u] = items[u],
         claim'[u] = claim[u], target'[u] = target[u], drain'[u] = drain[u], hold'[u] = hold[u],
         \/ ~InQueue(u)
         \/ /\ Queue' = Queue /\ nextItem' = nextItem
            /\ \A n \in Item : Started(journal', n) <=> Started(journal, n)
  PROVE  Own(u)'
<1>1. /\ PreAppend(u)' <=> PreAppend(u)
      /\ InQueue(u)' <=> InQueue(u)
      /\ Marked(u)' <=> Marked(u)
      /\ Claims(u)' <=> Claims(u)
      /\ Returning(u)' <=> Returning(u)
  BY DEF PreAppend, InQueue, Marked, Claims, Returning
<1>2. claim[u] # NoItem => claim[u] \in Item
  BY DEF Inv, TypeOK
<1>3. PreAppend(u) /\ event[u].type \in Mark => InQueue(u)
  BY DEF Inv, Discipline, Marks, InQueue, PreAppend, QueueKind
<1>4. Marked(u) => InQueue(u)
  BY DEF Own, Drafts, Marked, InQueue, QueueKind
<1>5. pc[u] = "snapshot" /\ kind[u] = "queue" => InQueue(u)
  BY DEF InQueue, QueueKind
<1>6. Drafts(u)'
  <2>1. CASE ~InQueue(u)
    BY <1>1, <1>3, <1>4, <1>5, <2>1 DEF Drafts, Mark
  <2>2. CASE Queue' = Queue /\ nextItem' = nextItem
    BY <1>1, <2>2 DEF Own, Drafts, Oldest
  <2> QED BY <2>1, <2>2
<1>7. Emptied(u)' /\ Entering(u)' /\ Taking(u)'
  BY <1>1 DEF Own, Emptied, Entering, Taking
<1>8. Restored(u)'
  BY <1>1, <1>2 DEF Own, Restored
<1> QED BY <1>6, <1>7, <1>8 DEF Own

(* Everything a step of t changes beside t's own place: the files of the    *)
(* queue, if t is inside queue.lock.                                        *)
OthersRest(t) ==
  \A u \in Thread : u # t =>
    /\ pc'[u] = pc[u] /\ kind'[u] = kind[u] /\ event'[u] = event[u] /\ items'[u] = items[u]
    /\ claim'[u] = claim[u] /\ target'[u] = target[u] /\ drain'[u] = drain[u]
    /\ hold'[u] = hold[u]

(* So a step of t leaves every other thread its part. *)
LEMMA OthersOwn ==
  ASSUME Inv, Store, NEW t \in Thread, OthersRest(t),
         \/ InQueue(t)
         \/ /\ Queue' = Queue /\ nextItem' = nextItem
            /\ \A n \in Item : Started(journal', n) <=> Started(journal, n)
  PROVE  \A u \in Thread : u # t => Own(u)'
<1> SUFFICES ASSUME NEW u \in Thread, u # t PROVE Own(u)'
  OBVIOUS
<1>1. Own(u)
  BY DEF Store
<1>2. InQueue(t) => ~InQueue(u)
  BY Alone
<1> QED BY <1>1, <1>2, Bystander DEF OthersRest

(* A thread that begins an operation has drafted nothing. *)
LEMMA RequestOwn ==
  ASSUME Inv, Store, NEW t \in Thread, Request(t)
  PROVE  \A u \in Thread : Own(u)'
<1>1. /\ UNCHANGED <<journal, queueFile, nextItem>> /\ OthersRest(t)
      /\ pc[t] = "idle" /\ event'[t] = NoEvent
      /\ \/ pc'[t] \in {"flock", "load", "publish"} /\ kind'[t] # "release" /\ claim'[t] = claim[t]
         \/ pc'[t] = "loadrun" /\ kind'[t] = "release"
      /\ pc'[t] \in {"load", "publish"} => kind'[t] \notin QueueKind
  BY DEF Request, QueueMessage, TakeQueuedMessage, AppendEvent, ReleaseQueuedMessage,
         FinishTurn, SetRuntime, UpdateState, Begin, OthersRest, QueueKind, Inv, TypeOK,
         Discipline, Idle
<1>2. claim[t] = NoItem
  BY <1>1 DEF Inv, Discipline, Idle
<1>3. Queue' = Queue
  BY <1>1 DEF Queue
<1>4. ~InQueue(t)' /\ event'[t].type = "event"
  BY <1>1 DEF InQueue, NoEvent
<1>5. Own(t)'
  BY <1>1, <1>2, <1>4 DEF Own, Drafts, Emptied, Entering, Taking, Restored, Marked, Mark, QueueKind
<1> QED BY <1>1, <1>3, <1>5, OthersOwn

(* A thread that stops has drafted nothing. *)
LEMMA StopOwn ==
  ASSUME Inv, Store, NEW S \in SUBSET Thread, Stop(S)
  PROVE  \A u \in Thread : Own(u)'
<1>1. UNCHANGED <<journal, queueFile, nextItem>>
  BY DEF Stop
<1>2. Queue' = Queue
  BY <1>1 DEF Queue
<1>3. ASSUME NEW u \in S PROVE Own(u)'
  <2>1. pc'[u] = "idle" /\ kind'[u] = "idle" /\ claim'[u] = NoItem
    BY DEF Stop, Reset
  <2> QED BY <2>1 DEF Own, Drafts, Emptied, Entering, Taking, Restored, Marked, PreAppend, InQueue
<1>4. ASSUME NEW u \in Thread, u \notin S PROVE Own(u)'
  <2>1. /\ pc'[u] = pc[u] /\ kind'[u] = kind[u] /\ event'[u] = event[u] /\ items'[u] = items[u]
        /\ claim'[u] = claim[u] /\ target'[u] = target[u] /\ drain'[u] = drain[u]
        /\ hold'[u] = hold[u]
    BY <1>4 DEF Stop, Reset
  <2>2. Own(u)
    BY DEF Store
  <2> QED BY <1>1, <1>2, <2>1, <2>2, Bystander
<1> QED BY <1>3, <1>4

(* Reading the files drafts what will be written. *)
LEMMA ReadOwn ==
  ASSUME Inv, Store, NEW t \in Thread, ReadFiles(t)
  PROVE  Own(t)'
<1>1. /\ pc[t] = "read" /\ UNCHANGED <<journal, queueFile, nextItem, kind, target, drain, hold>>
      /\ ~PreAppend(t)
  BY DEF ReadFiles, PreAppend
<1>2. /\ Queue' = Queue /\ nextItem' = nextItem
      /\ kind'[t] = kind[t] /\ (Claims(t)' <=> Claims(t))
  BY <1>1 DEF Queue, Claims
<1>3. Entering(t) /\ Emptied(t) /\ Taking(t)
  BY DEF Store, Own
<1>4. claim[t] # NoItem => Started(journal, claim[t])
  BY <1>1 DEF Inv, Discipline, Claiming
<1>5. Cardinality(Queue) \in Nat /\ QueueLimit \in Nat
  BY QueueFinite, StoreAssumption DEF Inv, Store
<1>6. CASE ReadToQueue(t)
  <2>1. \/ pc'[t] = "return"
        \/ /\ pc'[t] = "snapshot" /\ items'[t] = Queue \cup {nextItem}
           /\ Cardinality(Queue) < QueueLimit
    <3>1. CASE Cardinality(Queue) >= QueueLimit
      BY <1>5, <1>6, <3>1 DEF ReadToQueue, Inv, TypeOK
    <3>2. CASE ~(Cardinality(Queue) >= QueueLimit)
      <4>1. Cardinality(Queue) < QueueLimit
        BY <1>5, <3>2
      <4> QED BY <1>6, <3>2, <4>1 DEF ReadToQueue, Inv, TypeOK
    <3> QED BY <3>1, <3>2
  <2>2. kind[t] = "queue" /\ UNCHANGED <<claim, event>>
    BY <1>6 DEF ReadToQueue
  <2>3. Drafts(t)'
    BY <1>1, <1>2, <2>1, <2>2 DEF Drafts, PreAppend, Marked
  <2> QED BY <1>2, <2>2, <2>3 DEF Own, Emptied, Entering, Taking, Restored, Claims
<1>7. CASE ReadToClaim(t)
  <2>1. ASSUME NEW i \in Queue, Oldest(i, Queue),
               claim' = [claim EXCEPT ![t] = i],
               items' = [items EXCEPT ![t] = Queue \ {i}],
               Appending(t, "queued_message_started", i)
        PROVE  Own(t)'
    <3>1. /\ claim'[t] = i /\ items'[t] = Queue \ {i} /\ pc'[t] = "load"
          /\ event'[t].type = "queued_message_started" /\ i # NoItem
      BY <2>1, QueueNotStarted DEF Appending, Inv, TypeOK
    <3> QED BY <1>2, <1>7, <2>1, <3>1
          DEF ReadToClaim, Claims, Own, Drafts, Emptied, Entering, Taking, Restored, PreAppend, Marked
  <2>2. CASE Queue = {} /\ UNCHANGED <<items, claim>>
    <3>1. \/ pc'[t] = "return" /\ kind[t] = "take" /\ event'[t] = event[t]
          \/ pc'[t] = "load" /\ event'[t].type = "turn_finished" /\ kind[t] = "finish"
      BY <1>7, <2>2 DEF ReadToClaim, Claims, Appending, Inv, TypeOK
    <3> QED BY <1>2, <1>3, <1>7, <2>2, <3>1
          DEF ReadToClaim, Claims, Own, Drafts, Emptied, Entering, Taking, Restored, PreAppend, Marked,
              Mark
  <2> QED BY <1>7, <2>1, <2>2 DEF ReadToClaim
<1>8. CASE ReadToRelease(t)
  <2>1. kind[t] = "release" /\ UNCHANGED claim
    BY <1>8 DEF ReadToRelease
  <2>2. Emptied(t)' /\ Entering(t)'
    BY <1>2, <2>1 DEF Emptied, Entering, Claims
  <2>3. CASE /\ items' = [items EXCEPT ![t] = Queue \cup {claim[t]}]
             /\ Appending(t, "queued_message_returned", claim[t])
    <3>1. /\ items'[t] = Queue \cup {claim[t]} /\ pc'[t] = "load"
          /\ event'[t].type = "queued_message_returned"
      BY <2>3 DEF Appending, Inv, TypeOK
    <3> QED BY <1>2, <2>1, <2>2, <3>1 DEF Own, Drafts, Taking, Restored, Returning, PreAppend, Marked
  <2>4. ASSUME claim[t] # NoItem => ~Started(journal, claim[t]),
               AfterRelease(t) \/ (pc' = [pc EXCEPT ![t] = "return"] /\ UNCHANGED event)
        PROVE  Own(t)'
    <3>1. \/ pc'[t] = "return"
          \/ pc'[t] = "load" /\ event'[t].type = "run_finished"
      BY <2>4 DEF AfterRelease, Appending, Inv, TypeOK
    <3> QED BY <1>1, <1>2, <2>1, <2>2, <2>4, <3>1
          DEF Own, Drafts, Taking, Restored, PreAppend, Marked, Mark
  <2>5. claim[t] \in Queue => ~Started(journal, claim[t])
    BY QueueNotStarted DEF Inv
  <2>6. Started(journal, claim[t]) => Recorded(claim[t])
    BY DEF Started, LastMark, Recorded
  <2> QED BY <1>8, <2>3, <2>4, <2>5, <2>6 DEF ReadToRelease
<1> QED BY <1>6, <1>7, <1>8 DEF ReadFiles

(* Each step inside an operation keeps what its thread has drafted. *)
LEMMA StepOwn ==
  ASSUME Inv, Store, NEW t \in Thread, Step(t)
  PROVE  \A u \in Thread : Own(u)'
<1> DEFINE SameFiles == UNCHANGED <<journal, queueFile, nextItem>>
           SameArgs  == UNCHANGED <<kind, target, drain, hold>>
<1>1. Drafts(t) /\ Emptied(t) /\ Entering(t) /\ Restored(t) /\ Taking(t)
  BY DEF Store, Own
<1>2. SameFiles => Queue' = Queue
  BY DEF Queue
<1>3. SameArgs => (Claims(t)' <=> Claims(t))
  BY DEF Claims
<1>4. ASSUME OthersRest(t), SameFiles, Own(t)' PROVE \A u \in Thread : Own(u)'
  BY <1>2, <1>4, OthersOwn
<1>5. CASE LoadRun(t)
  <2>1. /\ pc[t] = "loadrun" /\ pc'[t] = "flock" /\ OthersRest(t)
        /\ SameFiles /\ SameArgs /\ UNCHANGED <<event, items, claim>>
    BY <1>5 DEF LoadRun, OthersRest, Inv, TypeOK
  <2>2. Own(t)'
    BY <1>1, <1>2, <1>3, <2>1
       DEF Own, Drafts, Emptied, Entering, Taking, Restored, Marked, PreAppend, InQueue
  <2> QED BY <1>4, <2>1, <2>2
<1>6. CASE TakeFlock(t)
  <2>1. /\ pc[t] = "flock" /\ OthersRest(t)
        /\ SameFiles /\ SameArgs /\ UNCHANGED <<items, claim>>
        /\ \/ pc'[t] = "read" /\ event'[t] = event[t]
           \/ /\ pc'[t] = "load" /\ event'[t].type = "turn_finished"
              /\ kind[t] = "finish" /\ ~Claims(t)
    BY <1>6 DEF TakeFlock, Appending, OthersRest, Inv, TypeOK
  <2>2. Own(t)'
    BY <1>1, <1>2, <1>3, <2>1
       DEF Own, Drafts, Emptied, Entering, Taking, Restored, Marked, PreAppend, InQueue, Mark
  <2> QED BY <1>4, <2>1, <2>2
<1>7. CASE ReadFiles(t)
  <2>1. OthersRest(t) /\ SameFiles
    BY <1>7 DEF ReadFiles, ReadToQueue, ReadToClaim, ReadToRelease, AfterRelease, Appending,
                OthersRest, Inv, TypeOK
  <2> QED BY <1>4, <1>7, <2>1, ReadOwn
<1>8. CASE AppendLoad(t) \/ NextEventId(t)
  <2>1. /\ PreAppend(t) /\ OthersRest(t)
        /\ SameFiles /\ SameArgs /\ UNCHANGED <<event, items, claim>>
        /\ PreAppend(t)' \/ (kind[t] = "set" /\ pc'[t] = "stamp")
        /\ pc[t] \in {"load", "count"}
    BY <1>8 DEF AppendLoad, NextEventId, PreAppend, OthersRest, Inv, TypeOK
  <2>2. CASE PreAppend(t)'
    <3>1. Own(t)'
      BY <1>1, <1>2, <1>3, <2>1, <2>2
         DEF Own, Drafts, Emptied, Entering, Taking, Restored, Returning, Marked, PreAppend, InQueue,
             Oldest
    <3> QED BY <1>4, <2>1, <3>1
  <2>3. CASE kind[t] = "set" /\ pc'[t] = "stamp"
    <3>1. event[t].type \notin Mark
      BY <2>1, <2>3 DEF Inv, Discipline, Marks
    <3>2. Own(t)'
      BY <2>1, <2>3, <3>1
         DEF Own, Drafts, Emptied, Entering, Taking, Restored, Marked, PreAppend, InQueue, QueueKind
    <3> QED BY <1>4, <2>1, <3>2
  <2> QED BY <2>1, <2>2, <2>3
<1>9. CASE AppendLine(t)
  <2>1. /\ pc[t] = "append" /\ pc'[t] = "stamp" /\ OthersRest(t) /\ PreAppend(t)
        /\ SameArgs /\ UNCHANGED <<event, items, claim, nextItem>>
    BY <1>9 DEF AppendLine, OthersRest, PreAppend, Inv, TypeOK
  <2>2. claim[t] # NoItem => claim[t] \in Item
    BY DEF Inv, TypeOK
  <2>3. event[t].type \in Mark => kind[t] \in {"take", "finish", "release"} /\ claim[t] # NoItem
    BY <2>1 DEF Inv, Discipline, Marks
  <2>4. InQueue(t)' <=> InQueue(t)
    BY <2>1 DEF InQueue
  <2>5. Drafts(t)'
    BY <1>1, <1>9, <2>1, <2>3, LineEffect DEF Drafts, Marked, PreAppend, Mark
  <2>6. Emptied(t)'
    BY <1>1, <1>3, <1>9, <2>1, <2>3, <2>4, LineEffect DEF Emptied
  <2>7. Restored(t)'
    <3> SUFFICES ASSUME kind[t] = "release", InQueue(t), claim[t] # NoItem
                 PROVE  ~Started(journal', claim[t])
      BY <2>1, <2>4 DEF Restored
    <3>1. event[t].type # "queued_message_started"
      BY <2>1 DEF Inv, Discipline, Marks, Mark
    <3>2. ~Returning(t) => ~Started(journal, claim[t])
      BY <1>1, <2>1 DEF Restored
    <3>3. event[t].type \in Mark => event[t].type = "queued_message_returned"
      BY <3>1 DEF Mark
    <3> QED BY <1>9, <2>1, <2>2, <3>2, <3>3, LineEffect DEF Returning
  <2>8. Own(t)'
    BY <1>1, <1>3, <2>1, <2>5, <2>6, <2>7 DEF Own, Entering, Taking
  <2>9. \A u \in Thread : u # t => Own(u)'
    <3>1. event[t].type \in Mark => InQueue(t)
      BY <1>9, LineEffect
    <3>2. event[t].type \notin Mark =>
             /\ Queue' = Queue
             /\ \A n \in Item : Started(journal', n) <=> Started(journal, n)
      BY <1>9, LineEffect
    <3> QED BY <2>1, <3>1, <3>2, OthersOwn
  <2> QED BY <2>8, <2>9
<1>10. CASE StampMeta(t)
  <2>1. /\ pc[t] = "stamp" /\ OthersRest(t)
        /\ SameFiles /\ SameArgs /\ UNCHANGED <<items, claim>>
        /\ \/ pc'[t] = "snapshot" /\ event[t].type \in Mark /\ event'[t] = event[t]
           \/ pc'[t] = "return" /\ event'[t] = event[t]
           \/ /\ event[t].type \in {"turn_finished", "run_finished"}
              /\ \/ pc'[t] = "publish"
                 \/ pc'[t] = "load" /\ event'[t].type = "run_finished"
    BY <1>10 DEF StampMeta, Appending, OthersRest, Inv, TypeOK
  <2>2. Own(t)'
    BY <1>1, <1>2, <1>3, <2>1
       DEF Own, Drafts, Emptied, Entering, Taking, Restored, Returning, Marked, PreAppend, InQueue, Mark
  <2> QED BY <1>4, <2>1, <2>2
<1>11. CASE WriteQueue(t)
  <2>1. /\ pc[t] = "snapshot" /\ OthersRest(t) /\ SameArgs /\ UNCHANGED <<items, claim, journal>>
        /\ kind[t] \in {"queue", "take", "finish", "release"}
        /\ \/ pc'[t] = "return" /\ event'[t] = event[t]
           \/ /\ pc'[t] = "load" /\ kind[t] # "take"
              /\ event'[t].type \in {"turn_finished", "run_finished"}
    BY <1>11 DEF WriteQueue, AfterRelease, Appending, OthersRest, Inv, TypeOK
  <2>2. InQueue(t) /\ (kind[t] # "queue" => Queue' = Queue)
    BY <1>11, WriteEffect
  <2>3. Own(t)'
    BY <1>1, <1>3, <2>1, <2>2
       DEF Own, Drafts, Emptied, Entering, Taking, Restored, Returning, Marked, PreAppend, InQueue, Mark,
           Claims
  <2> QED BY <2>1, <2>2, <2>3, OthersOwn
<1>12. CASE Publish(t)
  <2>1. /\ pc[t] = "publish" /\ pc'[t] = "return" /\ OthersRest(t)
        /\ SameFiles /\ SameArgs /\ UNCHANGED <<event, items, claim>>
    BY <1>12 DEF Publish, OthersRest, Inv, TypeOK
  <2>2. Own(t)'
    BY <1>1, <1>2, <1>3, <2>1
       DEF Own, Drafts, Emptied, Entering, Taking, Restored, Returning, Marked, PreAppend, InQueue
  <2> QED BY <1>4, <2>1, <2>2
<1>13. CASE Return(t)
  BY <1>13, StopOwn DEF Return
<1> QED BY <1>5, <1>6, <1>7, <1>8, <1>9, <1>10, <1>11, <1>12, <1>13 DEF Step

(* What every thread is about to write stays right, whatever steps happen. *)
LEMMA OwnInductive == Inv /\ Store /\ [Next]_vars => \A u \in Thread : Own(u)'
<1> SUFFICES ASSUME Inv, Store, [Next]_vars PROVE \A u \in Thread : Own(u)'
  OBVIOUS
<1>1. ASSUME UNCHANGED <<journal, queueFile, nextItem, pc, kind, event, items, claim, target,
                         drain, hold>>
      PROVE  \A u \in Thread : Own(u)'
  <2>1. Queue' = Queue
    BY <1>1 DEF Queue
  <2> QED BY <1>1, <2>1, Bystander DEF Store
<1>2. ASSUME NEW t \in Thread, Request(t) PROVE \A u \in Thread : Own(u)'
  BY <1>2, RequestOwn
<1>3. ASSUME NEW t \in Thread, Step(t) PROVE \A u \in Thread : Own(u)'
  BY <1>3, StepOwn
<1>4. ASSUME NEW t \in Thread, Cancel(t) PROVE \A u \in Thread : Own(u)'
  BY <1>1, <1>4 DEF Cancel
<1>5. ASSUME NEW t \in Thread, FaultyWrite(t) PROVE \A u \in Thread : Own(u)'
  BY <1>5, StopOwn DEF FaultyWrite
<1>6. ASSUME NEW p \in Proc, Crash(p) PROVE \A u \in Thread : Own(u)'
  BY <1>6, StopOwn DEF Crash
<1>7. ASSUME NEW p \in Proc, NEW i \in work[p], Execute(p, i) PROVE \A u \in Thread : Own(u)'
  BY <1>1, <1>7 DEF Execute
<1>8. CASE UNCHANGED vars
  BY <1>1, <1>8 DEF vars
<1> QED BY <1>2, <1>3, <1>4, <1>5, <1>6, <1>7, <1>8 DEF Next

-----------------------------------------------------------------------------
(* Every number that appears anywhere stays below the next one. *)
LEMMA NumberedInductive == Inv /\ Store /\ [Next]_vars => Numbered'
<1> SUFFICES ASSUME Inv, Store, [Next]_vars PROVE Numbered'
  OBVIOUS
<1>1. /\ nextItem \in Nat /\ nextItem > 0 /\ NoItem = 0
      /\ \A i \in Queue : i \in Nat /\ i < nextItem
      /\ \A p \in Proc : \A i \in work[p] : i \in Nat /\ i < nextItem
  BY Accepted DEF Inv, TypeOK, Discipline, Ownership, Store, Item, NoItem
<1>2. /\ \A k \in DOMAIN journal : journal[k].item < nextItem
      /\ \A i \in queueFile : i < nextItem
      /\ \A t \in Thread : claim[t] < nextItem /\ event[t].item < nextItem
  BY DEF Store, Numbered
<1>3. NoEvent.item < nextItem
  BY <1>1 DEF NoEvent
<1>4. ASSUME UNCHANGED <<journal, queueFile, nextItem>>,
             \A t \in Thread : claim'[t] < nextItem /\ event'[t].item < nextItem
      PROVE  Numbered'
  BY <1>2, <1>4 DEF Numbered
<1>5. ASSUME NEW S \in SUBSET Thread, Stop(S) PROVE Numbered'
  BY <1>1, <1>2, <1>3, <1>4, <1>5 DEF Stop, Reset
<1>6. ASSUME NEW t \in Thread, NEW ty, NEW i, i < nextItem, Appending(t, ty, i)
      PROVE  \A u \in Thread : event'[u].item < nextItem
  BY <1>2, <1>6 DEF Appending, Inv, TypeOK
<1>7. ASSUME NEW t \in Thread, AfterRelease(t)
      PROVE  \A u \in Thread : event'[u].item < nextItem
  BY <1>1, <1>2, <1>6, <1>7 DEF AfterRelease
<1>8. ASSUME NEW t \in Thread, Request(t) PROVE Numbered'
  <2>1. /\ UNCHANGED <<journal, queueFile, nextItem, event>>
        /\ \/ UNCHANGED claim
           \/ \E i \in work[ProcOf[t]] \cup {NoItem} : claim' = [claim EXCEPT ![t] = i]
    BY <1>8 DEF Request, QueueMessage, TakeQueuedMessage, AppendEvent, ReleaseQueuedMessage,
                FinishTurn, SetRuntime, UpdateState, Begin
  <2>2. \A u \in Thread : claim'[u] < nextItem
    <3>1. ProcOf[t] \in Proc
      BY StoreAssumption
    <3>2. \A i \in work[ProcOf[t]] \cup {NoItem} : i < nextItem
      BY <1>1, <3>1
    <3>3. CASE UNCHANGED claim
      BY <1>2, <3>3
    <3>4. ASSUME NEW i \in work[ProcOf[t]] \cup {NoItem}, claim' = [claim EXCEPT ![t] = i]
          PROVE  \A u \in Thread : claim'[u] < nextItem
      BY <1>2, <3>2, <3>4 DEF Inv, TypeOK
    <3> QED BY <2>1, <3>3, <3>4
  <2> QED BY <1>2, <1>4, <2>1, <2>2
<1>9. ASSUME NEW t \in Thread, Step(t) PROVE Numbered'
  <2>1. CASE LoadRun(t) \/ AppendLoad(t) \/ NextEventId(t) \/ Publish(t)
    BY <1>2, <1>4, <2>1 DEF LoadRun, AppendLoad, NextEventId, Publish
  <2>2. CASE TakeFlock(t)
    <3>1. UNCHANGED event \/ Appending(t, "turn_finished", NoItem)
      BY <2>2 DEF TakeFlock
    <3> QED BY <1>1, <1>2, <1>4, <1>6, <2>2, <3>1 DEF TakeFlock
  <2>3. CASE ReadFiles(t)
    <3>1. \A u \in Thread : claim'[u] < nextItem
      BY <1>1, <1>2, <2>3 DEF ReadFiles, ReadToQueue, ReadToClaim, ReadToRelease, Inv, TypeOK
    <3>2. \/ UNCHANGED event \/ AfterRelease(t)
          \/ Appending(t, "turn_finished", NoItem)
          \/ \E ty \in EventType, i \in Queue \cup {claim[t]} : Appending(t, ty, i)
      BY <2>3 DEF ReadFiles, ReadToQueue, ReadToClaim, ReadToRelease, EventType
    <3>3. \A u \in Thread : event'[u].item < nextItem
      BY <1>1, <1>2, <1>6, <1>7, <3>2
    <3> QED BY <1>4, <2>3, <3>1, <3>3 DEF ReadFiles
  <2>4. CASE AppendLine(t)
    <3> DEFINE e == [id |-> eid[t], type |-> event[t].type, item |-> event[t].item]
    <3>1. /\ journal' = Append(journal, e) /\ e.item < nextItem
          /\ UNCHANGED <<queueFile, nextItem, claim, event>>
      BY <1>2, <2>4 DEF AppendLine
    <3>2. \A k \in DOMAIN journal' : journal'[k] = e \/ (k \in DOMAIN journal /\ journal'[k] = journal[k])
      BY <3>1 DEF Inv, TypeOK
    <3> QED BY <1>2, <3>1, <3>2 DEF Numbered
  <2>5. CASE StampMeta(t)
    <3>1. UNCHANGED event \/ Appending(t, "run_finished", NoItem)
      BY <2>5 DEF StampMeta
    <3> QED BY <1>1, <1>2, <1>4, <1>6, <2>5, <3>1 DEF StampMeta
  <2>6. CASE WriteQueue(t)
    <3>1. /\ UNCHANGED <<journal, claim>> /\ nextItem' \in {nextItem, nextItem + 1}
          /\ queueFile' = items[t]
      BY <2>6 DEF WriteQueue
    <3>2. \A u \in Thread : event'[u].item < nextItem
      <4>1. UNCHANGED event \/ Appending(t, "turn_finished", NoItem) \/ AfterRelease(t)
        BY <2>6 DEF WriteQueue
      <4> QED BY <1>1, <1>2, <1>6, <1>7, <4>1
    <3>3. \A i \in items[t] : i < nextItem'
      <4>1. Queue' = items[t]
        BY <2>6, WriteEffect
      <4>2. \/ Queue' = Queue \cup {nextItem} /\ nextItem' = nextItem + 1
            \/ Queue' = Queue
        BY <2>6, WriteEffect
      <4> QED BY <1>1, <3>1, <4>1, <4>2
    <3>4. \A n \in Int : n < nextItem => n < nextItem'
      BY <1>1, <3>1
    <3>5. /\ \A k \in DOMAIN journal : journal[k].item \in Int
          /\ \A u \in Thread : claim[u] \in Int /\ event'[u].item \in Int
      <4>1. \A k \in DOMAIN journal : journal[k] \in Line
        BY ElementOfSeq DEF Inv, TypeOK
      <4>2. TypeOK'
        BY TypeInductive DEF Inv
      <4> QED BY <4>1, <4>2 DEF Line, Inv, TypeOK, Item, NoItem, Event
    <3> QED BY <1>2, <3>1, <3>2, <3>3, <3>4, <3>5 DEF Numbered
  <2>7. CASE Return(t)
    BY <1>5, <2>7 DEF Return
  <2> QED BY <1>9, <2>1, <2>2, <2>3, <2>4, <2>5, <2>6, <2>7 DEF Step
<1>10. ASSUME NEW t \in Thread, FaultyWrite(t) PROVE Numbered'
  BY <1>5, <1>10 DEF FaultyWrite
<1>11. ASSUME NEW p \in Proc, Crash(p) PROVE Numbered'
  BY <1>5, <1>11 DEF Crash
<1>12. CASE UNCHANGED <<journal, queueFile, nextItem, claim, event>>
  BY <1>2, <1>4, <1>12
<1> QED BY <1>8, <1>9, <1>10, <1>11, <1>12 DEF Next, Cancel, Execute, vars

-----------------------------------------------------------------------------
(* What a step may do to the queue: a step of FollowupQueue, in which       *)
(* nothing is marked without an owner and nothing goes without a mark.      *)
Moves ==
  /\ F!Next \/ UNCHANGED F!vars
  /\ \A i \in Item : Started(journal', i) => Started(journal, i) \/ i \in Owned'
  /\ \A i \in Item : i \in Queue \/ Started(journal, i) => i \in Queue' \/ Started(journal', i)
  /\ nextItem' = nextItem \/ (nextItem' = nextItem + 1 /\ nextItem \in Queue')

(* Nobody's follow-up gets lost. *)
Retains == Owned \subseteq Owned' \cup Queue' \cup executed' /\ executed \subseteq executed'

(* The same of the next state. *)
LEMMA OwnedNext ==
  \A i : i \in Owned' <=>
     \/ \E p \in Proc : i \in work'[p]
     \/ \E t \in Thread : claim'[t] = i /\ i # NoItem /\ Started(journal', i)
<1>1. (\A i : i \in Owned <=>
         \/ \E p \in Proc : i \in work[p]
         \/ \E t \in Thread : claim[t] = i /\ i # NoItem /\ Started(journal, i))'
  BY OwnedIs, PTL
<1> QED BY <1>1

(* Away from the files, follow-ups can only be given up. *)
LEMMA GivesUp ==
  ASSUME UNCHANGED <<journal, queueFile, nextItem, executed>>, Owned' \subseteq Owned
  PROVE  Moves
<1>1. Queue' = Queue
  BY DEF Queue
<1>2. F!Abandon
  <2>1. Owned' = Owned \ (Owned \ Owned') /\ Owned \ Owned' \in SUBSET Owned
    OBVIOUS
  <2>2. \E S \in SUBSET Owned : Owned' = Owned \ S
    BY <2>1
  <2> QED BY <1>1, <2>2 DEF F!Abandon
<1> QED BY <1>1, <1>2 DEF Moves, F!Next

(* Owners that neither marks nor claims nor clients' hands change. *)
LEMMA OwnedSame ==
  ASSUME UNCHANGED <<journal, claim, work, executed>>
  PROVE  Owned' = Owned /\ Retains
<1>1. Owned' = Owned
  BY OwnedIs DEF Owned, InFlight
<1> QED BY <1>1 DEF Retains

(* A thread that stops gives up what it owned; nobody gains. *)
LEMMA StopOwned ==
  ASSUME NEW S \in SUBSET Thread, Stop(S),
         \A p \in Proc : \A i \in work'[p] : i \in Owned
  PROVE  Owned' \subseteq Owned
<1>1. /\ \A t \in Thread : claim'[t] \in {claim[t], NoItem}
      /\ UNCHANGED journal
  BY DEF Stop, Reset
<1> QED BY <1>1, OwnedIs, OwnedNext

(* Requests pass a follow-up from a client's hands to a thread at most. *)
LEMMA RequestMoves ==
  ASSUME Inv, Store, NEW t \in Thread, Request(t)
  PROVE  Moves /\ Retains
<1>1. UNCHANGED <<journal, queueFile, nextItem, executed>>
  BY DEF Request, QueueMessage, TakeQueuedMessage, AppendEvent, ReleaseQueuedMessage,
         FinishTurn, SetRuntime, UpdateState, Begin
<1>2. CASE UNCHANGED <<claim, work>>
  BY <1>1, <1>2, OwnedSame, GivesUp
<1>3. ASSUME NEW i \in work[ProcOf[t]] \cup {NoItem}, NEW c \in BOOLEAN,
             ReleaseQueuedMessage(t, i, c)
      PROVE  Moves /\ Retains
  <2>1. /\ claim[t] = NoItem /\ claim'[t] = i
        /\ \A u \in Thread : u # t => claim'[u] = claim[u]
    BY <1>3 DEF ReleaseQueuedMessage, Begin, Inv, Discipline, Idle, TypeOK
  <2>2. /\ ProcOf[t] \in Proc /\ work'[ProcOf[t]] = work[ProcOf[t]] \ {i}
        /\ \A p \in Proc : p # ProcOf[t] => work'[p] = work[p]
    BY <1>3, StoreAssumption DEF ReleaseQueuedMessage, Inv, TypeOK
  <2>3. i # NoItem => Started(journal, i) /\ i \in work[ProcOf[t]]
    BY <2>2 DEF Inv, Discipline, Ownership
  <2>4. \A n : n \in Owned' => n \in Owned
    BY <1>1, <2>1, <2>2, <2>3, OwnedIs, OwnedNext
  <2>5. \A p \in Proc : NoItem \notin work[p]
    BY DEF Inv, TypeOK, Item, NoItem
  <2>6. \A n : n \in Owned => n \in Owned'
    <3> SUFFICES ASSUME NEW n, n \in Owned PROVE n \in Owned'
      OBVIOUS
    <3>1. CASE \E p \in Proc : n \in work[p]
      BY <1>1, <2>1, <2>2, <2>3, <2>5, <3>1, OwnedNext
    <3>2. CASE \E u \in Thread : claim[u] = n /\ n # NoItem /\ Started(journal, n)
      BY <1>1, <2>1, <3>2, OwnedNext
    <3> QED BY <3>1, <3>2, OwnedIs
  <2> QED BY <1>1, <2>4, <2>6, GivesUp DEF Retains
<1> QED BY <1>2, <1>3
     DEF Request, QueueMessage, TakeQueuedMessage, AppendEvent, FinishTurn, SetRuntime,
         UpdateState, Begin

(* A line moves at most the follow-up it names. *)
LEMMA LineMoves ==
  ASSUME Inv, Store, NEW t \in Thread, AppendLine(t)
  PROVE  Moves /\ Retains
<1> DEFINE i == claim[t]
<1>1. UNCHANGED <<queueFile, nextItem, claim, work, executed>> /\ PreAppend(t)
  BY DEF AppendLine, PreAppend
<1>2. /\ \A u \in Thread : claim[u] # NoItem => claim[u] \in Item
      /\ NoItem \notin Item
  BY DEF Inv, TypeOK, Item, NoItem
<1>3. CASE event[t].type \notin Mark
  <2>1. /\ Queue' = Queue
        /\ \A n \in Item : Started(journal', n) <=> Started(journal, n)
    BY <1>3, LineEffect
  <2>2. \A n : n \in Owned' <=> n \in Owned
    BY <1>1, <1>2, <2>1, OwnedIs, OwnedNext
  <2>3. UNCHANGED F!vars
    BY <1>1, <2>1, <2>2 DEF F!vars
  <2> QED BY <1>1, <2>1, <2>2, <2>3 DEF Moves, Retains
<1>4. CASE event[t].type = "queued_message_started"
  <2>1. /\ Queue' = Queue \ {i} /\ i \in Item
        /\ \A n \in Item : Started(journal', n) <=> n = i \/ Started(journal, n)
    BY <1>4, LineEffect DEF Mark
  <2>2. i \in Queue /\ Oldest(i, Queue)
    BY <1>1, <1>4 DEF Store, Own, Drafts
  <2>3. \A p \in Proc : work[p] \subseteq Item
    BY DEF Inv, TypeOK
  <2>4. \A n : n \in Owned' <=> n \in Owned \/ n = i
    BY <1>1, <1>2, <2>1, OwnedIs, OwnedNext
  <2>5. F!Claim
    BY <1>1, <2>1, <2>2, <2>4 DEF F!Claim, Oldest
  <2> QED BY <1>1, <2>1, <2>4, <2>5 DEF Moves, Retains, F!Next
<1>5. CASE event[t].type = "queued_message_returned"
  <2>1. /\ Queue' = Queue \cup {i} /\ i \in Item /\ Started(journal, i)
        /\ \A n \in Item : Started(journal', n) <=> n # i /\ Started(journal, n)
    BY <1>5, LineEffect DEF Mark
  <2>2. Owns(t)
    BY <1>2, <2>1 DEF Owns
  <2>3. /\ \A p \in Proc : i \notin work[p]
        /\ i \in Owned
    BY <2>2, OwnedIs DEF Inv, Discipline, Ownership, Owns
  <2>4. \A n : n \in Owned' <=> n \in Owned /\ n # i
    BY <1>1, <1>2, <2>1, <2>3, OwnedIs, OwnedNext
  <2>5. F!Return
    BY <1>1, <2>1, <2>3, <2>4 DEF F!Return
  <2> QED BY <1>1, <2>1, <2>4, <2>5 DEF Moves, Retains, F!Next
<1> QED BY <1>3, <1>4, <1>5 DEF Mark

(* Writing queue.json accepts a follow-up, or changes nothing. *)
LEMMA WriteMoves ==
  ASSUME Inv, Store, NEW t \in Thread, WriteQueue(t)
  PROVE  Moves /\ Retains
<1>1. UNCHANGED <<journal, claim, work, executed>>
  BY DEF WriteQueue
<1>2. Owned' = Owned /\ Retains
  BY <1>1, OwnedSame
<1>3. nextItem \in Int
  BY DEF Inv, TypeOK, Item
<1>4. CASE kind[t] = "queue"
  <2>1. /\ Queue' = Queue \cup {nextItem} /\ nextItem' = nextItem + 1
        /\ Cardinality(Queue) < QueueLimit
    BY <1>4, WriteEffect
  <2>2. nextItem' - 1 = (nextItem - 1) + 1 /\ nextItem' - 1 = nextItem
    BY <1>3, <2>1
  <2>3. F!Enqueue
    BY <1>1, <1>2, <2>1, <2>2 DEF F!Enqueue, F!Cardinality, Cardinality
  <2> QED BY <1>1, <1>2, <2>1, <2>3 DEF Moves, F!Next
<1>5. CASE kind[t] # "queue"
  <2>1. Queue' = Queue /\ nextItem' = nextItem
    BY <1>5, WriteEffect
  <2>2. UNCHANGED F!vars
    BY <1>1, <1>2, <2>1 DEF F!vars
  <2> QED BY <1>1, <1>2, <2>1, <2>2 DEF Moves
<1> QED BY <1>4, <1>5

(* A claim that returns undisturbed reaches its client. *)
LEMMA ReturnMoves ==
  ASSUME Inv, Store, NEW t \in Thread, Return(t)
  PROVE  Moves /\ (Unspoiled' => Retains)
<1>1. /\ Stop({t}) /\ {t} \in SUBSET Thread /\ pc[t] = "return" /\ UNCHANGED budget
      /\ UNCHANGED <<journal, queueFile, nextItem, executed>>
  BY DEF Return, Stop
<1>2. /\ claim'[t] = NoItem /\ \A u \in Thread : u # t => claim'[u] = claim[u]
  BY <1>1 DEF Stop, Reset
<1>3. /\ ProcOf[t] \in Proc
      /\ \A p \in Proc : work'[p] =
           IF p = ProcOf[t] /\ Claims(t) /\ claim[t] # NoItem /\ ~detached[t]
           THEN work[p] \cup {claim[t]} ELSE work[p]
  BY StoreAssumption DEF Return, Inv, TypeOK
<1>4. Claims(t) /\ claim[t] # NoItem => Started(journal, claim[t])
  BY <1>1 DEF Inv, Discipline, Claiming, PreAppend, Claims
<1>5. \A p \in Proc : \A i \in work'[p] : i \in Owned
  BY ZenonT(60), <1>3, <1>4, OwnedIs
<1>6. Moves
  BY <1>1, <1>5, StopOwned, GivesUp
<1>7. ASSUME Unspoiled' PROVE Retains
  <2>1. ~detached[t]
    BY <1>1, <1>7 DEF Store, Kept, Unspoiled
  <2>2. claim[t] # NoItem /\ Started(journal, claim[t]) => Claims(t)
    <3>1. Entering(t) /\ Restored(t)
      BY DEF Store, Own
    <3> QED BY <1>1, <3>1
         DEF Entering, Taking, Restored, Returning, PreAppend, InQueue, QueueKind, Claims, Inv,
             Discipline, Claiming
  <2>3. \A i : i \in Owned => i \in Owned'
    <3> SUFFICES ASSUME NEW i, i \in Owned PROVE i \in Owned'
      OBVIOUS
    <3>1. CASE \E p \in Proc : i \in work[p]
      BY <1>3, <3>1, OwnedNext
    <3>2. CASE \E u \in Thread : claim[u] = i /\ i # NoItem /\ Started(journal, i)
      BY <1>1, <1>2, <1>3, <2>1, <2>2, <3>2, OwnedNext
    <3> QED BY <3>1, <3>2, OwnedIs
  <2> QED BY <1>1, <2>3 DEF Retains
<1> QED BY <1>6, <1>7

(* Spending only lowers what is left, and leaves less than the bound. *)
LEMMA SpendDown ==
  ASSUME Inv, Store, NEW k \in Hazard, Spend(k)
  PROVE  /\ Bounded'
         /\ budget'[k] # Bound[k] /\ \A h \in Hazard : h # k => budget'[h] = budget[h]
<1>1. \A h \in Hazard : budget[h] \in Nat /\ Bound[h] \in Nat /\ budget[h] <= Bound[h]
  BY StoreAssumption DEF Inv, TypeOK, Store, Bounded, Bound, Hazard
<1>2. /\ budget'[k] = budget[k] - 1
      /\ \A h \in Hazard : h # k => budget'[h] = budget[h]
  BY DEF Spend, Inv, TypeOK
<1>3. Bound' = Bound
  BY DEF Bound
<1> QED BY <1>1, <1>2, <1>3 DEF Bounded

(* What each step does to the queue, and that it loses nobody's follow-up   *)
(* as long as nothing crashes, fails or is cancelled.                       *)
LEMMA NextMoves ==
  ASSUME Inv, Store, [Next]_vars
  PROVE  /\ Moves /\ Bounded'
         /\ Unspoiled' => /\ Retains /\ Unspoiled
                          /\ \A t \in Thread : detached'[t] \in {detached[t], FALSE}
<1> DEFINE Goal == /\ Moves /\ Bounded'
                   /\ Unspoiled' => /\ Retains /\ Unspoiled
                                    /\ \A t \in Thread : detached'[t] \in {detached[t], FALSE}
<1>1. ASSUME UNCHANGED budget PROVE Bounded' /\ (Unspoiled' => Unspoiled)
  <2>1. Bound' = Bound
    BY DEF Bound
  <2> QED BY <1>1, <2>1 DEF Store, Bounded, Unspoiled
<1>2. ASSUME NEW k \in {"crash", "fault", "cancel"}, Spend(k)
      PROVE  Bounded' /\ ~Unspoiled'
  <2>1. Bound' = Bound
    BY DEF Bound
  <2> QED BY <1>2, <2>1, SpendDown DEF Unspoiled, Hazard
<1>3. ASSUME Spend("append") PROVE Bounded' /\ (Unspoiled' => Unspoiled)
  <2>1. Bound' = Bound
    BY DEF Bound
  <2> QED BY <1>3, <2>1, SpendDown DEF Unspoiled, Hazard
<1>4. ASSUME NEW t \in Thread, Request(t) PROVE Goal
  <2>1. UNCHANGED budget \/ Spend("append")
    BY <1>4 DEF Request, QueueMessage, TakeQueuedMessage, AppendEvent, ReleaseQueuedMessage,
                FinishTurn, SetRuntime, UpdateState
  <2>2. UNCHANGED detached
    BY <1>4 DEF Request, QueueMessage, TakeQueuedMessage, AppendEvent, ReleaseQueuedMessage,
                FinishTurn, SetRuntime, UpdateState, Begin
  <2> QED BY <1>1, <1>3, <1>4, <2>1, <2>2, RequestMoves
<1>5. ASSUME NEW t \in Thread, Step(t) PROVE Goal
  <2>1. CASE AppendLine(t)
    BY <1>1, <2>1, LineMoves DEF AppendLine
  <2>2. CASE WriteQueue(t)
    BY <1>1, <2>2, WriteMoves DEF WriteQueue
  <2>3. CASE Return(t)
    <3>1. UNCHANGED budget /\ \A u \in Thread : detached'[u] \in {detached[u], FALSE}
      BY <2>3 DEF Return, Stop, Reset
    <3> QED BY <1>1, <2>3, <3>1, ReturnMoves
  <2>4. ASSUME UNCHANGED <<journal, queueFile, nextItem, claim, work, executed, budget, detached>>
        PROVE  Goal
    BY <1>1, <2>4, OwnedSame, GivesUp
  <2>5. CASE ReadFiles(t)
    <3>1. UNCHANGED <<journal, queueFile, nextItem, work, executed, budget, detached>>
      BY <2>5 DEF ReadFiles
    <3>2. CASE UNCHANGED claim
      BY <2>4, <3>1, <3>2
    <3>3. ASSUME NEW i \in Queue, ReadToClaim(t), claim' = [claim EXCEPT ![t] = i]
          PROVE  Goal
      <4>1. claim[t] = NoItem
        BY <2>5, <3>3 DEF ReadFiles, ReadToClaim, Claims, Store, Own, Entering
      <4>2. ~Started(journal, i)
        BY QueueNotStarted DEF Inv
      <4>3. claim'[t] = i /\ \A u \in Thread : u # t => claim'[u] = claim[u]
        BY <3>3 DEF Inv, TypeOK
      <4>4. \A n : n \in Owned' <=> n \in Owned
        BY <3>1, <4>1, <4>2, <4>3, OwnedIs, OwnedNext
      <4> QED BY <1>1, <3>1, <4>4, GivesUp DEF Retains
    <3> QED BY <2>5, <3>2, <3>3 DEF ReadFiles, ReadToQueue, ReadToClaim, ReadToRelease
  <2> QED BY <1>5, <2>1, <2>2, <2>3, <2>4, <2>5
       DEF Step, LoadRun, TakeFlock, AppendLoad, NextEventId, StampMeta, Publish
<1>6. ASSUME NEW S \in SUBSET Thread, Stop(S), NEW k \in {"crash", "fault", "cancel"}, Spend(k),
             \A p \in Proc : work'[p] \subseteq work[p]
      PROVE  Goal
  <2>1. UNCHANGED <<journal, queueFile, nextItem, executed>>
    BY <1>6 DEF Stop
  <2>2. \A p \in Proc : \A i \in work'[p] : i \in Owned
    BY <1>6, OwnedIs
  <2> QED BY <1>2, <1>6, <2>1, <2>2, StopOwned, GivesUp
<1>7. ASSUME NEW t \in Thread, FaultyWrite(t) PROVE Goal
  BY <1>6, <1>7 DEF FaultyWrite
<1>8. ASSUME NEW p \in Proc, Crash(p) PROVE Goal
  <2>1. \A q \in Proc : work'[q] \subseteq work[q]
    BY <1>8 DEF Crash, Inv, TypeOK
  <2> QED BY <1>6, <1>8, <2>1 DEF Crash
<1>9. ASSUME NEW t \in Thread, Cancel(t) PROVE Goal
  <2>1. UNCHANGED <<journal, queueFile, nextItem, claim, work, executed>> /\ Spend("cancel")
    BY <1>9 DEF Cancel
  <2>2. Moves
    BY <2>1, OwnedSame, GivesUp
  <2> QED BY <1>2, <2>1, <2>2
<1>10. ASSUME NEW p \in Proc, NEW i \in work[p], Execute(p, i) PROVE Goal
  <2>1. /\ UNCHANGED <<journal, queueFile, nextItem, claim, budget, detached>>
        /\ executed' = executed \cup {i} /\ work'[p] = work[p] \ {i}
        /\ \A q \in Proc : q # p => work'[q] = work[q]
    BY <1>10 DEF Execute, Inv, TypeOK
  <2>2. /\ \A q \in Proc : q # p => i \notin work[q]
        /\ \A u \in Thread : claim[u] = i /\ i # NoItem => ~Started(journal, i)
        /\ i \in Owned
    BY OwnedIs DEF Inv, Discipline, Ownership, Owns
  <2>3. \A n : n \in Owned' <=> n \in Owned /\ n # i
    BY <2>1, <2>2, OwnedIs, OwnedNext
  <2>4. Queue' = Queue
    BY <2>1 DEF Queue
  <2>5. F!Execute
    BY <2>1, <2>2, <2>3, <2>4 DEF F!Execute
  <2> QED BY <1>1, <2>1, <2>3, <2>4, <2>5 DEF Moves, Retains, F!Next
<1>11. CASE UNCHANGED vars
  <2>1. UNCHANGED <<journal, queueFile, nextItem, claim, work, executed, budget, detached>>
    BY <1>11 DEF vars
  <2> QED BY <1>1, <2>1, OwnedSame, GivesUp
<1> QED BY <1>4, <1>5, <1>7, <1>8, <1>9, <1>10, <1>11 DEF Next

-----------------------------------------------------------------------------
(* What is offered is not started, in the next state as in this one. *)
Offered == \A n \in Queue : ~Started(journal, n)

(* The lemma of RunStoreProofs, of the next state. *)
LEMMA OfferedNext == TypeOK' => Offered'
<1>1. TypeOK => Offered
  BY QueueNotStarted DEF Offered
<1> QED BY <1>1, PTL

(* The whole invariant survives every step. *)
LEMMA StoreInductive == Inv /\ Store /\ [Next]_vars => Store'
<1> SUFFICES ASSUME Inv, Store, [Next]_vars PROVE Store'
  OBVIOUS
<1>1. Numbered' /\ (\A u \in Thread : Own(u)')
  BY NumberedInductive, OwnInductive
<1>2. /\ Moves /\ Bounded'
      /\ Unspoiled' => /\ Retains /\ Unspoiled
                       /\ \A t \in Thread : detached'[t] \in {detached[t], FALSE}
  BY NextMoves
<1>3. Inv'
  BY Inductive
<1>4. NoSilentLoss'
  <2> SUFFICES ASSUME NEW i \in 1 .. (nextItem' - 1)
               PROVE  i \in Queue' \/ Started(journal', i)
    BY DEF NoSilentLoss
  <2>1. i \in Item /\ nextItem \in Int /\ (i \in 1 .. (nextItem - 1) \/ i = nextItem)
    BY <1>2 DEF Moves, Inv, TypeOK, Item
  <2>2. CASE i \in 1 .. (nextItem - 1)
    BY <1>2, <2>1, <2>2 DEF Moves, Store, NoSilentLoss
  <2>3. CASE i \notin 1 .. (nextItem - 1)
    <3>1. nextItem' # nextItem /\ i = nextItem
      BY <2>1, <2>3
    <3> QED BY <1>2, <3>1 DEF Moves
  <2> QED BY <2>2, <2>3
<1>5. Kept'
  <2> SUFFICES ASSUME Unspoiled'
               PROVE  /\ \A t \in Thread : ~detached'[t]
                      /\ \A i \in Item : Started(journal', i) => i \in Owned' \cup executed'
    BY DEF Kept
  <2>1. /\ \A t \in Thread : ~detached[t]
        /\ \A i \in Item : Started(journal, i) => i \in Owned \cup executed
    BY <1>2 DEF Store, Kept
  <2>2. \A t \in Thread : ~detached'[t]
    BY <1>2, <2>1
  <2>3. ASSUME NEW i \in Item, Started(journal', i) PROVE i \in Owned' \cup executed'
    <3>1. \A n \in Queue' : ~Started(journal', n)
      BY <1>3, OfferedNext DEF Inv, Offered
    <3>2. i \notin Queue'
      BY <2>3, <3>1
    <3>3. Started(journal, i) \/ i \in Owned'
      BY <1>2, <2>3 DEF Moves
    <3> QED BY <1>2, <2>1, <3>2, <3>3 DEF Retains
  <2> QED BY <2>2, <2>3
<1> QED BY <1>1, <1>2, <1>4, <1>5 DEF Store

(* The empty run directory. *)
LEMMA StoreInit == Init => Inv /\ Store
<1> SUFFICES ASSUME Init PROVE Inv /\ Store
  OBVIOUS
<1>1. TypeOK
  BY TypeInit
<1>2. Discipline
  BY DEF Init, Discipline, Exclusive, Marks, Claiming, Idle, InQueue, PreAppend, Ownership, Owns
<1>3. /\ Numbered /\ NoSilentLoss
      /\ \A t \in Thread : Own(t)
  BY DEF Init, Numbered, NoSilentLoss, Own, Drafts, Emptied, Entering, Taking, Restored, PreAppend,
         Marked, InQueue, NoEvent, NoItem
<1>4. Bounded
  BY StoreAssumption DEF Init, Bounded, Bound, Hazard
<1>5. Kept
  BY DEF Init, Kept, Started, LastMark
<1> QED BY <1>1, <1>2, <1>3, <1>4, <1>5 DEF Inv, Store

(* It holds in every reachable state. *)
LEMMA StoreHolds == Spec => [](Inv /\ Store)
BY StoreInit, Inductive, StoreInductive, PTL DEF Spec

(* A follow-up that was accepted is offered, or the journal says that it    *)
(* was started: whatever crashes, fails or is cancelled between the two     *)
(* files, none vanishes without trace.                                      *)
THEOREM NothingVanishes == Spec => []NoSilentLoss
BY StoreHolds, PTL DEF Store

(* finish_turn publishes "done" over an empty queue only: between its look  *)
(* at the queue and the completion of the run no follow-up slips in.        *)
THEOREM CompletionMissesNone == Spec => []NoMissedFollowup
<1>1. Inv /\ Store => NoMissedFollowup
  <2> SUFFICES ASSUME Inv, Store, NEW t \in Thread,
                      pc[t] = "publish", Claims(t), FinalState(t) = "done"
               PROVE  Queue = {}
    BY DEF NoMissedFollowup
  <2>1. Emptied(t) /\ Taking(t)
    BY DEF Store, Own
  <2> QED BY <2>1 DEF Emptied, Taking, InQueue, QueueKind, Claims, FinalState
<1> QED BY <1>1, StoreHolds, PTL

(* Undisturbed, every accepted follow-up is queued, in somebody's hands or  *)
(* was run, however the operations of several processes interleave.         *)
THEOREM UndisturbedLosesNothing == Spec => []NothingLost
<1>1. Inv /\ Store => NothingLost
  <2> SUFFICES ASSUME Inv, Store, Unspoiled, NEW i \in 1 .. (nextItem - 1)
               PROVE  i \in Queue \cup Owned \cup executed
    BY DEF NothingLost, Unspoiled
  <2>1. i \in Item
    BY DEF Inv, TypeOK, Item
  <2> QED BY <2>1 DEF Store, NoSilentLoss, Kept
<1> QED BY <1>1, StoreHolds, PTL

(* The two files, their lock and the threads that work on them implement    *)
(* the queue of FollowupQueue: claims oldest first, run or returned or      *)
(* given up, and never over the limit.                                      *)
THEOREM ImplementsQueue == Spec => FollowupQueueSpec
<1>1. Init => F!Init
  <2> SUFFICES ASSUME Init PROVE F!Init
    OBVIOUS
  <2>1. Queue = {}
    BY DEF Init, Queue, ReadQueue, Returned, LastMark
  <2>2. \A i : i \notin Owned
    BY OwnedIs DEF Init
  <2> QED BY <2>1, <2>2 DEF Init, F!Init
<1>2. Inv /\ Store /\ [Next]_vars => [F!Next]_(F!vars)
  BY NextMoves DEF Moves
<1> QED BY <1>1, <1>2, StoreHolds, PTL DEF Spec, FollowupQueueSpec, F!Spec

-----------------------------------------------------------------------------
(* One process, no cancelled coroutine: its lock admits one thread at a      *)
(* time, which finds the files as it left them.                             *)
Serial(t) ==
  /\ pc[t] # "idle" => lock[ProcOf[t]] = t
  /\ pc[t] \in {"count", "append", "stamp"} => seen[t] = meta
  /\ pc[t] = "append" => eid[t] = Len(journal) + 1

Serialised ==
  /\ budget["cancel"] = 0
  /\ \A t \in Thread : Serial(t)
  /\ PublishedStateStands /\ EventIdsNumberLines

(* Every step keeps this: the thread that moves is the only one inside.     *)
LEMMA SerialInductive ==
  ASSUME NEW p, Proc = {p}, TypeOK, Serialised, [Next]_vars
  PROVE  Serialised'
<1>1. /\ \A t \in Thread : ProcOf[t] = p
      /\ NoThread \notin Thread
  BY StoreAssumption
<1>2. /\ PublishedStateStands /\ EventIdsNumberLines /\ budget["cancel"] = 0
      /\ \A t \in Thread : Serial(t)
  BY DEF Serialised
<1>3. \A t, u \in Thread : pc[t] # "idle" /\ pc[u] # "idle" => t = u
  BY <1>1, <1>2 DEF Serial
<1>4. \A k \in Hazard : k # "cancel" /\ Spend(k) => budget'["cancel"] = 0
  BY <1>2 DEF Spend, TypeOK, Hazard
<1>5. ASSUME NEW t \in Thread, pc[t] # "idle", UNCHANGED <<lock, budget>>,
             \A u \in Thread : u # t => pc'[u] = pc[u],
             Serial(t)', PublishedStateStands', EventIdsNumberLines'
      PROVE  Serialised'
  <2>1. \A u \in Thread : u # t => pc'[u] = "idle"
    BY <1>3, <1>5
  <2> QED BY <1>2, <1>5, <2>1 DEF Serialised, Serial
<1>6. ASSUME UNCHANGED <<meta, published, journal>>
      PROVE  PublishedStateStands' /\ EventIdsNumberLines'
  BY <1>2, <1>6 DEF PublishedStateStands, EventIdsNumberLines
<1>7. ASSUME NEW S \in SUBSET Thread, Stop(S), budget'["cancel"] = 0 PROVE Serialised'
  <2>1. UNCHANGED <<meta, published, journal>>
    BY <1>7 DEF Stop
  <2>2. ASSUME NEW u \in Thread PROVE Serial(u)'
    <3>1. CASE u \in S
      BY <1>7, <3>1 DEF Stop, Reset, Serial
    <3>2. CASE u \notin S
      <4>1. pc'[u] = pc[u] /\ seen'[u] = seen[u] /\ eid'[u] = eid[u]
        BY <1>7, <3>2 DEF Stop, Reset
      <4>2. pc[u] # "idle" => lock'[ProcOf[u]] = u
        BY <1>1, <1>2, <1>7, <3>2 DEF Stop, Serial
      <4> QED BY <1>2, <2>1, <4>1, <4>2 DEF Serial
    <3> QED BY <3>1, <3>2
  <2> QED BY <1>6, <1>7, <2>1, <2>2 DEF Serialised
<1>8. ASSUME NEW t \in Thread, Request(t) PROVE Serialised'
  <2>1. /\ pc[t] = "idle" /\ lock[ProcOf[t]] = NoThread
        /\ lock' = [lock EXCEPT ![ProcOf[t]] = t]
        /\ pc'[t] \in {"flock", "loadrun", "load", "publish"}
        /\ \A u \in Thread : u # t => pc'[u] = pc[u]
        /\ UNCHANGED <<meta, published, journal, seen, eid>>
        /\ UNCHANGED budget \/ Spend("append")
    BY ZenonT(60), <1>8 DEF Request, QueueMessage, TakeQueuedMessage, AppendEvent, ReleaseQueuedMessage,
                FinishTurn, SetRuntime, UpdateState, Begin, TypeOK
  <2>2. \A u \in Thread : u # t => pc'[u] = "idle"
    BY <1>1, <1>2, <2>1 DEF Serial
  <2>3. lock'[ProcOf[t]] = t
    BY <1>1, <2>1 DEF TypeOK
  <2>4. budget'["cancel"] = 0
    BY <1>2, <1>4, <2>1 DEF Hazard
  <2> QED BY <1>6, <2>1, <2>2, <2>3, <2>4 DEF Serialised, Serial
<1>9. ASSUME NEW t \in Thread, Step(t) PROVE Serialised'
  <2>1. CASE LoadRun(t) \/ TakeFlock(t) \/ ReadFiles(t) \/ WriteQueue(t)
    <3>1. /\ pc[t] # "idle" /\ UNCHANGED <<lock, budget, meta, published, journal>>
          /\ \A u \in Thread : u # t => pc'[u] = pc[u]
          /\ pc'[t] \notin {"count", "append", "stamp"}
      BY <2>1 DEF LoadRun, TakeFlock, ReadFiles, WriteQueue, ReadToQueue, ReadToClaim,
                  ReadToRelease, AfterRelease, Appending, TypeOK
    <3> QED BY <1>2, <1>5, <1>6, <3>1 DEF Serial
  <2>2. CASE AppendLoad(t)
    <3>1. /\ pc[t] # "idle" /\ UNCHANGED <<lock, budget, meta, published, journal>>
          /\ \A u \in Thread : u # t => pc'[u] = pc[u]
          /\ pc'[t] \in {"count", "stamp"} /\ seen'[t] = meta
      BY <2>2 DEF AppendLoad, TypeOK
    <3> QED BY <1>2, <1>5, <1>6, <3>1 DEF Serial
  <2>3. CASE NextEventId(t)
    <3>1. /\ pc[t] = "count" /\ UNCHANGED <<lock, budget, meta, published, journal, seen>>
          /\ \A u \in Thread : u # t => pc'[u] = pc[u]
          /\ pc'[t] = "append" /\ eid'[t] = Len(journal) + 1
      BY <2>3 DEF NextEventId, TypeOK
    <3> QED BY <1>2, <1>5, <1>6, <3>1 DEF Serial
  <2>4. CASE AppendLine(t)
    <3> DEFINE e == [id |-> eid[t], type |-> event[t].type, item |-> event[t].item]
    <3>1. /\ pc[t] = "append" /\ UNCHANGED <<lock, budget, meta, published, seen>>
          /\ \A u \in Thread : u # t => pc'[u] = pc[u]
          /\ pc'[t] = "stamp" /\ journal' = Append(journal, e)
      BY <2>4 DEF AppendLine, TypeOK
    <3>2. e.id = Len(journal) + 1
      BY <1>2, <3>1 DEF Serial
    <3>3. EventIdsNumberLines'
      <4>1. /\ DOMAIN journal' = 1 .. (Len(journal) + 1)
            /\ journal'[Len(journal) + 1] = e
            /\ \A k \in DOMAIN journal : journal'[k] = journal[k]
            /\ DOMAIN journal = 1 .. Len(journal) /\ Len(journal) \in Nat
        BY <3>1 DEF TypeOK
      <4> QED BY <1>2, <3>2, <4>1 DEF EventIdsNumberLines
    <3>4. PublishedStateStands'
      BY <1>2, <3>1 DEF PublishedStateStands
    <3> QED BY <1>2, <1>5, <3>1, <3>3, <3>4 DEF Serial
  <2>5. CASE StampMeta(t)
    <3>1. /\ pc[t] = "stamp" /\ UNCHANGED <<lock, budget, published, journal>>
          /\ \A u \in Thread : u # t => pc'[u] = pc[u]
          /\ pc'[t] \notin {"count", "append", "stamp"} /\ meta' = seen[t]
      BY <2>5 DEF StampMeta, Appending, TypeOK
    <3>2. UNCHANGED meta
      BY <1>2, <3>1 DEF Serial
    <3> QED BY <1>2, <1>5, <1>6, <3>1, <3>2 DEF Serial
  <2>6. CASE Publish(t)
    <3>1. /\ pc[t] = "publish" /\ UNCHANGED <<lock, budget, journal>>
          /\ \A u \in Thread : u # t => pc'[u] = pc[u]
          /\ pc'[t] = "return" /\ meta' = published'
      BY <2>6 DEF Publish, TypeOK
    <3> QED BY <1>2, <1>5, <3>1 DEF Serial, PublishedStateStands, EventIdsNumberLines
  <2>7. CASE Return(t)
    BY <1>2, <1>7, <2>7 DEF Return
  <2> QED BY <1>9, <2>1, <2>2, <2>3, <2>4, <2>5, <2>6, <2>7 DEF Step
<1>10. ASSUME NEW t \in Thread, Cancel(t) PROVE FALSE
  BY <1>2, <1>10 DEF Cancel, Spend
<1>11. ASSUME NEW t \in Thread, FaultyWrite(t) PROVE Serialised'
  BY <1>4, <1>7, <1>11 DEF FaultyWrite, Hazard
<1>12. ASSUME NEW q \in Proc, Crash(q) PROVE Serialised'
  BY <1>4, <1>7, <1>12 DEF Crash, Hazard
<1>13. CASE UNCHANGED <<files, lock, pc, seen, eid, published, budget>>
  BY <1>2, <1>6, <1>13 DEF Serialised, Serial
<1> QED BY <1>8, <1>9, <1>10, <1>11, <1>12, <1>13 DEF Next, Execute, vars

(* It holds in every reachable state. *)
LEMMA SerialHolds ==
  ASSUME NEW CONSTANT p, Proc = {p}, MaxCancel = 0
  PROVE  Spec => []Serialised
<1>1. Init => Serialised
  BY DEF Init, Serialised, Serial, PublishedStateStands, EventIdsNumberLines, Bound, Hazard
<1>2. TypeOK /\ Serialised /\ [Next]_vars => Serialised'
  BY SerialInductive
<1> QED BY <1>1, <1>2, TypeInit, TypeInductive, PTL DEF Spec

(* In one process whose coroutines are not cancelled, the state of the run  *)
(* is the one last published: appending an event, which writes back the     *)
(* state it read, never undoes a publication, even if writes fail and the   *)
(* process crashes.                                                         *)
THEOREM PublicationStands ==
  ASSUME NEW CONSTANT p, Proc = {p}, MaxCancel = 0
  PROVE  Spec => []PublishedStateStands
<1>1. Serialised => PublishedStateStands
  BY DEF Serialised
<1> QED BY <1>1, SerialHolds, PTL

(* Under the same two conditions event ids number the lines of the journal, *)
(* so that a reader asking for the events after an id misses none.          *)
THEOREM EventsAreNumbered ==
  ASSUME NEW CONSTANT p, Proc = {p}, MaxCancel = 0
  PROVE  Spec => []EventIdsNumberLines
<1>1. Serialised => EventIdsNumberLines
  BY DEF Serialised
<1> QED BY <1>1, SerialHolds, PTL
=============================================================================
