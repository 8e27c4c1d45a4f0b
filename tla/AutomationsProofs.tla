-------------------------- MODULE AutomationsProofs --------------------------
(***************************************************************************)
(* What the store and the scheduler keep, for any automations, periods,    *)
(* limits and bounds, while every client goes through the daemon's         *)
(* instance of the store (Outside is FALSE).  With an instance of its own  *)
(* a client undoes the marks and the pauses of the other.                  *)
(*                                                                         *)
(* The heart of it is the lock of the instance: what an operation has read *)
(* is still what the file says when it writes (Locking).  So a record only *)
(* moves on in time, and past an occurrence that was marked (Firing).      *)
(***************************************************************************)
EXTENDS Automations, FiniteSetTheorems, TLAPS

Operation ==
  [kind : Kind, auto : Automation, store : {"daemon"},
   seen : [status : Exists, next : Nat], at : Nat]

Types ==
  /\ now \in Nat
  /\ record \in [Automation -> [status : Status, next : Nat]]
  /\ decided = [a \in Automation |-> record[a].status]
  /\ op \in [Actor -> {NoOp} \cup Operation]

(* One operation at a time, which has read what is there. *)
Locking ==
  /\ \A x, y \in Actor : op[x] # NoOp /\ op[y] # NoOp => x = y
  /\ \A x \in Actor : op[x] # NoOp =>
       /\ op[x].at <= now /\ op[x].seen = record[op[x].auto]
       /\ record[op[x].auto].next <= op[x].at + Period[op[x].auto]
  /\ \A a \in Automation : record[a].next <= now + Period[a]

StoreInv == Types /\ Locking

(* Who starts a run does so for an automation, which it marks. *)
Starting ==
  /\ DOMAIN start = Starter
  /\ \A p \in Starter : start[p].pc # "none" =>
       {"pc", "auto", "next"} \subseteq DOMAIN start[p] /\ start[p].auto \in Automation /\ start[p].next \in Nat
  /\ \A p \in Starter : start[p].pc = "marking" =>
       op[p] \in Operation /\ op[p].kind = "mark" /\ op[p].auto = start[p].auto

(* The records are nobody's memory of an earlier time. *)
MovesOn(a) ==
  /\ record'[a].next >= record[a].next
  /\ record[a].status # "new" => record'[a].status # "new"
  /\ record[a].status = "deleted" => record'[a].status = "deleted"

-----------------------------------------------------------------------------
(* The store. *)

(* Reading puts the record into the operation, under the lock. *)
LEMMA ReadsKeep ==
  ASSUME StoreInv, NEW x \in Actor, NEW kind \in Kind, NEW a \in Automation,
         Reads(x, "daemon", kind, a), UNCHANGED <<now, record, decided>>
  PROVE  StoreInv' /\ \A b \in Automation : MovesOn(b)
<1> DEFINE o == [kind |-> kind, auto |-> a, store |-> "daemon", seen |-> record[a], at |-> now]
<1>1. \A y \in Actor : op[y] = NoOp
  BY DEF StoreInv, Types, Reads, Locked, Operation, Kind, NoOp
<1>2. record[a] \in [status : Exists, next : Nat]
  BY DEF StoreInv, Types, Reads
<1>3. o \in Operation BY <1>2 DEF StoreInv, Types, Operation
<1>4. op' = [op EXCEPT ![x] = o] BY DEF Reads
<1>5. Types' BY <1>3, <1>4 DEF StoreInv, Types
<1>6. op'[x] = o /\ \A y \in Actor : y # x => op'[y] = NoOp BY <1>1, <1>4 DEF StoreInv, Types
<1>7. o.at = now /\ o.auto = a /\ o.seen = record[a] OBVIOUS
<1>8. Locking'
  <2>1. now <= now /\ record[a].next <= now + Period[a] BY DEF StoreInv, Types, Locking
  <2> HIDE DEF o
  <2> QED BY <1>6, <1>7, <2>1 DEF StoreInv, Locking
<1>9. \A b \in Automation : MovesOn(b)
  <2>1. \A b \in Automation : record[b].next \in Nat BY DEF StoreInv, Types
  <2> QED BY <2>1 DEF MovesOn
<1> QED BY <1>5, <1>8, <1>9 DEF StoreInv

(* Writing changes the record that was read, and gives the lock back. *)
LEMMA WritesKeep ==
  ASSUME StoreInv, NEW x \in Actor, Writes(x), AutomationsAssumption, UNCHANGED now,
         decided' = IF op[x].kind \in {"pause", "resume"}
                    THEN [decided EXCEPT ![op[x].auto] = Changed(op[x]).status] ELSE decided
  PROVE  /\ StoreInv' /\ \A b \in Automation : MovesOn(b)
         /\ op[x].kind = "mark" => record'[op[x].auto].next = op[x].at + Period[op[x].auto]
<1> DEFINE o == op[x]
           a == op[x].auto
<1>1. o # NoOp /\ o \in Operation BY DEF Writes, StoreInv, Types, NoOp
<1>2. a \in Automation /\ o.at \in Nat /\ o.kind \in Kind BY <1>1 DEF Operation
<1>3. /\ o.seen = record[a] /\ record[a].next <= o.at + Period[a] /\ o.at <= now
      /\ record[a].status \in Exists /\ record[a].next \in Nat
  <2>1. o.seen \in [status : Exists, next : Nat] BY <1>1 DEF Operation
  <2>2. o.seen = record[a] /\ record[a].next <= o.at + Period[a] /\ o.at <= now
    BY <1>1 DEF StoreInv, Locking
  <2> QED BY <2>1, <2>2
<1>4. Period[a] \in Nat /\ NextScheduledAt(a, o.at) = o.at + Period[a] /\ o.at + Period[a] \in Nat
  BY <1>2 DEF AutomationsAssumption, NextScheduledAt
<1>5. record' = [record EXCEPT ![a] = Changed(o)] /\ op' = [op EXCEPT ![x] = NoOp] BY DEF Writes
<1>6. /\ Changed(o).status \in Exists
      /\ o.kind \notin {"pause", "resume"} => Changed(o).status = record[a].status
  BY <1>2, <1>3 DEF Changed, Exists, Kind
<1>7. /\ Changed(o).next \in Nat /\ record[a].next <= Changed(o).next /\ Changed(o).next <= o.at + Period[a]
      /\ o.kind = "mark" => Changed(o).next = o.at + Period[a]
  BY <1>2, <1>3, <1>4 DEF Changed
<1>8. Changed(o) \in [status : Status, next : Nat] BY <1>6, <1>7 DEF Changed, Status
<1>9. \A y \in Actor : op'[y] = NoOp BY <1>1, <1>5 DEF StoreInv, Types, Locking
<1>10. /\ record'[a] = Changed(o)
       /\ \A b \in Automation : b # a => record'[b] = record[b]
  BY <1>2, <1>5 DEF StoreInv, Types
<1>11. Types'
  <2>1. record' \in [Automation -> [status : Status, next : Nat]] BY <1>5, <1>8 DEF StoreInv, Types
  <2>2. op' \in [Actor -> {NoOp} \cup Operation] BY <1>5 DEF StoreInv, Types
  <2>3. decided' = [b \in Automation |-> record'[b].status]
    <3>1. decided = [b \in Automation |-> record[b].status] BY DEF StoreInv, Types
    <3>2. CASE o.kind \in {"pause", "resume"} BY <1>2, <1>10, <3>1, <3>2
    <3>3. CASE o.kind \notin {"pause", "resume"} BY <1>2, <1>6, <1>10, <3>1, <3>3
    <3> QED BY <3>2, <3>3
  <2> QED BY <2>1, <2>2, <2>3 DEF StoreInv, Types
<1>12. Locking'
  <2>1. ASSUME NEW b \in Automation PROVE record'[b].next <= now + Period[b]
    <3>1. record[b].next <= now + Period[b] BY DEF StoreInv, Locking
    <3>2. now \in Nat BY DEF StoreInv, Types
    <3> QED BY <1>2, <1>3, <1>4, <1>7, <1>10, <3>1, <3>2
  <2> QED BY <1>9, <2>1 DEF Locking
<1>13. \A b \in Automation : MovesOn(b)
  <2>1. \A b \in Automation : record[b].next \in Nat BY DEF StoreInv, Types
  <2>2. record[a].status # "deleted" /\ record'[a].status # "new" BY <1>3, <1>6, <1>10 DEF Exists
  <2> QED BY <1>7, <1>10, <2>1, <2>2 DEF MovesOn
<1> QED BY <1>7, <1>10, <1>11, <1>12, <1>13 DEF StoreInv

(* Nothing is written, time may pass, and operations may be given up. *)
LEMMA NothingWritten ==
  ASSUME StoreInv, AutomationsAssumption, now' \in {now, now + 1}, UNCHANGED <<record, decided>>,
         DOMAIN op' = Actor, \A x \in Actor : op'[x] \in {op[x], NoOp},
         op' = [x \in Actor |-> op'[x]]
  PROVE  StoreInv' /\ \A b \in Automation : MovesOn(b)
<1>1. now \in Nat /\ now' \in Nat /\ now <= now' BY DEF StoreInv, Types
<1>2. Types' BY <1>1 DEF StoreInv, Types
<1>3. Locking'
  <2>1. \A x, y \in Actor : op'[x] # NoOp /\ op'[y] # NoOp => x = y BY DEF StoreInv, Locking
  <2>2. ASSUME NEW x \in Actor, op'[x] # NoOp
        PROVE  /\ op'[x].at <= now' /\ op'[x].seen = record'[op'[x].auto]
               /\ record'[op'[x].auto].next <= op'[x].at + Period[op'[x].auto]
    <3>1. op'[x] = op[x] /\ op[x] \in Operation BY <2>2 DEF StoreInv, Types
    <3>2. op[x].at <= now /\ op[x].at \in Nat BY <2>2, <3>1 DEF StoreInv, Locking, Operation
    <3>3. op[x].seen = record[op[x].auto] /\ record[op[x].auto].next <= op[x].at + Period[op[x].auto]
      BY <2>2, <3>1 DEF StoreInv, Locking
    <3> QED BY <1>1, <3>1, <3>2, <3>3
  <2>3. ASSUME NEW a \in Automation PROVE record'[a].next <= now' + Period[a]
    <3>1. record[a].next <= now + Period[a] /\ record[a].next \in Nat BY DEF StoreInv, Types, Locking
    <3>2. Period[a] \in Nat BY DEF AutomationsAssumption
    <3> QED BY <1>1, <3>1, <3>2
  <2> QED BY <2>1, <2>2, <2>3 DEF Locking
<1>4. \A b \in Automation : MovesOn(b)
  <2>1. \A b \in Automation : record[b].next \in Nat BY DEF StoreInv, Types
  <2> QED BY <2>1 DEF MovesOn
<1> QED BY <1>2, <1>3, <1>4 DEF StoreInv

(* An automation is created or deleted while no operation is under way.   *)
LEMMA CreateDeleteKeep ==
  ASSUME StoreInv, AutomationsAssumption, Outside = FALSE, NEW a \in Automation, Create(a) \/ Delete(a)
  PROVE  StoreInv' /\ \A b \in Automation : MovesOn(b)
<1>1. \A x \in Actor : op[x] = NoOp
  BY DEF StoreInv, Types, Create, Delete, ClientStores, Locked, Operation, Kind
<1>2. now \in Nat /\ now' = now /\ op' = op BY DEF StoreInv, Types, Create, Delete
<1>3. /\ record[a].status \in {"new"} \cup Exists
      /\ \A b \in Automation : record[b].next \in Nat /\ record[b].next <= now + Period[b] /\ Period[b] \in Nat
  BY DEF StoreInv, Types, Locking, Create, Delete, AutomationsAssumption
<1>4. PICK r \in [status : Status, next : Nat] :
        /\ record' = [record EXCEPT ![a] = r] /\ decided' = [decided EXCEPT ![a] = r.status]
        /\ record[a].next <= r.next /\ r.next <= now + Period[a] /\ r.status # "new"
  <2>1. CASE Create(a)
    <3>1. PICK status \in Exists :
            /\ record' = [record EXCEPT ![a] = [status |-> status, next |-> NextScheduledAt(a, now)]]
            /\ decided' = [decided EXCEPT ![a] = status]
      BY <2>1 DEF Create, Decides
    <3> DEFINE r == [status |-> status, next |-> NextScheduledAt(a, now)]
    <3>2. NextScheduledAt(a, now) = now + Period[a] /\ now + Period[a] \in Nat
      BY <1>2, <1>3 DEF NextScheduledAt
    <3>3. r \in [status : Status, next : Nat] /\ r.next = now + Period[a] /\ r.status = status /\ status # "new"
      BY <3>2 DEF Status, Exists
    <3>4. record[a].next <= r.next /\ r.next <= now + Period[a] BY <1>2, <1>3, <3>2, <3>3
    <3> HIDE DEF r
    <3> QED BY <3>1, <3>3, <3>4 DEF r
  <2>2. CASE Delete(a)
    <3>1. record' = [record EXCEPT ![a] = [record[a] EXCEPT !.status = "deleted"]]
          /\ decided' = [decided EXCEPT ![a] = "deleted"]
      BY <2>2 DEF Delete, Decides
    <3> DEFINE r == [record[a] EXCEPT !.status = "deleted"]
    <3>2. r \in [status : Status, next : Nat] /\ r.next = record[a].next /\ r.status = "deleted"
      BY DEF StoreInv, Types, Status
    <3>3. record[a].next <= r.next /\ r.next <= now + Period[a] BY <1>3, <3>2
    <3> HIDE DEF r
    <3> QED BY <3>1, <3>2, <3>3 DEF r
  <2> QED BY <2>1, <2>2
<1>5. record'[a] = r /\ \A b \in Automation : b # a => record'[b] = record[b]
  BY <1>4 DEF StoreInv, Types
<1>6. Types'
  <2>1. record' \in [Automation -> [status : Status, next : Nat]] BY <1>4 DEF StoreInv, Types
  <2>2. decided' = [b \in Automation |-> record'[b].status]
    <3>1. decided = [b \in Automation |-> record[b].status] BY DEF StoreInv, Types
    <3> QED BY <1>4, <1>5, <3>1
  <2> QED BY <1>2, <2>1, <2>2 DEF StoreInv, Types
<1>7. Locking' BY <1>1, <1>2, <1>3, <1>4, <1>5 DEF Locking
<1>8. \A b \in Automation : MovesOn(b)
  <2>1. record[a].status # "deleted" BY <1>3 DEF Exists
  <2> QED BY <1>3, <1>4, <1>5, <2>1 DEF MovesOn
<1> QED BY <1>6, <1>7, <1>8 DEF StoreInv

(* A step of anybody. *)
LEMMA StoreStep ==
  ASSUME StoreInv, Starting, AutomationsAssumption, Outside = FALSE, [Next]_vars
  PROVE  StoreInv' /\ \A b \in Automation : MovesOn(b)
<1>1. op \in [Actor -> {NoOp} \cup Operation] /\ Starter \subseteq Actor /\ "client" \in Actor
  BY DEF StoreInv, Types, Actor
<1>2. CASE \E a \in Automation : ClientReads(a)
  <2>1. PICK a \in Automation, kind \in Kind : Reads("client", "daemon", kind, a)
    BY <1>2 DEF ClientReads, ClientStores
  <2> QED BY <1>1, <1>2, <2>1, ReadsKeep DEF ClientReads
<1>3. CASE \E a \in Automation : Create(a) \/ Delete(a) BY <1>3, CreateDeleteKeep
<1>4. CASE ClientWrites
  <2>1. decided' = IF op["client"].kind \in {"pause", "resume"}
                   THEN [decided EXCEPT ![op["client"].auto] = Changed(op["client"]).status] ELSE decided
    BY <1>4 DEF ClientWrites, Decides
  <2> QED BY <1>1, <1>4, <2>1, WritesKeep DEF ClientWrites
<1>5. CASE \E p \in Starter : MarkReads(p)
  <2>1. PICK p \in Starter : MarkReads(p) BY <1>5
  <2>2. start[p].auto \in Automation BY <2>1 DEF MarkReads, Starting
  <2> QED BY <1>1, <2>1, <2>2, ReadsKeep DEF MarkReads, Kind
<1>6. CASE \E p \in Starter : MarkWrites(p)
  <2>1. PICK p \in Starter : MarkWrites(p) BY <1>6
  <2>2. op[p] \in Operation /\ op[p].seen = record[op[p].auto] /\ op[p].auto \in Automation
    BY <1>1, <2>1 DEF MarkWrites, Writes, StoreInv, Locking, NoOp, Operation
  <2>3. p # "client" /\ op[p].kind = "mark"
    BY <2>1 DEF MarkWrites, Starting, Starter
  <2> QED BY <1>1, <2>1, <2>3, WritesKeep DEF MarkWrites
<1>7. CASE \/ TimePasses \/ TickStep \/ (\E a \in Automation : RunNow(a)) \/ Crash \/ UNCHANGED vars
           \/ (\E p \in Starter : CreateRun(p) \/ MarkMisses(p) \/ Launch(p) \/ StartFails(p))
           \/ (\E r \in Slot : RunStep(r) \/ Cancel(r))
  <2>1. now' \in {now, now + 1} /\ UNCHANGED <<record, decided>>
    BY <1>7 DEF TimePasses, TickStep, TickBegins, TickLists, TickTakes, TickEnds, RunNow, Crash, vars, storeVars,
                CreateRun, MarkMisses, Launch, StartFails, RunStep, Begin, TurnEnds, Partial, Report, Cancel, TaskKeeps
  <2>2. /\ DOMAIN op' = Actor /\ \A x \in Actor : op'[x] \in {op[x], NoOp}
        /\ op' = [x \in Actor |-> op'[x]]
    <3>1. CASE op' = op BY <1>1, <3>1
    <3>2. CASE Crash BY <3>2 DEF Crash
    <3>3. CASE \E p \in Starter : StartFails(p) BY <1>1, <3>3 DEF StartFails
    <3> QED
      BY <1>7, <3>1, <3>2, <3>3 DEF TimePasses, TickStep, TickBegins, TickLists, TickTakes, TickEnds, RunNow, vars,
                storeVars, CreateRun, MarkMisses, Launch, RunStep, Begin, TurnEnds, Partial, Report, Cancel, TaskKeeps
  <2> QED BY <2>1, <2>2, NothingWritten
<1> QED BY <1>2, <1>3, <1>4, <1>5, <1>6, <1>7 DEF Next, StartStep

(* Whoever starts a run keeps to its automation. *)
LEMMA StartingKept ==
  ASSUME StoreInv, Starting, Outside = FALSE, [Next]_vars,
         \A d \in due : d.auto \in Automation /\ d.next \in Nat
  PROVE  Starting'
<1>1. /\ op \in [Actor -> {NoOp} \cup Operation] /\ Starter \subseteq Actor /\ "client" \notin Starter
      /\ \A a \in Automation : record[a].next \in Nat
  BY DEF StoreInv, Types, Actor, Starter
<1>2. CASE start' = start /\ \A p \in Starter : op'[p] = op[p] BY <1>2 DEF Starting
<1>3. ASSUME NEW p \in Starter, NEW s, start' = [start EXCEPT ![p] = s],
             \A q \in Starter : q # p => op'[q] = op[q],
             s.pc # "none" =>
               {"pc", "auto", "next"} \subseteq DOMAIN s /\ s.auto \in Automation /\ s.next \in Nat,
             s.pc = "marking" => op'[p] \in Operation /\ op'[p].kind = "mark" /\ op'[p].auto = s.auto
      PROVE  Starting'
  <2>1. /\ DOMAIN start' = Starter /\ start'[p] = s
        /\ \A q \in Starter : q # p => start'[q] = start[q] /\ op'[q] = op[q]
    BY <1>3 DEF Starting
  <2> QED BY <1>3, <2>1 DEF Starting
<1>4. CASE TickTakes
  <2>1. PICK d \in due : start' = IF Cooling(d.auto) THEN start
                   ELSE [start EXCEPT !["tick"] = [pc |-> "create", auto |-> d.auto, next |-> d.next]]
    BY <1>4 DEF TickTakes
  <2>2. op' = op BY <1>4 DEF TickTakes, storeVars
  <2> QED BY <1>2, <1>3, <2>1, <2>2 DEF Starter
<1>5. CASE \E a \in Automation : RunNow(a)
  BY <1>1, <1>3, <1>5 DEF RunNow, storeVars, Starter
<1>6. CASE \E p \in Starter : CreateRun(p)
  <2>1. PICK p \in Starter : CreateRun(p) BY <1>6
  <2>2. PICK n \in Slot :
          start' = [start EXCEPT ![p] = [pc |-> "mark", auto |-> start[p].auto, next |-> start[p].next, run |-> n]]
    BY <2>1 DEF CreateRun, Free
  <2>3. op' = op /\ start[p].auto \in Automation /\ start[p].next \in Nat
    BY <2>1 DEF CreateRun, storeVars, Starting
  <2> QED BY <1>3, <2>2, <2>3
<1>7. ASSUME NEW p \in Starter, start[p].pc # "none", NEW pc \in {"marking", "event"}, Goes(p, pc),
             \A q \in Starter : q # p => op'[q] = op[q],
             pc = "marking" => op'[p] \in Operation /\ op'[p].kind = "mark" /\ op'[p].auto = start[p].auto
      PROVE  Starting'
  <2> DEFINE s == [start[p] EXCEPT !.pc = pc]
  <2>1. start' = [start EXCEPT ![p] = s] BY <1>7 DEF Goes
  <2>2. s.auto = start[p].auto /\ s.next = start[p].next /\ (s.pc = "marking" => pc = "marking")
        /\ DOMAIN s = DOMAIN start[p]
    BY <1>7
  <2>3. /\ {"pc", "auto", "next"} \subseteq DOMAIN start[p]
        /\ start[p].auto \in Automation /\ start[p].next \in Nat
    BY <1>7 DEF Starting
  <2> HIDE DEF s
  <2> QED BY <1>3, <1>7, <2>1, <2>2, <2>3
<1>8. CASE \E p \in Starter : MarkReads(p)
  <2>1. PICK p \in Starter : MarkReads(p) BY <1>8
  <2>2. StoreInv' BY <2>1, <1>1, ReadsKeep DEF MarkReads, Kind, Starting
  <2>3. /\ op' = [op EXCEPT ![p] = [kind |-> "mark", auto |-> start[p].auto, store |-> "daemon",
                                   seen |-> record[start[p].auto], at |-> now]]
        /\ start[p].pc # "none" /\ Goes(p, "marking")
    BY <2>1 DEF MarkReads, Reads
  <2>4. op'[p].kind = "mark" /\ op'[p].auto = start[p].auto /\ \A q \in Starter : q # p => op'[q] = op[q]
    BY <1>1, <2>3
  <2>5. op'[p] \in Operation BY <1>1, <2>2, <2>4 DEF StoreInv, Types, NoOp
  <2> QED BY <1>7, <2>3, <2>4, <2>5
<1>9. CASE \E p \in Starter : MarkWrites(p) \/ MarkMisses(p)
  <2>1. PICK p \in Starter : MarkWrites(p) \/ MarkMisses(p) BY <1>9
  <2>2. start[p].pc # "none" /\ Goes(p, "event") BY <2>1 DEF MarkWrites, MarkMisses
  <2>3. \A q \in Starter : q # p => op'[q] = op[q]
    BY <1>1, <2>1 DEF MarkWrites, MarkMisses, Writes, storeVars
  <2> QED BY <1>7, <2>2, <2>3
<1>10. CASE \E p \in Starter : Launch(p) \/ StartFails(p)
  <2>1. PICK p \in Starter : Launch(p) \/ StartFails(p) BY <1>10
  <2>2. start' = [start EXCEPT ![p] = NoStart] /\ \A q \in Starter : q # p => op'[q] = op[q]
    BY <1>1, <2>1 DEF Launch, StartFails, storeVars
  <2> QED BY <1>3, <2>2 DEF NoStart
<1>11. CASE Crash BY <1>11 DEF Crash, Starting, NoStart
<1>12. CASE \/ TimePasses \/ TickBegins \/ TickLists \/ TickEnds \/ ClientWrites \/ UNCHANGED vars
            \/ (\E a \in Automation : ClientReads(a) \/ Create(a) \/ Delete(a))
            \/ (\E r \in Slot : RunStep(r) \/ Cancel(r))
  <2>1. start' = start
    BY <1>12 DEF TimePasses, TickBegins, TickLists, TickEnds, ClientWrites, vars, ClientReads, Create, Delete,
                 RunStep, Begin, TurnEnds, Partial, Report, Cancel, TaskKeeps
  <2>2. op' = op \/ \E o : op' = [op EXCEPT !["client"] = o]
    BY <1>12 DEF TimePasses, TickBegins, TickLists, TickEnds, ClientWrites, vars, ClientReads, Create, Delete,
                 RunStep, Begin, TurnEnds, Partial, Report, Cancel, TaskKeeps, storeVars, Reads, Writes
  <2>3. \A p \in Starter : op'[p] = op[p] BY <1>1, <2>2
  <2> QED BY <1>2, <2>1, <2>3
<1> QED BY <1>4, <1>5, <1>6, <1>8, <1>9, <1>10, <1>11, <1>12 DEF Next, StartStep, TickStep

-----------------------------------------------------------------------------
(* The scheduler. *)

(* The record is past an occurrence. *)
Ahead(a, t) == record[a].status = "deleted" \/ record[a].next > t

(* The tick is done with it. *)
Spent(a, t) ==
  /\ \A d \in due : ~(d.auto = a /\ d.next = t)
  /\ start["tick"].pc # "none" => ~(start["tick"].auto = a /\ start["tick"].next = t)

(* The tick knows occurrences that are due, one of an automation; it marks *)
(* one before it fires it.                                                 *)
Ticking ==
  /\ \A d \in due :
       d.auto \in Automation /\ d.next \in Nat /\ d.next <= now /\ record[d.auto].status # "new"
  /\ \A d, e \in due : d.auto = e.auto => d = e
  /\ start["tick"].pc # "none" =>
       /\ loop = "work" /\ start["tick"].next <= now /\ record[start["tick"].auto].status # "new"
       /\ \A d \in due : d.auto # start["tick"].auto
  /\ start["tick"].pc = "marking" => op["tick"].at >= start["tick"].next
  /\ start["tick"].pc = "event"   => Ahead(start["tick"].auto, start["tick"].next)

Firing ==
  /\ fired \in [Automation -> [Time -> Nat]]
  /\ \A a \in Automation, t \in Time :
       fired[a][t] <= 1 /\ (fired[a][t] = 1 => Ahead(a, t) /\ Spent(a, t))

Inv == StoreInv /\ Starting /\ Ticking /\ Firing

(* A record that is past an occurrence stays so. *)
LEMMA AheadStays ==
  ASSUME NEW a, NEW t \in Int, record[a].next \in Nat, record'[a].next \in Nat, MovesOn(a), Ahead(a, t)
  PROVE  Ahead(a, t)'
BY DEF Ahead, MovesOn

(* Occurrences are times. *)
LEMMA TimeInt == Time \subseteq Int
<1> DEFINE n == MaxTime + CHOOSE m \in {Period[a] : a \in Automation} : \A a \in Automation : Period[a] <= m
<1>1. Time = 0..n BY DEF Time
<1> HIDE DEF n
<1> QED BY <1>1

(* What most steps do: the tick has no new occurrence before it, nothing   *)
(* is fired, and what it starts keeps what it needs.                       *)
LEMMA TickFrame ==
  ASSUME Inv, StoreInv', \A a \in Automation : MovesOn(a),
         now' \in {now, now + 1}, fired' = fired, due' \subseteq due,
         start'["tick"].pc # "none" =>
           /\ start["tick"].pc # "none" /\ loop' = "work"
           /\ start'["tick"].auto = start["tick"].auto /\ start'["tick"].next = start["tick"].next,
         start'["tick"].pc = "marking" => op'["tick"].at >= start'["tick"].next,
         start'["tick"].pc = "event"   => Ahead(start["tick"].auto, start["tick"].next)'
  PROVE  Ticking' /\ Firing'
<1>1. now \in Nat /\ now' \in Nat /\ now <= now' BY DEF Inv, StoreInv, Types
<1>2. \A a \in Automation : record[a].next \in Nat /\ record'[a].next \in Nat
  BY DEF Inv, StoreInv, Types
<1>3. Ticking'
  <2>1. start["tick"].pc # "none" => start["tick"].auto \in Automation /\ start["tick"].next \in Nat
    BY DEF Inv, Starting, Starter
  <2>2. \A d \in due' :
          d.auto \in Automation /\ d.next \in Nat /\ d.next <= now' /\ record'[d.auto].status # "new"
    BY <1>1 DEF Inv, Ticking, MovesOn
  <2>3. \A d, e \in due' : d.auto = e.auto => d = e BY DEF Inv, Ticking
  <2>4. start'["tick"].pc # "none" =>
          /\ loop' = "work" /\ start'["tick"].next <= now' /\ record'[start'["tick"].auto].status # "new"
          /\ \A d \in due' : d.auto # start'["tick"].auto
    BY <1>1, <2>1 DEF Inv, Ticking, MovesOn
  <2>5. start'["tick"].pc = "event" => Ahead(start["tick"].auto, start["tick"].next)'
    OBVIOUS
  <2> QED BY <2>2, <2>3, <2>4, <2>5 DEF Ticking
<1>4. Firing'
  <2>1. fired' \in [Automation -> [Time -> Nat]] BY DEF Inv, Firing
  <2>2. ASSUME NEW a \in Automation, NEW t \in Time
        PROVE  fired'[a][t] <= 1 /\ (fired'[a][t] = 1 => Ahead(a, t)' /\ Spent(a, t)')
    <3>1. fired[a][t] <= 1 /\ (fired[a][t] = 1 => Ahead(a, t) /\ Spent(a, t)) BY DEF Inv, Firing
    <3>2. Ahead(a, t) => Ahead(a, t)' BY <1>2, TimeInt, AheadStays
    <3>3. Spent(a, t) => Spent(a, t)' BY DEF Spent
    <3> QED BY <3>1, <3>2, <3>3
  <2> QED BY <2>1, <2>2 DEF Firing
<1> QED BY <1>3, <1>4

(* The tick reads what is due: nothing of it was fired. *)
LEMMA ListingKeeps ==
  ASSUME Inv, TickLists
  PROVE  Ticking' /\ Firing'
<1>1. /\ UNCHANGED <<now, record, op, start, fired>> /\ start["tick"].pc = "none"
  BY DEF Inv, Ticking, TickLists, storeVars
<1>2. PICK D \in SUBSET {a \in Automation : IsDue(a)} :
        due' = {[auto |-> a, next |-> record[a].next] : a \in D}
  BY DEF TickLists
<1>3. \A d \in due' : /\ d.auto \in Automation /\ d.next = record[d.auto].next /\ record[d.auto].status = "active"
                      /\ d.next \in Nat /\ d.next <= now /\ d = [auto |-> d.auto, next |-> record[d.auto].next]
  BY <1>2 DEF IsDue, Inv, StoreInv, Types
<1>4. Ticking'
  <2>1. \A d, e \in due' : d.auto = e.auto => d = e BY <1>3
  <2> QED BY <1>1, <1>3, <2>1 DEF Ticking
<1>5. Firing'
  <2>1. ASSUME NEW a \in Automation, NEW t \in Time
        PROVE  fired'[a][t] <= 1 /\ (fired'[a][t] = 1 => Ahead(a, t)' /\ Spent(a, t)')
    <3>1. fired[a][t] <= 1 /\ (fired[a][t] = 1 => Ahead(a, t)) BY DEF Inv, Firing
    <3>2. Ahead(a, t) => Spent(a, t)' BY <1>1, <1>3, TimeInt DEF Ahead, Spent
    <3>3. Ahead(a, t)' <=> Ahead(a, t) BY <1>1 DEF Ahead
    <3> QED BY <1>1, <3>1, <3>2, <3>3
  <2> QED BY <1>1, <2>1 DEF Inv, Firing
<1> QED BY <1>4, <1>5

(* It takes one of them. *)
LEMMA TakingKeeps ==
  ASSUME Inv, TickTakes
  PROVE  Ticking' /\ Firing'
<1>1. /\ UNCHANGED <<now, record, op, fired, loop>> /\ start["tick"].pc = "none" /\ loop = "work"
      /\ DOMAIN start = Starter
  BY DEF Inv, Starting, TickTakes, storeVars
<1>2. PICK d \in due :
        /\ due' = due \ {d}
        /\ start' = IF Cooling(d.auto) THEN start
                    ELSE [start EXCEPT !["tick"] = [pc |-> "create", auto |-> d.auto, next |-> d.next]]
  BY DEF TickTakes
<1>3. \/ start'["tick"].pc = "none"
      \/ start'["tick"].pc = "create" /\ start'["tick"].auto = d.auto /\ start'["tick"].next = d.next
  BY <1>1, <1>2 DEF Starter
<1>4. Ticking' BY <1>1, <1>2, <1>3 DEF Inv, Ticking
<1>5. Firing'
  <2>1. ASSUME NEW a \in Automation, NEW t \in Time
        PROVE  fired'[a][t] <= 1 /\ (fired'[a][t] = 1 => Ahead(a, t)' /\ Spent(a, t)')
    <3>1. fired[a][t] <= 1 /\ (fired[a][t] = 1 => Ahead(a, t) /\ Spent(a, t)) BY DEF Inv, Firing
    <3>2. Spent(a, t) => Spent(a, t)' BY <1>2, <1>3 DEF Spent
    <3>3. Ahead(a, t)' <=> Ahead(a, t) BY <1>1 DEF Ahead
    <3> QED BY <1>1, <3>1, <3>2, <3>3
  <2> QED BY <1>1, <2>1 DEF Inv, Firing
<1> QED BY <1>4, <1>5

(* It fires one, which is marked and was not fired before. *)
LEMMA LaunchKeeps ==
  ASSUME Inv, Launch("tick")
  PROVE  Ticking' /\ Firing'
<1> DEFINE a == start["tick"].auto
           t == start["tick"].next
<1>1. /\ UNCHANGED <<now, record, op, due, loop>> /\ start["tick"].pc = "event" /\ DOMAIN start = Starter
      /\ start'["tick"].pc = "none" /\ a \in Automation /\ t \in Nat
  BY DEF Inv, Starting, Launch, storeVars, NoStart, Starter
<1>2. Ahead(a, t) /\ \A d \in due : d.auto # a BY <1>1 DEF Inv, Ticking
<1>3. fired' = [fired EXCEPT ![a][t] = @ + 1] BY DEF Launch
<1>4. Ticking' BY <1>1 DEF Inv, Ticking
<1>5. Firing'
  <2>1. fired' \in [Automation -> [Time -> Nat]]
    <3> DEFINE g == [fired[a] EXCEPT ![t] = fired[a][t] + 1]
    <3>1. fired \in [Automation -> [Time -> Nat]] /\ fired[a] \in [Time -> Nat]
      BY <1>1 DEF Inv, Firing
    <3>2. g \in [Time -> Nat]
      <4>1. \A u \in Time : g[u] \in Nat BY <3>1
      <4> QED BY <3>1, <4>1
    <3>3. fired' = [fired EXCEPT ![a] = g] BY <1>3
    <3> HIDE DEF g
    <3> QED BY <3>1, <3>2, <3>3
  <2>2. ASSUME NEW b \in Automation, NEW u \in Time
        PROVE  fired'[b][u] <= 1 /\ (fired'[b][u] = 1 => Ahead(b, u)' /\ Spent(b, u)')
    <3>1. /\ fired[b][u] \in Nat
          /\ fired[b][u] <= 1 /\ (fired[b][u] = 1 => Ahead(b, u) /\ Spent(b, u)) BY DEF Inv, Firing
    <3>2. Ahead(b, u)' <=> Ahead(b, u) BY <1>1 DEF Ahead
    <3>3. CASE b = a /\ u = t
      <4>1. fired[b][u] = 0 BY <1>1, <3>1, <3>3 DEF Spent
      <4>2. fired'[b][u] = 1 BY <1>3, <3>3, <4>1 DEF Inv, Firing
      <4>3. Spent(b, u)' BY <1>1, <1>2, <3>3 DEF Spent
      <4> QED BY <1>2, <3>2, <3>3, <4>2, <4>3
    <3>4. CASE ~(b = a /\ u = t)
      <4>1. fired'[b][u] = fired[b][u] BY <1>3, <3>4 DEF Inv, Firing
      <4>2. Spent(b, u) => Spent(b, u)' BY <1>1 DEF Spent
      <4> QED BY <3>1, <3>2, <4>1, <4>2
    <3> QED BY <3>3, <3>4
  <2> QED BY <2>1, <2>2 DEF Firing
<1> QED BY <1>4, <1>5

(* A step of anybody. *)
LEMMA TickStepKeeps ==
  ASSUME Inv, AutomationsAssumption, Outside = FALSE, [Next]_vars
  PROVE  Ticking' /\ Firing'
<1>1. StoreInv' /\ Starting' /\ \A a \in Automation : MovesOn(a)
  BY StoreStep, StartingKept DEF Inv, Ticking
<1>2. /\ op \in [Actor -> {NoOp} \cup Operation] /\ DOMAIN start = Starter
      /\ Starter = {"tick", "request"} /\ Actor = {"tick", "request", "client"}
      /\ now \in Nat /\ \A a \in Automation : record[a].next \in Nat
  BY DEF Inv, StoreInv, Types, Starting, Starter, Actor
<1>3. \A a \in Automation : record'[a].next \in Nat BY <1>1 DEF StoreInv, Types
<1>4. ASSUME start["tick"].pc # "none"
      PROVE  start["tick"].auto \in Automation /\ start["tick"].next \in Nat
  BY <1>4 DEF Inv, Starting, Starter
<1>5. ASSUME now' \in {now, now + 1}, UNCHANGED <<fired, due, loop>>,
             start'["tick"] = start["tick"], op'["tick"] = op["tick"]
      PROVE  Ticking' /\ Firing'
  <2>1. start["tick"].pc = "event" => Ahead(start["tick"].auto, start["tick"].next)'
    <3> DEFINE a == start["tick"].auto
               t == start["tick"].next
    <3>1. ASSUME start["tick"].pc = "event" PROVE Ahead(a, t)'
      <4>1. a \in Automation /\ t \in Int /\ Ahead(a, t) BY <1>4, <3>1 DEF Inv, Ticking
      <4>2. record'[a].next > t \/ record'[a].status = "deleted"
        BY <1>1, <1>2, <1>3, <4>1 DEF Ahead, MovesOn
      <4> QED BY <1>5, <4>2 DEF Ahead
    <3> QED BY <3>1
  <2>2. start["tick"].pc = "marking" => op["tick"].at >= start["tick"].next BY DEF Inv, Ticking
  <2>3. start["tick"].pc # "none" => loop = "work" BY DEF Inv, Ticking
  <2> QED BY <1>1, <1>5, <2>1, <2>2, <2>3, TickFrame
<1>6. ASSUME now' = now, fired' = fired, due' \subseteq due, start'["tick"].pc = "none"
      PROVE  Ticking' /\ Firing'
  BY <1>1, <1>6, TickFrame
<1>7. CASE Crash \/ TickBegins \/ TickEnds \/ StartFails("tick")
  <2>1. now' = now /\ fired' = fired /\ due' \subseteq due
    BY <1>7 DEF Crash, TickBegins, TickEnds, StartFails, tickVars
  <2>2. start'["tick"].pc = "none"
    <3>1. CASE Crash BY <3>1 DEF Crash, NoStart, Starter
    <3>2. CASE TickBegins \/ TickEnds BY <3>2 DEF TickBegins, TickEnds, Inv, Ticking
    <3>3. CASE StartFails("tick") BY <1>2, <3>3 DEF StartFails, NoStart
    <3> QED BY <1>7, <3>1, <3>2, <3>3
  <2> QED BY <1>6, <2>1, <2>2
<1>8. CASE TickLists \/ TickTakes \/ Launch("tick")
  BY <1>8, ListingKeeps, TakingKeeps, LaunchKeeps
<1>9. CASE \/ TimePasses \/ ClientWrites \/ UNCHANGED vars
           \/ (\E a \in Automation : ClientReads(a) \/ Create(a) \/ Delete(a) \/ RunNow(a))
           \/ (\E r \in Slot : RunStep(r) \/ Cancel(r))
           \/ StartStep("request") \/ StartFails("request")
  <2>1. now' \in {now, now + 1} /\ UNCHANGED <<fired, due, loop>>
    BY <1>9 DEF TimePasses, ClientWrites, vars, ClientReads, Create, Delete, RunNow, RunStep, Begin, TurnEnds,
                Partial, Report, Cancel, TaskKeeps, StartStep, CreateRun, MarkReads, MarkWrites, MarkMisses, Launch,
                StartFails, tickVars
  <2>2. start' = start \/ \E s : start' = [start EXCEPT !["request"] = s]
    BY <1>9 DEF TimePasses, ClientWrites, vars, ClientReads, Create, Delete, RunNow, RunStep, Begin, TurnEnds,
                Partial, Report, Cancel, TaskKeeps, StartStep, CreateRun, MarkReads, MarkWrites, MarkMisses, Launch,
                StartFails, tickVars, Goes
  <2>3. op' = op \/ \E x \in {"request", "client"} : \E o : op' = [op EXCEPT ![x] = o]
    BY <1>9 DEF TimePasses, ClientWrites, vars, ClientReads, Create, Delete, RunNow, RunStep, Begin, TurnEnds,
                Partial, Report, Cancel, TaskKeeps, StartStep, CreateRun, MarkReads, MarkWrites, MarkMisses, Launch,
                StartFails, storeVars, Reads, Writes
  <2>4. start'["tick"] = start["tick"] BY <1>2, <2>2
  <2>5. op'["tick"] = op["tick"] BY <1>2, <2>3
  <2> QED BY <1>5, <2>1, <2>4, <2>5
<1>10. ASSUME now' = now, UNCHANGED <<fired, due, loop>>, start["tick"].pc # "none",
              start'["tick"].auto = start["tick"].auto, start'["tick"].next = start["tick"].next,
              start'["tick"].pc = "marking" => op'["tick"].at >= start["tick"].next,
              start'["tick"].pc = "event" => Ahead(start["tick"].auto, start["tick"].next)'
       PROVE  Ticking' /\ Firing'
  <2>1. loop' = "work" BY <1>10 DEF Inv, Ticking
  <2> QED BY <1>1, <1>10, <2>1, TickFrame
<1>11. ASSUME NEW pc \in {"marking", "event"}, Goes("tick", pc), start["tick"].pc # "none"
       PROVE  /\ start'["tick"].pc = pc
              /\ start'["tick"].auto = start["tick"].auto /\ start'["tick"].next = start["tick"].next
  <2>1. {"pc", "auto", "next"} \subseteq DOMAIN start["tick"] BY <1>11 DEF Inv, Starting, Starter
  <2> QED BY <1>2, <1>11, <2>1 DEF Goes
<1>12. CASE CreateRun("tick")
  <2>1. PICK n \in Slot :
          start' = [start EXCEPT !["tick"] =
                      [pc |-> "mark", auto |-> start["tick"].auto, next |-> start["tick"].next, run |-> n]]
    BY <1>12 DEF CreateRun, Free
  <2>2. /\ now' = now /\ UNCHANGED <<fired, due, loop>> /\ start["tick"].pc # "none"
        /\ start'["tick"].pc = "mark"
        /\ start'["tick"].auto = start["tick"].auto /\ start'["tick"].next = start["tick"].next
    BY <1>2, <1>12, <2>1 DEF CreateRun, tickVars
  <2> QED BY <1>10, <2>2
<1>13. CASE MarkReads("tick")
  <2>1. /\ now' = now /\ UNCHANGED <<fired, due, loop>> /\ start["tick"].pc # "none" /\ Goes("tick", "marking")
    BY <1>13 DEF MarkReads, tickVars
  <2>2. op'["tick"].at = now BY <1>2, <1>13 DEF MarkReads, Reads
  <2>3. now >= start["tick"].next BY <1>2, <1>4, <2>1 DEF Inv, Ticking
  <2> QED BY <1>10, <1>11, <2>1, <2>2, <2>3
<1>14. CASE MarkWrites("tick")
  <2>1. /\ now' = now /\ UNCHANGED <<fired, due, loop>> /\ start["tick"].pc = "marking" /\ Goes("tick", "event")
    BY <1>14 DEF MarkWrites, tickVars
  <2>2. /\ op["tick"] \in Operation /\ op["tick"].kind = "mark" /\ op["tick"].auto = start["tick"].auto
        /\ op["tick"].at >= start["tick"].next
    BY <2>1 DEF Inv, Starting, Starter, Ticking
  <2>3. record'[start["tick"].auto].next = op["tick"].at + Period[start["tick"].auto]
    BY <1>2, <1>14, <2>2, WritesKeep DEF MarkWrites, Inv
  <2>4. Period[start["tick"].auto] \in Nat \ {0} /\ op["tick"].at \in Nat /\ start["tick"].next \in Nat
    BY <1>4, <2>1, <2>2 DEF AutomationsAssumption, Operation
  <2>5. Ahead(start["tick"].auto, start["tick"].next)'
    <3>1. record'[start["tick"].auto].next > start["tick"].next BY <2>2, <2>3, <2>4
    <3>2. /\ start'["tick"].auto = start["tick"].auto /\ start'["tick"].next = start["tick"].next
      BY <1>11, <2>1
    <3> QED BY <3>1, <3>2 DEF Ahead
  <2> QED BY <1>10, <1>11, <2>1, <2>5
<1>15. CASE MarkMisses("tick")
  <2>1. /\ now' = now /\ UNCHANGED <<fired, due, loop, record>> /\ start["tick"].pc # "none" /\ Goes("tick", "event")
        /\ record[start["tick"].auto].status \notin Exists
    BY <1>15 DEF MarkMisses, tickVars, storeVars
  <2>2. record[start["tick"].auto].status = "deleted"
    BY <1>4, <2>1 DEF Inv, Ticking, StoreInv, Types, Status
  <2>3. Ahead(start["tick"].auto, start["tick"].next)' BY <1>11, <2>1, <2>2 DEF Ahead
  <2> QED BY <1>10, <1>11, <2>1, <2>3
<1> QED BY <1>7, <1>8, <1>9, <1>12, <1>13, <1>14, <1>15, <1>2 DEF Next, StartStep, TickStep

(* Initially nothing is under way. *)
LEMMA InitInv == Init => Inv
<1> SUFFICES ASSUME Init PROVE Inv
  OBVIOUS
<1> USE DEF Init
<1>1. record \in [Automation -> [status : Status, next : Nat]] BY DEF Status, Exists
<1>2. \A a \in Automation : record[a].next = 0 OBVIOUS
<1>3. Types
  <2>1. decided = [a \in Automation |-> record[a].status] OBVIOUS
  <2>2. op \in [Actor -> {NoOp} \cup Operation] OBVIOUS
  <2>3. now \in Nat OBVIOUS
  <2> QED BY <1>1, <2>1, <2>2, <2>3 DEF Types
<1>4. Locking
  <2>1. \A a \in Automation : Period[a] \in Nat BY AutomationsAssumption DEF AutomationsAssumption
  <2> QED BY <1>2, <2>1 DEF Locking
<1>5. Starting BY DEF Starting, NoStart
<1>6. Ticking /\ Firing BY DEF Ticking, Firing, NoStart, Starter
<1> QED BY <1>3, <1>4, <1>5, <1>6 DEF Inv, StoreInv

(* And every step keeps it so. *)
LEMMA NextInv ==
  ASSUME Outside = FALSE
  PROVE  Inv /\ [Next]_vars => Inv'
BY AutomationsAssumption, StoreStep, StartingKept, TickStepKeeps DEF Inv, Ticking

(* A pause, a resume or a deletion stands until the next one               *)
(* (core/automations.py: an operation reads and writes under the lock of   *)
(* its instance), for any automations and any number of operations, if     *)
(* there is one instance.                                                  *)
THEOREM DecisionsStand ==
  ASSUME Outside = FALSE
  PROVE  Spec => []DecisionStands
<1>1. Inv => DecisionStands BY DEF Inv, StoreInv, Types, DecisionStands
<1> QED BY InitInv, NextInv, <1>1, PTL DEF Spec

(* The scheduler runs an occurrence at most once, however old its list of  *)
(* due automations is, whoever marks them meanwhile, and wherever a start  *)
(* fails or the daemon dies, if there is one instance of the store.        *)
THEOREM OccurrencesRunOnce ==
  ASSUME Outside = FALSE
  PROVE  Spec => []OccurrenceOnce
<1>1. Inv => OccurrenceOnce BY DEF Inv, Firing, OccurrenceOnce
<1> QED BY InitInv, NextInv, <1>1, PTL DEF Spec

-----------------------------------------------------------------------------
(* The runs.  This part needs nothing of the store.                        *)

Creating == {"mark", "marking", "event"}
Made(x)  == {"task", "meta", "by"} \subseteq DOMAIN x
Ticks    == {r \in Slot : run[r].task \in Working /\ run[r].by = "tick"}

(* What is created for a starter waits for it, and for nobody else. *)
Launching ==
  /\ DOMAIN start = Starter /\ DOMAIN run = Slot
  /\ \A p \in Starter : start[p].pc \in Creating =>
       /\ {"pc", "run"} \subseteq DOMAIN start[p] /\ start[p].run \in Slot
       /\ run[start[p].run].task = "none" /\ run[start[p].run].by = p /\ Made(run[start[p].run])
  /\ \A r \in Slot : run[r].task \in Working => Made(run[r])

(* The slots of the tick are free. *)
Room ==
  /\ slots \in Nat /\ Cardinality(Ticks) + slots <= MaxConcurrent
  /\ start["tick"].pc # "none" => slots > 0

Runs == Launching /\ OpenUntilDelivered /\ Room

(* One run goes on or ends.                                                *)
LEMMA RunChanges ==
  ASSUME Launching, OpenUntilDelivered, NEW r \in Slot, NEW x,
         run' = [run EXCEPT ![r] = x], start' = start,
         x.task \in Working => run[r].task \in Working /\ Made(x) /\ x.by = run[r].by,
         x.task \in {"turn"} \cup WrapUp => x.meta = "running",
         run[r].task = "none" => x.task = "none" /\ x.by = run[r].by /\ DOMAIN x = DOMAIN run[r]
  PROVE  Launching' /\ OpenUntilDelivered' /\ Ticks' \subseteq Ticks
<1>1. DOMAIN run' = Slot /\ run'[r] = x /\ \A s \in Slot : s # r => run'[s] = run[s]
  BY DEF Launching
<1>2. Launching'
  <2>1. ASSUME NEW p \in Starter, start[p].pc \in Creating
        PROVE  /\ run'[start[p].run].task = "none" /\ run'[start[p].run].by = p
               /\ Made(run'[start[p].run])
    BY <1>1, <2>1 DEF Launching, Made
  <2>2. \A s \in Slot : run'[s].task \in Working => Made(run'[s]) BY <1>1 DEF Launching
  <2> QED BY <1>1, <2>1, <2>2 DEF Launching
<1>3. OpenUntilDelivered' BY <1>1 DEF OpenUntilDelivered
<1>4. Ticks' \subseteq Ticks BY <1>1 DEF Ticks
<1> QED BY <1>2, <1>3, <1>4

(* The bound on the runs of the tick holds where they become fewer.        *)
LEMMA FewerTicks ==
  ASSUME Room, Ticks' \subseteq Ticks, slots' \in Nat, slots' <= slots,
         start'["tick"].pc # "none" => slots' > 0
  PROVE  Room'
<1>1. IsFiniteSet(Ticks)
  BY AutomationsAssumption, FS_Subset DEF AutomationsAssumption, Ticks
<1>2. IsFiniteSet(Ticks') /\ Cardinality(Ticks') <= Cardinality(Ticks) BY <1>1, FS_Subset
<1>3. Cardinality(Ticks) \in Nat /\ Cardinality(Ticks') \in Nat BY <1>1, <1>2, FS_CardinalityType
<1> QED BY <1>2, <1>3, AutomationsAssumption DEF Room, AutomationsAssumption

(* The task of a run, and its cancellation. *)
LEMMA RunStepKeeps ==
  ASSUME Runs, NEW r \in Slot, RunStep(r) \/ Cancel(r)
  PROVE  Runs'
<1>1. Launching /\ OpenUntilDelivered /\ Room /\ start' = start /\ slots' = slots
  BY DEF Runs, RunStep, Begin, TurnEnds, Partial, Report, Cancel, TaskKeeps, tickVars
<1>2. ASSUME NEW x, run' = [run EXCEPT ![r] = x],
             x.task \in Working => run[r].task \in Working /\ Made(x) /\ x.by = run[r].by,
             x.task \in {"turn"} \cup WrapUp => x.meta = "running",
             run[r].task = "none" => x.task = "none" /\ x.by = run[r].by /\ DOMAIN x = DOMAIN run[r]
      PROVE  Runs'
  <2>1. Launching' /\ OpenUntilDelivered' /\ Ticks' \subseteq Ticks BY <1>1, <1>2, RunChanges
  <2>2. Room' BY <1>1, <2>1, FewerTicks DEF Room
  <2> QED BY <2>1, <2>2 DEF Runs
<1>3. ASSUME NEW c, NEW m, run' = [run EXCEPT ![r] = Over(m, c)], run[r].task # "none"
      PROVE  Runs'
  <2>1. Over(m, c).task = "over" BY DEF Over
  <2> QED BY <1>2, <1>3, <2>1 DEF Working, WrapUp
<1>4. run[r].task \in Working => Made(run[r]) BY <1>1 DEF Launching
<1>5. run[r].task \in {"turn"} \cup WrapUp => run[r].meta = "running" BY <1>1 DEF OpenUntilDelivered
<1>6. CASE Begin(r)
  <2> DEFINE x == [run[r] EXCEPT !.task = "turn", !.meta = "running"]
  <2>1. run[r].task = "new" /\ run' = [run EXCEPT ![r] = x] BY <1>6 DEF Begin
  <2>2. x.task = "turn" /\ x.meta = "running" /\ x.by = run[r].by /\ Made(x)
    BY <1>4, <2>1 DEF Working, Made
  <2> HIDE DEF x
  <2> QED BY <1>2, <2>1, <2>2 DEF Working
<1>7. ASSUME NEW state, NEW task \in WrapUp, run[r].task \in {"turn"} \cup WrapUp,
             run' = [run EXCEPT ![r] = [run[r] EXCEPT !.state = state, !.task = task]]
      PROVE  Runs'
  <2> DEFINE x == [run[r] EXCEPT !.state = state, !.task = task]
  <2>1. x.task = task /\ x.meta = "running" /\ x.by = run[r].by /\ Made(x)
    BY <1>4, <1>5, <1>7 DEF Working, Made
  <2> HIDE DEF x
  <2> QED BY <1>2, <1>7, <2>1 DEF Working, WrapUp, x
<1>8. CASE TurnEnds(r)
  <2>1. PICK state \in {"done", "failed"}, summary \in BOOLEAN, cooling \in BOOLEAN :
          run' = [run EXCEPT ![r].state = state,
                    ![r].task = IF (state = "done" /\ summary) \/ cooling THEN "report" ELSE "partial"]
    <3>1. PICK state \in {"done", "failed"}, summary \in BOOLEAN :
            run' = [run EXCEPT ![r].state = state,
                      ![r].task = IF (state = "done" /\ summary) \/ now < cool'[run[r].auto]
                                  THEN "report" ELSE "partial"]
      BY <1>8 DEF TurnEnds
    <3>2. CASE now < cool'[run[r].auto] BY <3>1, <3>2
    <3>3. CASE ~(now < cool'[run[r].auto]) BY <3>1, <3>3
    <3> QED BY <3>2, <3>3
  <2> DEFINE task == IF (state = "done" /\ summary) \/ cooling THEN "report" ELSE "partial"
  <2>2. task \in WrapUp BY DEF WrapUp
  <2>3. run' = [run EXCEPT ![r] = [run[r] EXCEPT !.state = state, !.task = task]] BY <2>1
  <2> HIDE DEF task
  <2> QED BY <1>7, <1>8, <2>2, <2>3 DEF TurnEnds
<1>9. CASE Partial(r)
  <2>1. PICK state : run' = [run EXCEPT ![r] = [run[r] EXCEPT !.state = state, !.task = "report"]]
    BY <1>9 DEF Partial
  <2> QED BY <1>7, <1>9, <2>1 DEF Partial, WrapUp
<1>10. CASE Report(r) BY <1>3, <1>10 DEF Report
<1>11. CASE Cancel(r)
  <2>1. CASE run[r].task = "turn" /\ run' = [run EXCEPT ![r] = [run[r] EXCEPT !.task = "report", !.state = "cancelled"]]
    <3>1. run' = [run EXCEPT ![r] = [run[r] EXCEPT !.state = "cancelled", !.task = "report"]] BY <2>1
    <3> QED BY <1>7, <2>1, <3>1 DEF WrapUp
  <2>2. CASE run[r].task \in {"new"} \cup WrapUp /\ run' = [run EXCEPT ![r] = Over(run[r].meta, TRUE)]
    BY <1>3, <2>2 DEF WrapUp
  <2>3. CASE run[r].task \notin Working /\ run' = [run EXCEPT ![r] = [run[r] EXCEPT !.meta = "cancelled"]]
    <3> DEFINE x == [run[r] EXCEPT !.meta = "cancelled"]
    <3>1. x.task = run[r].task /\ x.by = run[r].by /\ DOMAIN x = DOMAIN run[r] OBVIOUS
    <3> HIDE DEF x
    <3> QED BY <1>2, <2>3, <3>1 DEF x, Working
  <2> QED BY <1>11, <2>1, <2>2, <2>3 DEF Cancel
<1> QED BY <1>6, <1>8, <1>9, <1>10, <1>11 DEF RunStep

(* The starter moves on; the runs stay as they are. *)
LEMMA GoesKeeps ==
  ASSUME Runs, NEW p \in Starter, NEW pc \in {"marking", "event"}, start[p].pc \in Creating, Goes(p, pc),
         UNCHANGED <<run, slots>>
  PROVE  Runs'
<1> DEFINE s == [start[p] EXCEPT !.pc = pc]
<1>1. Launching /\ OpenUntilDelivered /\ Room BY DEF Runs
<1>2. {"pc", "run"} \subseteq DOMAIN start[p] BY <1>1 DEF Launching
<1>3. s.pc = pc /\ s.run = start[p].run /\ DOMAIN s = DOMAIN start[p] BY <1>2
<1>4. start' = [start EXCEPT ![p] = s] BY DEF Goes
<1> HIDE DEF s
<1>5. DOMAIN start' = Starter /\ start'[p] = s /\ \A q \in Starter : q # p => start'[q] = start[q]
  BY <1>1, <1>4 DEF Launching
<1>6. Launching'
  <2>1. ASSUME NEW q \in Starter, start'[q].pc \in Creating
        PROVE  /\ {"pc", "run"} \subseteq DOMAIN start'[q] /\ start'[q].run \in Slot
               /\ run[start'[q].run].task = "none" /\ run[start'[q].run].by = q /\ Made(run[start'[q].run])
    <3>1. start[q].pc \in Creating /\ start'[q].run = start[q].run /\ DOMAIN start'[q] = DOMAIN start[q]
      BY <1>3, <1>5, <2>1
    <3> QED BY <1>1, <3>1 DEF Launching
  <2> QED BY <1>1, <1>5, <2>1 DEF Launching
<1>7. Room'
  <2>1. Ticks' = Ticks BY DEF Ticks
  <2>2. start'["tick"].pc # "none" => start["tick"].pc # "none" BY <1>5 DEF Creating, Starter
  <2> QED BY <1>1, <2>1, <2>2 DEF Room
<1> QED BY <1>1, <1>6, <1>7 DEF Runs, OpenUntilDelivered

(* A starter begins, or gives up, with nothing created. *)
LEMMA BeginsOrEnds ==
  ASSUME Runs, NEW p \in Starter, NEW s, start' = [start EXCEPT ![p] = s], s.pc \notin Creating,
         UNCHANGED run, slots' \in Nat, Cardinality(Ticks) + slots' <= MaxConcurrent,
         p = "tick" /\ s.pc # "none" => slots' > 0, p # "tick" => slots' = slots
  PROVE  Runs'
<1>1. Launching /\ OpenUntilDelivered /\ Room BY DEF Runs
<1>2. DOMAIN start' = Starter /\ start'[p] = s /\ \A q \in Starter : q # p => start'[q] = start[q]
  BY <1>1 DEF Launching
<1>3. Launching' BY <1>1, <1>2 DEF Launching
<1>4. Room'
  <2>1. Ticks' = Ticks BY DEF Ticks
  <2> QED BY <1>1, <1>2, <2>1 DEF Room, Starter
<1> QED BY <1>1, <1>3, <1>4 DEF Runs, OpenUntilDelivered

(* A run is created, in a slot nobody waits for. *)
LEMMA CreateKeeps ==
  ASSUME Runs, NEW p \in Starter, CreateRun(p)
  PROVE  Runs'
<1>1. Launching /\ OpenUntilDelivered /\ Room /\ slots' = slots /\ start[p].pc = "create"
  BY DEF Runs, CreateRun, tickVars
<1>2. PICK r \in Free :
        /\ run' = [run EXCEPT ![r] = [task |-> "none", auto |-> start[p].auto, meta |-> "queued",
                                     state |-> "done", by |-> p]]
        /\ start' = [start EXCEPT ![p] = [pc |-> "mark", auto |-> start[p].auto, next |-> start[p].next,
                                         run |-> r]]
  BY DEF CreateRun
<1>3. /\ r \in Slot /\ run[r].task \notin Working
      /\ \A q \in Starter : start[q].pc \in Creating => start[q].run # r
  BY <1>2 DEF Free, Taken, Creating, Working, WrapUp
<1>4. /\ DOMAIN run' = Slot /\ run'[r].task = "none" /\ run'[r].by = p /\ Made(run'[r])
      /\ \A s \in Slot : s # r => run'[s] = run[s]
  BY <1>1, <1>2, <1>3 DEF Launching, Made
<1>5. /\ DOMAIN start' = Starter /\ start'[p].pc = "mark" /\ start'[p].run = r
      /\ {"pc", "run"} \subseteq DOMAIN start'[p]
      /\ \A q \in Starter : q # p => start'[q] = start[q]
  BY <1>1, <1>2 DEF Launching
<1>6. Launching'
  <2>1. ASSUME NEW q \in Starter, start'[q].pc \in Creating
        PROVE  /\ {"pc", "run"} \subseteq DOMAIN start'[q] /\ start'[q].run \in Slot
               /\ run'[start'[q].run].task = "none" /\ run'[start'[q].run].by = q /\ Made(run'[start'[q].run])
    <3>1. CASE q = p BY <1>3, <1>4, <1>5, <3>1
    <3>2. CASE q # p BY <1>1, <1>3, <1>4, <1>5, <2>1, <3>2 DEF Launching
    <3> QED BY <3>1, <3>2
  <2>2. \A s \in Slot : run'[s].task \in Working => Made(run'[s]) BY <1>1, <1>4 DEF Launching
  <2> QED BY <1>4, <1>5, <2>1, <2>2 DEF Launching
<1>7. OpenUntilDelivered' BY <1>1, <1>4 DEF OpenUntilDelivered, WrapUp
<1>8. Ticks' \subseteq Ticks BY <1>4 DEF Ticks, Working, WrapUp
<1>9. start'["tick"].pc # "none" => start["tick"].pc # "none" BY <1>1, <1>5 DEF Starter
<1>10. Room' BY <1>1, <1>8, <1>9, FewerTicks DEF Room
<1> QED BY <1>6, <1>7, <1>10 DEF Runs

(* Its task is created, and takes a slot of the tick if the tick started it. *)
LEMMA LaunchRunKeeps ==
  ASSUME Runs, NEW p \in Starter, Launch(p)
  PROVE  Runs'
<1> DEFINE r == start[p].run
           x == [run[r] EXCEPT !.task = "new"]
<1>1. /\ Launching /\ OpenUntilDelivered /\ Room /\ start[p].pc = "event"
      /\ run' = [run EXCEPT ![r] = x] /\ start' = [start EXCEPT ![p] = NoStart]
      /\ slots' = IF p = "tick" THEN slots - 1 ELSE slots
  BY DEF Runs, Launch, tickVars
<1>2. r \in Slot /\ run[r].task = "none" /\ run[r].by = p /\ Made(run[r])
  BY <1>1 DEF Launching, Creating
<1>3. x.task = "new" /\ x.by = p /\ Made(x) BY <1>2 DEF Made
<1> HIDE DEF x
<1>4. DOMAIN run' = Slot /\ run'[r] = x /\ \A s \in Slot : s # r => run'[s] = run[s]
  BY <1>1, <1>2 DEF Launching
<1>5. DOMAIN start' = Starter /\ start'[p].pc = "none" /\ \A q \in Starter : q # p => start'[q] = start[q]
  BY <1>1 DEF Launching, NoStart
<1>6. Launching'
  <2>1. ASSUME NEW q \in Starter, start'[q].pc \in Creating
        PROVE  /\ {"pc", "run"} \subseteq DOMAIN start'[q] /\ start'[q].run \in Slot
               /\ run'[start'[q].run].task = "none" /\ run'[start'[q].run].by = q /\ Made(run'[start'[q].run])
    <3>1. q # p /\ start'[q] = start[q] BY <1>5, <2>1 DEF Creating
    <3>2. start[q].run \in Slot /\ run[start[q].run].by = q BY <1>1, <2>1, <3>1 DEF Launching
    <3>3. start[q].run # r BY <1>2, <3>1, <3>2
    <3> QED BY <1>1, <1>4, <2>1, <3>1, <3>3 DEF Launching
  <2>2. \A s \in Slot : run'[s].task \in Working => Made(run'[s]) BY <1>1, <1>3, <1>4 DEF Launching
  <2> QED BY <1>4, <1>5, <2>1, <2>2 DEF Launching
<1>7. OpenUntilDelivered' BY <1>1, <1>3, <1>4 DEF OpenUntilDelivered, WrapUp
<1>8. Room'
  <2>1. CASE p = "tick"
    <3>1. Ticks' \subseteq Ticks \cup {r} BY <1>4 DEF Ticks
    <3>2. IsFiniteSet(Ticks) BY AutomationsAssumption, FS_Subset DEF AutomationsAssumption, Ticks
    <3>3. IsFiniteSet(Ticks \cup {r}) /\ Cardinality(Ticks \cup {r}) <= Cardinality(Ticks) + 1
      <4>1. Cardinality(Ticks) \in Nat BY <3>2, FS_CardinalityType
      <4> QED BY <3>2, <4>1, FS_AddElement
    <3>4. Cardinality(Ticks') <= Cardinality(Ticks \cup {r}) BY <3>1, <3>3, FS_Subset
    <3>5. Cardinality(Ticks) \in Nat /\ Cardinality(Ticks \cup {r}) \in Nat /\ Cardinality(Ticks') \in Nat
      BY <3>1, <3>2, <3>3, FS_Subset, FS_CardinalityType
    <3>6. slots \in Nat /\ slots > 0 BY <1>1, <2>1 DEF Room
    <3>7. slots' \in Nat /\ slots' = slots - 1 BY <1>1, <2>1, <3>6
    <3>8. MaxConcurrent \in Nat BY AutomationsAssumption DEF AutomationsAssumption
    <3>9. Cardinality(Ticks) + slots <= MaxConcurrent BY <1>1 DEF Room
    <3>10. Cardinality(Ticks') + slots' <= MaxConcurrent BY <3>3, <3>4, <3>5, <3>6, <3>7, <3>8, <3>9
    <3> QED BY <1>5, <2>1, <3>7, <3>10 DEF Room
  <2>2. CASE p # "tick"
    <3>1. Ticks' \subseteq Ticks BY <1>3, <1>4, <2>2 DEF Ticks
    <3>2. start'["tick"].pc # "none" => start["tick"].pc # "none" BY <1>5, <2>2 DEF Starter
    <3> QED BY <1>1, <2>2, <3>1, <3>2, FewerTicks DEF Room
  <2> QED BY <2>1, <2>2
<1> QED BY <1>6, <1>7, <1>8 DEF Runs

(* A tick counts the slots that the runs of all starters leave. *)
LEMMA TickBeginsKeeps ==
  ASSUME Runs, TickBegins
  PROVE  Runs'
<1>1. /\ Launching /\ OpenUntilDelivered /\ Room /\ UNCHANGED <<run, start>>
      /\ Cardinality(Active) < MaxConcurrent /\ slots' = MaxConcurrent - Cardinality(Active)
  BY DEF Runs, TickBegins
<1>2. IsFiniteSet(Active) BY AutomationsAssumption, FS_Subset DEF AutomationsAssumption, Active
<1>3. Ticks \subseteq Active BY DEF Ticks, Active
<1>4. /\ Cardinality(Ticks) <= Cardinality(Active)
      /\ Cardinality(Ticks) \in Nat /\ Cardinality(Active) \in Nat
  BY <1>2, <1>3, FS_Subset, FS_CardinalityType
<1>5. MaxConcurrent \in Nat BY AutomationsAssumption DEF AutomationsAssumption
<1>6. slots' \in Nat /\ slots' > 0 /\ Cardinality(Ticks) + slots' <= MaxConcurrent
  BY <1>1, <1>4, <1>5
<1>7. Ticks' = Ticks BY <1>1 DEF Ticks
<1>8. Room' BY <1>6, <1>7 DEF Room
<1> QED BY <1>1, <1>8 DEF Runs, Launching, OpenUntilDelivered

(* The daemon dies: no run is at work. *)
LEMMA CrashKeeps ==
  ASSUME Runs, Crash
  PROVE  Runs'
<1>1. /\ Launching /\ Room /\ slots' = 0
      /\ start' = [p \in Starter |-> NoStart]
      /\ run' = [r \in Slot |-> IF run[r].task \in Working THEN Over(run[r].meta, TRUE) ELSE run[r]]
  BY DEF Runs, Crash
<1>2. \A r \in Slot : run'[r].task \notin Working BY <1>1 DEF Over, Working, WrapUp
<1>3. Launching' BY <1>1, <1>2 DEF Launching, NoStart, Creating
<1>4. OpenUntilDelivered' BY <1>2 DEF OpenUntilDelivered, Working
<1>5. Ticks' = {} BY <1>2 DEF Ticks
<1>6. start'["tick"].pc = "none" BY <1>1 DEF Starter, NoStart
<1>7. Room' BY <1>1, <1>5, <1>6, FewerTicks DEF Room
<1> QED BY <1>3, <1>4, <1>7 DEF Runs

(* Initially there is no run. *)
LEMMA InitRuns == Init => Runs
<1> SUFFICES ASSUME Init PROVE Runs
  OBVIOUS
<1> USE DEF Init
<1>1. Launching BY DEF Launching, NoStart, NoRun, Creating, Working, WrapUp
<1>2. OpenUntilDelivered BY DEF OpenUntilDelivered, NoRun, WrapUp
<1>3. Ticks = {} BY DEF Ticks, NoRun, Working, WrapUp
<1>4. Cardinality(Ticks) = 0 BY <1>3, FS_EmptySet
<1>5. start["tick"].pc = "none" BY DEF Starter, NoStart
<1>6. Room BY <1>4, <1>5, AutomationsAssumption DEF Room, AutomationsAssumption
<1> QED BY <1>1, <1>2, <1>6 DEF Runs

(* Every step keeps what is said of the runs. *)
LEMMA NextRuns == Runs /\ [Next]_vars => Runs'
<1> SUFFICES ASSUME Runs, [Next]_vars PROVE Runs'
  OBVIOUS
<1>1. Launching /\ Room /\ DOMAIN start = Starter BY DEF Runs, Launching
<1>2. /\ Cardinality(Ticks) \in Nat /\ slots \in Nat /\ Cardinality(Ticks) + slots <= MaxConcurrent
      /\ MaxConcurrent \in Nat
  <2>1. IsFiniteSet(Ticks) BY AutomationsAssumption, FS_Subset DEF AutomationsAssumption, Ticks
  <2> QED BY <1>1, <2>1, FS_CardinalityType, AutomationsAssumption DEF Room, AutomationsAssumption
<1>3. CASE UNCHANGED <<run, start, slots>>
  <2>1. Ticks' = Ticks BY <1>3 DEF Ticks
  <2> QED BY <1>3, <2>1 DEF Runs, Launching, OpenUntilDelivered, Room
<1>4. CASE \/ TimePasses \/ TickLists \/ ClientWrites \/ UNCHANGED vars
           \/ \E a \in Automation : ClientReads(a) \/ Create(a) \/ Delete(a)
  BY <1>3, <1>4 DEF TimePasses, TickLists, ClientWrites, vars, ClientReads, Create, Delete, tickVars
<1>5. CASE TickTakes
  <2>1. slots > 0 /\ UNCHANGED <<run, slots>> BY <1>5 DEF TickTakes
  <2>2. PICK d \in due : start' = IF Cooling(d.auto) THEN start
                   ELSE [start EXCEPT !["tick"] = [pc |-> "create", auto |-> d.auto, next |-> d.next]]
    BY <1>5 DEF TickTakes
  <2>3. CASE start' = start BY <1>3, <2>1, <2>3
  <2>4. CASE start' = [start EXCEPT !["tick"] = [pc |-> "create", auto |-> d.auto, next |-> d.next]]
    BY <1>2, <2>1, <2>4, BeginsOrEnds DEF Starter, Creating
  <2> QED BY <2>2, <2>3, <2>4
<1>6. CASE TickEnds
  <2>1. start["tick"].pc = "none" /\ UNCHANGED <<run, start>> /\ slots' = 0 BY <1>6 DEF TickEnds
  <2>2. Ticks' = Ticks BY <2>1 DEF Ticks
  <2>3. Room' BY <1>2, <2>1, <2>2 DEF Room
  <2> QED BY <2>1, <2>3 DEF Runs, Launching, OpenUntilDelivered
<1>7. CASE \E a \in Automation : RunNow(a)
  <2>1. PICK a \in Automation :
          start' = [start EXCEPT !["request"] = [pc |-> "create", auto |-> a, next |-> record[a].next]]
    BY <1>7 DEF RunNow
  <2>2. UNCHANGED <<run, slots>> BY <1>7 DEF RunNow, tickVars
  <2> QED BY <1>2, <2>1, <2>2, BeginsOrEnds DEF Starter, Creating
<1>8. CASE \E p \in Starter : MarkReads(p) \/ MarkWrites(p) \/ MarkMisses(p)
  <2>1. PICK p \in Starter, pc \in {"marking", "event"} : start[p].pc \in Creating /\ Goes(p, pc)
    BY <1>8 DEF MarkReads, MarkWrites, MarkMisses, Creating
  <2>2. UNCHANGED <<run, slots>> BY <1>8 DEF MarkReads, MarkWrites, MarkMisses, tickVars
  <2> QED BY <2>1, <2>2, GoesKeeps
<1>9. CASE \E p \in Starter : StartFails(p)
  <2>1. PICK p \in Starter : start' = [start EXCEPT ![p] = NoStart] BY <1>9 DEF StartFails
  <2>2. UNCHANGED <<run, slots>> BY <1>9 DEF StartFails, tickVars
  <2> QED BY <1>2, <2>1, <2>2, BeginsOrEnds DEF NoStart, Creating
<1> QED
  BY <1>4, <1>5, <1>6, <1>7, <1>8, <1>9, CreateKeeps, LaunchRunKeeps, RunStepKeeps, TickBeginsKeeps, CrashKeeps
  DEF Next, StartStep, TickStep

(* The scheduler keeps to max_concurrent_runs by itself (_automation_loop  *)
(* counts the active runs once, before it starts the first), for any       *)
(* limit, whatever requests, fails, is cancelled or crashes.               *)
THEOREM SchedulerKeepsLimit == Spec => []SchedulerWithinLimit
<1>1. Runs => SchedulerWithinLimit
  <2> SUFFICES ASSUME Runs PROVE SchedulerWithinLimit
    OBVIOUS
  <2>1. IsFiniteSet(Ticks) BY AutomationsAssumption, FS_Subset DEF AutomationsAssumption, Ticks
  <2>2. Cardinality(Ticks) \in Nat /\ MaxConcurrent \in Nat
    BY <2>1, FS_CardinalityType, AutomationsAssumption DEF AutomationsAssumption
  <2>3. Cardinality(Ticks) <= MaxConcurrent BY <2>2 DEF Runs, Room
  <2> QED BY <2>3 DEF SchedulerWithinLimit, Ticks
<1> QED BY InitRuns, NextRuns, <1>1, PTL DEF Spec

(* While a scheduled run is at work, down to its report and delivery, its  *)
(* record does not say that it is over (hold_final_state in daemon.py).    *)
THEOREM StaysOpen == Spec => []OpenUntilDelivered
<1>1. Runs => OpenUntilDelivered BY DEF Runs
<1> QED BY InitRuns, NextRuns, <1>1, PTL DEF Spec
=============================================================================
