-------------------------- MODULE AgentTurnProofs --------------------------
(***************************************************************************)
(* Theorems about AgentTurn for any batches, limits, providers and bounds, *)
(* with ids that are fresh or not: types, EffectsSaved, ResultsTell,       *)
(* SteeringKept and Paired; with fresh ids, PromptBounded.                 *)
(*                                                                         *)
(* A session is saved in pieces: session.json, the checkpoints on their    *)
(* way, and the session object of the turn.  The invariant orders them: of *)
(* any two, the log of the older is a prefix of the other's, and steering  *)
(* that the older has, the other has as well.  So what is true of the file *)
(* a crash would leave stays true of everything that can replace it.       *)
(* Around that it says what each log may hold (a call carries the place of *)
(* its request, a result is true and of an earlier call, a note stands     *)
(* once), and that the calls of the batch at work were saved before any of *)
(* them is executed.                                                       *)
(*                                                                         *)
(* Paired has an invariant of its own, Pairs: in every session, saved or   *)
(* not, a request is followed by the results of its calls unless it is the *)
(* last message, and the place of the turn says whether it may be.         *)
(***************************************************************************)
EXTENDS AgentTurn, FiniteSetTheorems, SequenceTheorems, TLAPS

-----------------------------------------------------------------------------
(* Lists: sequences, whatever their elements are.                          *)

(* A sequence of whatever is in it. *)
Listed(s) == s \in Seq({s[i] : i \in DOMAIN s})

(* A sequence over any set is a list. *)
LEMMA ListedIn == ASSUME NEW S, NEW s \in Seq(S) PROVE Listed(s)
  BY DEF Listed

(* The domain of a list. *)
LEMMA ListFacts ==
  ASSUME NEW s, Listed(s)
  PROVE  Len(s) \in Nat /\ DOMAIN s = 1..Len(s)
  BY DEF Listed

(* The empty list. *)
LEMMA EmptyListed == Listed(<<>>)
  BY DEF Listed

(* A list with one more element. *)
LEMMA ListedAppend ==
  ASSUME NEW s, Listed(s), NEW e
  PROVE  /\ Listed(Append(s, e)) /\ Len(Append(s, e)) = Len(s) + 1
         /\ \A i \in 1..Len(s) : Append(s, e)[i] = s[i]
         /\ Append(s, e)[Len(s) + 1] = e
  <1> DEFINE S == {s[i] : i \in DOMAIN s} \cup {e}
  <1>1. s \in Seq(S) /\ e \in S
    BY DEF Listed
  <1> HIDE DEF S
  <1>2. Append(s, e) \in Seq(S)
    BY <1>1
  <1>3. Listed(Append(s, e))
    BY <1>2, ListedIn
  <1> QED
    BY <1>1, <1>3

(* Two lists, one after the other. *)
LEMMA ListedConcat ==
  ASSUME NEW s, Listed(s), NEW t, Listed(t)
  PROVE  /\ Listed(s \o t) /\ Len(s \o t) = Len(s) + Len(t)
         /\ \A i \in 1..Len(s) : (s \o t)[i] = s[i]
         /\ \A i \in 1..Len(t) : (s \o t)[Len(s) + i] = t[i]
  <1> DEFINE S == {s[i] : i \in DOMAIN s} \cup {t[i] : i \in DOMAIN t}
  <1>1. s \in Seq(S) /\ t \in Seq(S)
    BY DEF Listed
  <1> HIDE DEF S
  <1>2. s \o t \in Seq(S)
    BY <1>1
  <1>3. Listed(s \o t)
    BY <1>2, ListedIn
  <1> QED
    BY <1>1, <1>3

(* A list of one element. *)
LEMMA ListedSingle ==
  ASSUME NEW e
  PROVE  Listed(<<e>>) /\ Len(<<e>>) = 1 /\ <<e>>[1] = e
  BY DEF Listed

(* A list without its first element. *)
LEMMA ListedTail ==
  ASSUME NEW s, Listed(s), s # <<>>
  PROVE  /\ Listed(Tail(s)) /\ Len(Tail(s)) = Len(s) - 1 /\ Len(s) > 0
         /\ \A i \in 1..(Len(s) - 1) : Tail(s)[i] = s[i + 1]
         /\ Head(s) = s[1]
  <1> DEFINE S == {s[i] : i \in DOMAIN s}
  <1>1. s \in Seq(S)
    BY DEF Listed
  <1> HIDE DEF S
  <1>2. Tail(s) \in Seq(S)
    BY <1>1
  <1>3. Listed(Tail(s))
    BY <1>2, ListedIn
  <1>4. Len(s) \in Nat /\ Len(s) > 0
    BY <1>1
  <1> QED
    BY <1>1, <1>3, <1>4
-----------------------------------------------------------------------------
(* Messages, logs and sessions.                                            *)

(* The four kinds of messages differ in type. *)
LEMMA MessageFacts ==
  /\ \A n : User(n).type = "user" /\ User(n).note = n
  /\ Text.type = "text"
  /\ \A c : Request(c).type = "calls" /\ Request(c).calls = c
  /\ \A a : Results(a).type = "results" /\ Results(a).answers = a
  BY DEF User, Text, Request, Results

(* A message of steering is no other message, and tells its note. *)
LEMMA UserFacts ==
  /\ \A n, m : User(n) = User(m) => n = m
  /\ \A n, c : User(n) # Request(c)
  /\ \A n, a : User(n) # Results(a)
  /\ \A n : User(n) # Text
  BY MessageFacts

(* A call of a request before place i. *)
Earlier(n, i) == n[1] \in 1..(i - 1)

(* What a message at place i may say when R are the calls executed: a
   request numbers its calls by its place, a result is true of its call, and
   of an earlier one. *)
Good(m, i, R) ==
  /\ m.type \in {"user", "text", "calls", "results"}
  /\ m.type = "calls" => \A k \in DOMAIN m.calls : m.calls[k].n = <<i, k>>
  /\ m.type = "results" =>
       \A k \in DOMAIN m.answers :
         /\ m.answers[k].says = "no" => m.answers[k].n \notin R
         /\ m.answers[k].says = "ran" => m.answers[k].n \in R
         /\ m.answers[k].says \in {"no", "ran"} => Earlier(m.answers[k].n, i)

(* A log of such messages. *)
GoodLog(L, R) == Listed(L) /\ \A i \in DOMAIN L : Good(L[i], i, R)

(* Every steering request has a note of its own. *)
Notes == Nat \ {0}

(* No note stands twice in a session. *)
Once(s) ==
  /\ \A i, j \in DOMAIN s.steering : s.steering[i] = s.steering[j] => i = j
  /\ \A note \in Notes : \A i, j \in DOMAIN s.log :
       s.log[i] = User(note) /\ s.log[j] = User(note) => i = j
  /\ \A i \in DOMAIN s.steering, j \in DOMAIN s.log : s.log[j] # User(s.steering[i])

(* The notes of a session are of the first u control requests. *)
Upto(s, u) ==
  /\ Listed(s.steering) /\ \A i \in DOMAIN s.steering : s.steering[i] \in 1..u
  /\ \A i \in DOMAIN s.log, note \in Notes : s.log[i] = User(note) => note <= u

(* A sound session. *)
Fine(s, R, u) ==
  /\ DOMAIN s = DOMAIN Empty /\ GoodLog(s.log, R) /\ Once(s) /\ Upto(s, u)
  /\ s.cut \in 0..Len(s.log) /\ s.mode \in {"default", "plan"}

(* L is a prefix of M. *)
Pre(L, M) == Len(L) <= Len(M) /\ \A i \in 1..Len(L) : M[i] = L[i]

(* A session has a note, waiting or as a message. *)
Given(s, note) ==
  \/ \E i \in DOMAIN s.steering : s.steering[i] = note
  \/ \E i \in DOMAIN s.log : s.log[i] = User(note)

(* Session t has all that s has. *)
Under(s, t) == Pre(s.log, t.log) /\ \A note \in Notes : Given(s, note) => Given(t, note)

(* The log and the steering of a sound session are lists. *)
LEMMA FineLists ==
  ASSUME NEW s, NEW R, NEW u, Fine(s, R, u)
  PROVE  Listed(s.log) /\ Listed(s.steering)
  BY DEF Fine, GoodLog, Upto

(* A session is under itself, *)
LEMMA UnderReflexive ==
  ASSUME NEW s, Listed(s.log)
  PROVE  Under(s, s)
  BY ListFacts DEF Under, Pre

(* and Under is transitive. *)
LEMMA UnderTransitive ==
  ASSUME NEW r, NEW s, NEW t, Listed(r.log), Listed(s.log), Listed(t.log), Under(r, s), Under(s, t)
  PROVE  Under(r, t)
  BY ListFacts DEF Under, Pre

(* A new session is sound. *)
LEMMA FineEmpty == ASSUME NEW R, NEW u PROVE Fine(Empty, R, u)
  BY EmptyListed DEF Fine, GoodLog, Once, Upto, Empty

(* A message that is no steering. *)
LEMMA AddFine ==
  ASSUME NEW s, NEW R, NEW u \in Nat, Fine(s, R, u), NEW m, Good(m, Len(s.log) + 1, R),
         \A note \in Notes : m # User(note)
  PROVE  /\ Fine(Add(s, <<m>>), R, u) /\ Under(s, Add(s, <<m>>))
         /\ Len(Add(s, <<m>>).log) = Len(s.log) + 1 /\ Add(s, <<m>>).log[Len(s.log) + 1] = m
         /\ \A i \in 1..Len(s.log) : Add(s, <<m>>).log[i] = s.log[i]
  <1> DEFINE t == Add(s, <<m>>)
  <1> DEFINE n == Len(s.log)
  <1>1. /\ DOMAIN t = DOMAIN Empty /\ t.log = s.log \o <<m>> /\ t.steering = s.steering
        /\ t.cut = s.cut /\ t.mode = s.mode
    BY DEF Fine, Add, Empty
  <1>2. /\ Listed(s.log) /\ Listed(s.steering) /\ n \in Nat /\ DOMAIN s.log = 1..n
        /\ DOMAIN s.steering = 1..Len(s.steering)
    BY FineLists, ListFacts
  <1> HIDE DEF t
  <1>3. /\ Listed(t.log) /\ Len(t.log) = n + 1 /\ t.log[n + 1] = m
        /\ \A i \in 1..n : t.log[i] = s.log[i]
    <2>1. Listed(<<m>>) /\ Len(<<m>>) = 1 /\ <<m>>[1] = m
      BY ListedSingle
    <2> QED
      BY SMTT(60), <1>1, <1>2, <2>1, ListedConcat DEF n
  <1>4. DOMAIN t.log = 1..(n + 1)
    BY <1>3, ListFacts
  <1> HIDE DEF n
  <1>5. GoodLog(t.log, R)
    <2>1. Good(m, n + 1, R)
      BY DEF n
    <2>2. \A i \in 1..n : Good(s.log[i], i, R)
      BY <1>2 DEF Fine, GoodLog
    <2>3. SUFFICES ASSUME NEW i \in 1..(n + 1) PROVE Good(t.log[i], i, R)
      BY <1>3, <1>4 DEF GoodLog
    <2>4. CASE i = n + 1
      BY <2>1, <2>4, <1>3
    <2>5. CASE i \in 1..n
      BY <2>2, <2>5, <1>3
    <2> QED
      BY <2>4, <2>5, <1>2
  <1>6. \A i \in DOMAIN t.log, note \in Notes : t.log[i] = User(note) => i \in 1..n /\ s.log[i] = User(note)
    BY <1>2, <1>3, <1>4
  <1>7. Upto(t, u)
    BY <1>1, <1>2, <1>6 DEF Fine, Upto
  <1>9. Once(t)
    <2>1. \A i \in DOMAIN s.steering : s.steering[i] \in Notes
      BY DEF Fine, Upto, Notes
    <2>2. Once(s)
      BY DEF Fine
    <2> QED
      BY SMTT(60), <1>1, <1>2, <1>6, <2>1, <2>2 DEF Once
  <1>8. Under(s, t)
    BY <1>1, <1>2, <1>3, <1>4 DEF Under, Pre, Given
  <1> QED
    BY <1>1, <1>2, <1>3, <1>5, <1>7, <1>8, <1>9 DEF Fine, t, n

(* A set of numbers that is not empty has a first member. *)
LEMMA FirstIn ==
  ASSUME NEW is, is \subseteq Nat, is # {}
  PROVE  First(is) \in is /\ \A j \in is : First(is) <= j
  <1> DEFINE R == OpToRel(<, Nat)
  <1>1. IsWellFoundedOn(R, Nat)
    BY NatLessThanWellFounded, Zenon
  <1>2. \A i, j \in Nat : i < j => <<i, j>> \in R
    BY Zenon DEF OpToRel
  <1> HIDE DEF R
  <1>3. PICK i \in is : \A j \in is : ~(<<j, i>> \in R)
    BY <1>1, WFMin
  <1>4. ASSUME NEW j \in is PROVE i <= j
    <2>1. i \in Nat /\ j \in Nat /\ <<j, i>> \notin R
      BY <1>3
    <2>2. ~(j < i)
      BY <1>2, <2>1
    <2> QED
      BY <2>1, <2>2
  <1> QED
    BY <1>4 DEF First

(* Compaction keeps the log, and the cut stays within it. *)
LEMMA CompactedFine ==
  ASSUME NEW s, NEW R, NEW u \in Nat, Fine(s, R, u)
  PROVE  Fine(Compacted(s), R, u) /\ Under(s, Compacted(s))
  <1> DEFINE ms == Messages(s)
  <1> DEFINE cut == Len(ms) - (IF KeepLast > 1 THEN KeepLast ELSE 1)
  <1> DEFINE kept == AnswersIn(SubSeq(ms, cut + 1, Len(ms)))
  <1> DEFINE Needs == {i \in 1..cut : ms[i].type = "calls" /\ Ids(ms[i].calls) \cap kept # {}}
  <1> DEFINE n == Len(s.log)
  <1>1. \A c : LET t == [s EXCEPT !.cut = c]
               IN DOMAIN t = DOMAIN Empty /\ t.log = s.log /\ t.steering = s.steering /\ t.mode = s.mode /\ t.cut = c
    BY DEF Fine, Empty
  <1>2. Listed(s.log) /\ n \in Nat /\ s.cut \in 0..n /\ KeepLast \in Nat
    BY FineLists, ListFacts, AgentTurnAssumption DEF Fine
  <1>3. Len(ms) = n - s.cut
    <2> DEFINE S == {s.log[i] : i \in DOMAIN s.log}
    <2>1. \A i \in (s.cut + 1)..n : s.log[i] \in S
      BY <1>2, ListFacts
    <2> HIDE DEF S
    <2>2. Len(SubSeq(s.log, s.cut + 1, n)) = IF s.cut + 1 <= n THEN n - (s.cut + 1) + 1 ELSE 0
      BY <1>2, <2>1, SubSeqProperties
    <2> QED
      BY <1>2, <2>2 DEF Messages
  <1> HIDE DEF n, ms, kept
  <1> DEFINE keep == IF KeepLast > 1 THEN KeepLast ELSE 1
  <1>k. keep \in Nat /\ (Len(ms) > KeepLast => keep <= Len(ms))
    BY <1>2, <1>3
  <1> HIDE DEF keep
  <1>4. cut \in Int /\ cut <= n - s.cut /\ (Len(ms) > KeepLast => cut >= 0)
    BY <1>2, <1>3, <1>k DEF keep
  <1> HIDE DEF cut
  <1>5. /\ Needs = {} \/ First(Needs) \in Needs
        /\ Needs \subseteq 1..cut
    <2>1. Needs \subseteq 1..cut /\ Needs \subseteq Nat
      OBVIOUS
    <2> HIDE DEF Needs
    <2> QED
      BY <2>1, FirstIn
  <1> HIDE DEF Needs
  <1>6. \/ Compacted(s) = s
        \/ Len(ms) > KeepLast /\ Compacted(s) = [s EXCEPT !.cut = @ + cut]
        \/ Needs # {} /\ Compacted(s) = [s EXCEPT !.cut = @ + First(Needs) - 1]
    <2> DEFINE back == [s EXCEPT !.cut = @ + First(Needs) - 1]
    <2>1. Compacted(s) = CASE Len(ms) <= KeepLast -> s
                           [] Len(ms) > KeepLast /\ Needs = {} -> [s EXCEPT !.cut = @ + cut]
                           [] OTHER -> back
      BY Zenon DEF Compacted, ms, cut, kept, Needs, First
    <2>2. Len(ms) <= KeepLast <=> ~(Len(ms) > KeepLast)
      BY <1>2, <1>3
    <2> HIDE DEF back
    <2>3. \/ Compacted(s) = s
          \/ Len(ms) > KeepLast /\ Compacted(s) = [s EXCEPT !.cut = @ + cut]
          \/ Needs # {} /\ Compacted(s) = back
      <3>1. CASE Len(ms) <= KeepLast
        BY <2>1, <2>2, <3>1, Zenon
      <3>2. CASE Len(ms) > KeepLast /\ Needs = {}
        BY <2>1, <2>2, <3>2, Zenon
      <3>3. CASE Len(ms) > KeepLast /\ Needs # {}
        BY <2>1, <2>2, <3>3, Zenon
      <3> QED
        BY <2>2, <3>1, <3>2, <3>3, Zenon
    <2> QED
      BY <2>3, Zenon DEF back
  <1> DEFINE t == Compacted(s)
  <1>7. /\ DOMAIN t = DOMAIN Empty /\ t.log = s.log /\ t.steering = s.steering /\ t.mode = s.mode
        /\ t.cut \in 0..n
    <2>1. CASE t = s
      BY <1>2, <2>1 DEF Fine
    <2>2. CASE Len(ms) > KeepLast /\ t = [s EXCEPT !.cut = @ + cut]
      BY <1>1, <1>2, <1>4, <2>2
    <2>3. CASE Needs # {} /\ t = [s EXCEPT !.cut = @ + First(Needs) - 1]
      <3>1. PICK f : f = First(Needs)
        OBVIOUS
      <3>2. f \in 1..cut
        BY <1>5, <2>3, <3>1
      <3> QED
        BY <1>1, <1>2, <1>4, <2>3, <3>1, <3>2
    <2> QED
      BY <1>6, <2>1, <2>2, <2>3
  <1> HIDE DEF t
  <1>8. Fine(t, R, u) /\ Under(s, t)
    BY <1>2, <1>7, ListFacts DEF Fine, Once, Upto, Under, Pre, Given, n
  <1> QED
    BY <1>8 DEF t

(* Recovery adds answers of an unknown outcome, and no others. *)
LEMMA RecoveredFine ==
  ASSUME NEW s, NEW R, NEW u \in Nat, Fine(s, R, u)
  PROVE  Fine(Recovered(s), R, u) /\ Under(s, Recovered(s))
  <1> DEFINE open == Interrupted(Messages(s))
  <1> DEFINE m == Results([i \in 1..Len(open) |-> [n |-> open[i].n, id |-> open[i].id, says |-> "unknown"]])
  <1>1. CASE open = <<>>
    BY <1>1, UnderReflexive, FineLists DEF Recovered
  <1>2. CASE open # <<>>
    <2>1. Good(m, Len(s.log) + 1, R)
      <3>1. PICK as : as = [i \in 1..Len(open) |-> [n |-> open[i].n, id |-> open[i].id, says |-> "unknown"]]
        OBVIOUS
      <3>2. \A k \in DOMAIN as : as[k].says = "unknown"
        BY <3>1
      <3>3. m.type = "results" /\ m.answers = as
        BY <3>1, MessageFacts
      <3> HIDE DEF m
      <3> QED
        BY <3>2, <3>3 DEF Good
    <2>2. \A note \in Notes : m # User(note)
      BY UserFacts
    <2>3. Recovered(s) = Add(s, <<m>>)
      BY <1>2 DEF Recovered
    <2> HIDE DEF m
    <2> QED
      BY <2>1, <2>2, <2>3, AddFine
  <1> QED
    BY <1>1, <1>2

(* The session a turn begins with has what the one it was given has. *)
LEMMA OpeningFine ==
  ASSUME NEW s, NEW R, NEW u \in Nat, Fine(s, R, u)
  PROVE  Fine(Opening(s), R, u) /\ Under(s, Opening(s))
  <1>1. PICK r : r = Recovered(s)
    OBVIOUS
  <1>2. Fine(r, R, u) /\ Under(s, r)
    BY <1>1, RecoveredFine
  <1>3. Good(User(0), Len(r.log) + 1, R)
    BY MessageFacts DEF Good
  <1>4. \A note \in Notes : User(0) # User(note)
    BY UserFacts DEF Notes
  <1>5. Fine(Add(r, <<User(0)>>), R, u) /\ Under(r, Add(r, <<User(0)>>))
    BY <1>2, <1>3, <1>4, AddFine
  <1>6. Under(s, Add(r, <<User(0)>>))
    BY <1>2, <1>5, UnderTransitive, FineLists
  <1> QED
    BY <1>1, <1>5, <1>6 DEF Opening

(* Consuming the steering: a note leaves it as it enters the log. *)
LEMMA SteeredFine ==
  ASSUME NEW s, NEW R, NEW u \in Nat, Fine(s, R, u)
  PROVE  Fine(Steered(s), R, u) /\ Under(s, Steered(s))
  <1> DEFINE t == Steered(s)
  <1> DEFINE n == Len(s.log)
  <1> DEFINE k == Len(s.steering)
  <1> DEFINE ms == [i \in 1..k |-> User(s.steering[i])]
  <1>1. /\ DOMAIN t = DOMAIN Empty /\ t.log = s.log \o ms /\ t.steering = <<>>
        /\ t.cut = s.cut /\ t.mode = s.mode
    BY DEF Fine, Steered, Add, Empty
  <1>2. /\ Listed(s.log) /\ Listed(s.steering) /\ n \in Nat /\ DOMAIN s.log = 1..n
        /\ k \in Nat /\ DOMAIN s.steering = 1..k
    BY FineLists, ListFacts
  <1> HIDE DEF n, k
  <1>3. Listed(ms) /\ Len(ms) = k /\ \A i \in 1..k : ms[i] = User(s.steering[i])
    <2>1. ms \in Seq({User(s.steering[i]) : i \in 1..k})
      <3>1. ms \in [1..k -> {User(s.steering[i]) : i \in 1..k}]
        OBVIOUS
      <3> HIDE DEF ms
      <3> QED
        BY <1>2, <3>1, SeqDef
    <2>2. Listed(ms)
      BY <2>1, ListedIn
    <2> QED
      BY <1>2, <2>2
  <1> HIDE DEF t, ms
  <1>4. /\ Listed(t.log) /\ Len(t.log) = n + k
        /\ \A i \in 1..n : t.log[i] = s.log[i]
        /\ \A i \in 1..k : t.log[n + i] = User(s.steering[i])
    <2> DEFINE c == s.log \o ms
    <2>1. /\ Listed(c) /\ Len(c) = n + k
          /\ \A i \in 1..n : c[i] = s.log[i]
          /\ \A i \in 1..k : c[n + i] = ms[i]
      <3>1. n = Len(s.log)
        BY DEF n
      <3>2. /\ Listed(c) /\ Len(c) = Len(s.log) + Len(ms)
            /\ \A i \in 1..Len(s.log) : c[i] = s.log[i]
            /\ \A i \in 1..Len(ms) : c[Len(s.log) + i] = ms[i]
        <4>1. PICK a, b : a = s.log /\ b = ms
          OBVIOUS
        <4>2. Listed(a) /\ Listed(b)
          BY <1>2, <1>3, <4>1
        <4>3. /\ Listed(a \o b) /\ Len(a \o b) = Len(a) + Len(b)
              /\ \A i \in 1..Len(a) : (a \o b)[i] = a[i]
              /\ \A i \in 1..Len(b) : (a \o b)[Len(a) + i] = b[i]
          BY <4>2, ListedConcat
        <4> QED
          BY <4>1, <4>3
      <3> HIDE DEF c
      <3> QED
        BY <3>1, <3>2, <1>3
    <2> HIDE DEF c
    <2>2. t.log = c
      BY <1>1 DEF c
    <2> QED
      BY <1>3, <2>1, <2>2
  <1>5. DOMAIN t.log = 1..(n + k) /\ DOMAIN t.steering = {}
    <2>1. DOMAIN t.log = 1..(n + k)
      BY <1>4, ListFacts
    <2>2. DOMAIN <<>> = {}
      OBVIOUS
    <2> QED
      BY <1>1, <2>1, <2>2
  <1>6. \A i \in 1..(n + k) : \/ i \in 1..n /\ t.log[i] = s.log[i]
                              \/ i - n \in 1..k /\ t.log[i] = User(s.steering[i - n])
    <2> SUFFICES ASSUME NEW i \in 1..(n + k)
                 PROVE  \/ i \in 1..n /\ t.log[i] = s.log[i]
                        \/ i - n \in 1..k /\ t.log[i] = User(s.steering[i - n])
      OBVIOUS
    <2>1. CASE i \in 1..n
      BY <1>2, <1>4, <2>1
    <2>2. CASE i \notin 1..n
      <3>1. i - n \in 1..k /\ n + (i - n) = i
        BY <1>2, <2>2
      <3> QED
        BY <1>4, <3>1
    <2> QED
      BY <2>1, <2>2
  <1>7. GoodLog(t.log, R)
    <2>1. \A i, v : Good(User(v), i, R)
      BY MessageFacts DEF Good
    <2>2. \A i \in 1..n : Good(s.log[i], i, R)
      BY <1>2 DEF Fine, GoodLog
    <2> QED
      BY <1>4, <1>5, <1>6, <2>1, <2>2 DEF GoodLog
  <1>8. \A i \in 1..(n + k), note \in Notes : t.log[i] = User(note) =>
          \/ i \in 1..n /\ s.log[i] = User(note)
          \/ i - n \in 1..k /\ s.steering[i - n] = note
    BY <1>6, UserFacts
  <1>9. \A i \in 1..k : s.steering[i] \in Notes /\ s.steering[i] <= u
    BY <1>2 DEF Fine, Upto, Notes
  <1>10. Once(t)
    <2>1. SUFFICES ASSUME NEW note \in Notes, NEW i \in 1..(n + k), NEW j \in 1..(n + k),
                          t.log[i] = User(note), t.log[j] = User(note)
                   PROVE  i = j
      BY <1>5 DEF Once
    <2>2. CASE i \in 1..n /\ s.log[i] = User(note)
      <3>1. \A x \in 1..k : s.steering[x] # note
        BY <1>2, <2>2 DEF Fine, Once
      <3>2. j \in 1..n /\ s.log[j] = User(note)
        BY <1>8, <2>1, <3>1
      <3> QED
        BY <1>2, <2>2, <3>2 DEF Fine, Once
    <2>3. CASE i - n \in 1..k /\ s.steering[i - n] = note
      <3>1. \A x \in 1..n : s.log[x] # User(note)
        BY <1>2, <2>3 DEF Fine, Once
      <3>2. j - n \in 1..k /\ s.steering[j - n] = note
        BY <1>8, <2>1, <3>1
      <3>3. i - n = j - n
        BY <1>2, <2>3, <3>2 DEF Fine, Once
      <3> QED
        BY <1>2, <3>3
    <2> QED
      BY <1>8, <2>1, <2>2, <2>3
  <1>11. Upto(t, u)
    <2>1. \A i \in DOMAIN s.log, note \in Notes : s.log[i] = User(note) => note <= u
      BY DEF Fine, Upto
    <2> QED
      BY <1>1, <1>2, <1>5, <1>8, <1>9, <2>1, EmptyListed DEF Upto
  <1>12. Under(s, t)
    <2>1. Pre(s.log, t.log)
      BY <1>2, <1>4 DEF Pre, n
    <2>2. ASSUME NEW note \in Notes, NEW i \in 1..n, s.log[i] = User(note) PROVE Given(t, note)
      <3>1. i \in DOMAIN t.log
        BY <1>2, <1>5
      <3> QED
        BY <1>4, <2>2, <3>1 DEF Given
    <2>3. ASSUME NEW note \in Notes, NEW i \in 1..k, s.steering[i] = note PROVE Given(t, note)
      <3>1. n + i \in DOMAIN t.log
        BY <1>2, <1>5
      <3> QED
        BY <1>4, <2>3, <3>1 DEF Given
    <2> QED
      BY <1>2, <2>1, <2>2, <2>3 DEF Under, Given
  <1>13. s.cut \in 0..n /\ s.mode \in {"default", "plan"}
    BY DEF Fine, n
  <1>14. s.cut \in 0..(n + k)
    BY <1>2, <1>13
  <1> QED
    BY <1>1, <1>4, <1>7, <1>10, <1>11, <1>12, <1>13, <1>14 DEF Fine, t

(* A control request may add a note the session does not have yet. *)
LEMMA ControlledFine ==
  ASSUME NEW s, NEW R, NEW u \in Nat, Fine(s, R, u), NEW note \in 0..u,
         note > 0 => ~Given(s, note)
  PROVE  /\ Fine(Controlled(s, note), R, u) /\ Under(s, Controlled(s, note))
         /\ Controlled(s, note).log = s.log
         /\ note > 0 => Given(Controlled(s, note), note)
  <1> DEFINE t == Controlled(s, note)
  <1>1. /\ DOMAIN t = DOMAIN Empty /\ t.log = s.log
        /\ t.steering = (IF note > 0 THEN Append(s.steering, note) ELSE s.steering)
        /\ t.cut = s.cut /\ t.mode \in {"default", "plan"}
    <2>1. DOMAIN s = DOMAIN Empty /\ s.mode \in {"default", "plan"}
      BY DEF Fine
    <2>2. CASE note > 0
      BY <2>1, <2>2 DEF Controlled, Empty
    <2>3. CASE ~(note > 0)
      <3>1. PICK v \in {"default", "plan"} : t = [s EXCEPT !.mode = v]
        BY <2>3 DEF Controlled
      <3> QED
        BY <2>1, <2>3, <3>1 DEF Empty
    <2> QED
      BY <2>2, <2>3
  <1>2. Listed(s.log) /\ Listed(s.steering)
    BY FineLists
  <1> HIDE DEF t
  <1>3. CASE note = 0
    <2>0. ~(note > 0)
      BY <1>3
    <2>1. t.log = s.log /\ t.steering = s.steering
      BY <1>1, <2>0
    <2>2. Once(t) /\ Upto(t, u)
      BY <2>1 DEF Fine, Once, Upto
    <2>3. Under(s, t)
      BY <1>2, <2>1, ListFacts DEF Under, Pre, Given
    <2>4. GoodLog(t.log, R) /\ s.cut \in 0..Len(t.log)
      BY <2>1 DEF Fine
    <2>5. Fine(t, R, u)
      BY <1>1, <2>2, <2>4 DEF Fine
    <2> QED
      BY <1>1, <2>0, <2>3, <2>5 DEF t
  <1>4. CASE note > 0
    <2> DEFINE k == Len(s.steering)
    <2>1. t.steering = Append(s.steering, note)
      BY <1>1, <1>4
    <2>2. /\ Listed(t.steering) /\ Len(t.steering) = k + 1 /\ t.steering[k + 1] = note
          /\ \A i \in 1..k : t.steering[i] = s.steering[i]
          /\ k \in Nat /\ DOMAIN s.steering = 1..k /\ DOMAIN t.steering = 1..(k + 1)
      <3>1. Listed(t.steering) /\ Len(t.steering) = k + 1 /\ t.steering[k + 1] = note
            /\ \A i \in 1..k : t.steering[i] = s.steering[i]
        BY <1>2, <2>1, ListedAppend
      <3> QED
        BY <1>2, <3>1, ListFacts
    <2> HIDE DEF k
    <2>3. /\ \A i \in 1..k : s.steering[i] # note
          /\ \A i \in DOMAIN s.log : s.log[i] # User(note)
      BY <1>4, <2>2 DEF Given
    <2>o. Once(s) /\ Upto(s, u)
      BY DEF Fine
    <2>4. Once(t)
      <3>1. \A i, j \in 1..(k + 1) : t.steering[i] = t.steering[j] => i = j
        BY SMTT(60), <2>2, <2>3, <2>o DEF Once
      <3>2. \A i \in 1..(k + 1), j \in DOMAIN s.log : s.log[j] # User(t.steering[i])
        BY <2>2, <2>3, <2>o DEF Once
      <3> QED
        BY <1>1, <2>2, <2>o, <3>1, <3>2 DEF Once
    <2>5. Upto(t, u)
      BY <1>1, <1>4, <2>2, <2>o DEF Upto
    <2>6. \A v \in Notes : Given(s, v) => Given(t, v)
      BY <1>1, <2>2 DEF Given
    <2>7. Given(t, note)
      BY <2>2 DEF Given
    <2>8. Pre(s.log, t.log)
      BY <1>1, <1>2, ListFacts DEF Pre
    <2>9. GoodLog(t.log, R) /\ s.cut \in 0..Len(t.log)
      BY <1>1 DEF Fine
    <2>10. Fine(t, R, u)
      BY <1>1, <2>4, <2>5, <2>9 DEF Fine
    <2> QED
      BY <1>1, <2>6, <2>7, <2>8, <2>10 DEF Under, t
  <1> QED
    BY <1>3, <1>4

(* The next note is one no session has. *)
LEMMA FineMore ==
  ASSUME NEW s, NEW R, NEW u \in Nat, Fine(s, R, u)
  PROVE  Fine(s, R, u + 1) /\ ~Given(s, u + 1)
  BY DEF Fine, Upto, Given, Notes

(* A note that a sound session has is in it exactly once. *)
LEMMA HoldsOnce ==
  ASSUME NEW s, NEW R, NEW u \in Nat, Fine(s, R, u), NEW note \in Notes, Given(s, note)
  PROVE  Holds(s, note)
  <1> DEFINE A == {i \in DOMAIN s.steering : s.steering[i] = note}
  <1> DEFINE B == {i \in DOMAIN s.log : s.log[i] = User(note)}
  <1>1. Cardinality({}) = 0
    BY FS_EmptySet
  <1>2. CASE \E i \in DOMAIN s.steering : s.steering[i] = note
    <2>1. PICK i \in DOMAIN s.steering : s.steering[i] = note
      BY <1>2
    <2>2. A = {i} /\ B = {}
      BY <2>1 DEF Fine, Once
    <2>3. Cardinality(A) = 1 /\ Cardinality(B) = 0
      BY <1>1, <2>2, FS_Singleton
    <2> QED
      BY <2>3 DEF Holds
  <1>3. CASE \E i \in DOMAIN s.log : s.log[i] = User(note)
    <2>1. PICK i \in DOMAIN s.log : s.log[i] = User(note)
      BY <1>3
    <2>2. A = {} /\ B = {i}
      BY <2>1 DEF Fine, Once
    <2>3. Cardinality(A) = 0 /\ Cardinality(B) = 1
      BY <1>1, <2>2, FS_Singleton
    <2> QED
      BY <2>3 DEF Holds
  <1> QED
    BY <1>2, <1>3 DEF Given
-----------------------------------------------------------------------------
(* The checkpoints on their way.                                           *)

(* The writes on their way, over what is saved: each has what those before
   it have, and turn and handler have one of them each at most. *)
Chain(lo, ws) ==
  /\ Listed(ws)
  /\ \A i \in DOMAIN ws : ws[i].by \in {"turn", "control"} /\ Under(lo, ws[i].session)
  /\ \A i, j \in DOMAIN ws : i < j => Under(ws[i].session, ws[j].session)
  /\ \A i, j \in DOMAIN ws : ws[i].by = ws[j].by => i = j

(* They are all under the session top. *)
Below(lo, ws, top) == Under(lo, top) /\ \A i \in DOMAIN ws : Under(ws[i].session, top)

(* They are all sound. *)
AllFine(ws, R, u) == \A i \in DOMAIN ws : Fine(ws[i].session, R, u)

(* The control requests so far: each has its own note. *)
Used == MaxControl - budget.control

(* A log has the request of call n. *)
HasCall(L, n) ==
  \E i \in DOMAIN L : L[i].type = "calls" /\ \E k \in DOMAIN L[i].calls : L[i].calls[k].n = n

(* A log has the request of batch b. *)
HasRequest(L, b) == \E i \in DOMAIN L : L[i] = Request(b)

(* A log has no result of call n that says what became of it. *)
Untold(L, n) ==
  \A i \in DOMAIN L : L[i].type = "results" =>
    \A k \in DOMAIN L[i].answers : L[i].answers[k].says \in {"no", "ran"} => L[i].answers[k].n # n

(* Every session is sound. *)
Sessions ==
  /\ DOMAIN budget = DOMAIN Bound /\ budget.control \in 0..MaxControl
  /\ Fine(session, ran, Used) /\ Fine(saved, ran, Used) /\ AllFine(writes, ran, Used)

(* The file, the writes on their way and the session of the turn, in the
   order they replace each other. *)
Queue == Chain(saved, writes) /\ (active => Below(saved, writes, session))

(* Who awaits a write; a confirmation is due to a note the write has. *)
Roles ==
  /\ pc # "idle" => active
  /\ \A i \in DOMAIN writes : writes[i].by = "turn" => pc = "saving"
  /\ \A i \in DOMAIN writes : writes[i].by = "control" =>
       handler.pc = "saving" /\ (handler.note > 0 => Given(writes[i].session, handler.note))

(* What a control request has loaded is the file, which lacks its note. *)
Handled ==
  /\ DOMAIN handler = DOMAIN Nobody /\ handler.note \in 0..Used
  /\ handler.pc = "loaded" =>
       /\ ~active /\ handler.session = saved
       /\ handler.note > 0 => ~Given(saved, handler.note)

(* Confirmed steering and executed calls are in the file. *)
Kept ==
  /\ \A note \in accepted : note \in 1..Used /\ Given(saved, note)
  /\ \A n \in ran : HasCall(saved.log, n)

(* The turn decides or executes its batch. *)
Working  == {"deciding", "asking", "preparing", "executing"}
Deciding == pc = "saving" /\ after = "deciding"
Pending  == {"open", "asking", "chosen", "checked", "no", "held"}

(* Calls are at work only while the turn executes them. *)
Stages ==
  /\ DOMAIN batch = DOMAIN stage /\ DOMAIN stage \subseteq Nat
  /\ \A k \in DOMAIN stage : stage[k] \in {"checked", "running"} => pc = "executing"

(* The batch the turn works on has its request in the file, or in the
   checkpoint it awaits. *)
Requested ==
  /\ pc \in Working => HasRequest(saved.log, batch)
  /\ Deciding => \A i \in DOMAIN writes : writes[i].by = "turn" => HasRequest(writes[i].session.log, batch)

(* A call of the batch has no result yet, and is executed as its stage says. *)
Unsaid ==
  pc \in Working \/ Deciding =>
    \A k \in DOMAIN batch :
      /\ Untold(session.log, batch[k].n)
      /\ stage[k] \in Pending => batch[k].n \notin ran
      /\ stage[k] \in {"running", "ran"} => batch[k].n \in ran

(* Where a turn goes on after a checkpoint, but to decide. *)
Goals == {"idle", "loop", "refresh", "replied", "results", "ending"}

(* A file write is drained only in an execution, or when the turn stops. *)
Places ==
  /\ after \in Goals \cup {"deciding"}
  /\ pc \notin {"executing", "stopping", "idle"} /\ ~(pc = "saving" /\ after = "idle") =>
       \A k \in DOMAIN stage : stage[k] # "draining"

(* The invariant. *)
IInv == Sessions /\ Queue /\ Roles /\ Handled /\ Kept /\ Stages /\ Requested /\ Unsaid
-----------------------------------------------------------------------------
(* What keeps the order of the sessions.                                   *)

(* UnderTransitive, of sound sessions. *)
LEMMA FineUnder ==
  ASSUME NEW r, NEW s, NEW t, NEW R, NEW u,
         Fine(r, R, u), Fine(s, R, u), Fine(t, R, u), Under(r, s), Under(s, t)
  PROVE  Under(r, t)
  BY FineLists, UnderTransitive

(* A sound session is under itself. *)
LEMMA FineSelf == ASSUME NEW s, NEW R, NEW u, Fine(s, R, u) PROVE Under(s, s)
  BY FineLists, UnderReflexive

(* A write joins the queue of another. *)
Queued(ws, w, vs) ==
  vs = Append(ws, w) /\ w.by \in {"turn", "control"} /\ \A i \in DOMAIN ws : ws[i].by # w.by

(* A checkpoint of the newest session joins the end of the queue. *)
LEMMA ChainAppend ==
  ASSUME NEW lo, NEW ws, NEW R, NEW u, NEW w, NEW vs, Queued(ws, w, vs),
         Chain(lo, ws), AllFine(ws, R, u), Fine(w.session, R, u), Below(lo, ws, w.session)
  PROVE  /\ Chain(lo, vs) /\ AllFine(vs, R, u) /\ Below(lo, vs, w.session)
         /\ \A i \in DOMAIN vs : (i \in DOMAIN ws /\ vs[i] = ws[i]) \/ vs[i] = w
  <1> USE DEF Queued
  <1> DEFINE s == w.session
  <1> DEFINE n == Len(ws)
  <1>2. Listed(ws) /\ n \in Nat /\ DOMAIN ws = 1..n
    BY ListFacts DEF Chain
  <1>3. Listed(vs) /\ Len(vs) = n + 1 /\ vs[n + 1] = w /\ \A i \in 1..n : vs[i] = ws[i]
    BY <1>2, ListedAppend
  <1>4. DOMAIN vs = 1..(n + 1)
    BY <1>3, ListFacts
  <1> HIDE DEF n
  <1>5. \A i \in 1..(n + 1) : (i \in 1..n /\ vs[i] = ws[i]) \/ (i = n + 1 /\ vs[i] = w)
    BY <1>2, <1>3
  <1>6. Under(s, s)
    BY FineSelf
  <1>7. Below(lo, vs, s)
    BY <1>2, <1>4, <1>5, <1>6 DEF Below
  <1>8. AllFine(vs, R, u)
    BY <1>2, <1>4, <1>5 DEF AllFine
  <1>9. Chain(lo, vs)
    <2>1. \A i \in DOMAIN vs : vs[i].by \in {"turn", "control"} /\ Under(lo, vs[i].session)
      BY <1>2, <1>4, <1>5 DEF Chain, Below
    <2>2. \A i, j \in DOMAIN vs : i < j => Under(vs[i].session, vs[j].session)
      <3> SUFFICES ASSUME NEW i \in 1..(n + 1), NEW j \in 1..(n + 1), i < j
                   PROVE  Under(vs[i].session, vs[j].session)
        BY <1>4
      <3>1. i \in 1..n /\ vs[i] = ws[i]
        BY <1>2, <1>5
      <3>2. CASE j \in 1..n
        BY <1>2, <1>3, <3>1, <3>2 DEF Chain
      <3>3. CASE j = n + 1
        BY <1>2, <1>5, <3>1, <3>3 DEF Below
      <3> QED
        BY <1>2, <3>2, <3>3
    <2>3. \A i, j \in DOMAIN vs : vs[i].by = vs[j].by => i = j
      BY <1>2, <1>4, <1>5 DEF Chain
    <2> QED
      BY <1>3, <2>1, <2>2, <2>3 DEF Chain
  <1> QED
    BY <1>2, <1>4, <1>5, <1>7, <1>8, <1>9

(* The first write is done: the others are ordered over what it wrote. *)
LEMMA ChainTail ==
  ASSUME NEW lo, NEW ws, NEW R, NEW u, Chain(lo, ws), AllFine(ws, R, u), ws # <<>>
  PROVE  /\ Head(ws) = ws[1] /\ 1 \in DOMAIN ws
         /\ Chain(lo, Tail(ws)) /\ Chain(ws[1].session, Tail(ws)) /\ AllFine(Tail(ws), R, u)
         /\ \A i \in DOMAIN Tail(ws) :
              i + 1 \in DOMAIN ws /\ Tail(ws)[i] = ws[i + 1] /\ ws[i + 1].by # ws[1].by
  <1> DEFINE vs == Tail(ws)
  <1> DEFINE n == Len(ws)
  <1>1. Listed(ws) /\ n \in Nat /\ DOMAIN ws = 1..n
    BY ListFacts DEF Chain
  <1>2. Listed(vs) /\ Len(vs) = n - 1 /\ n > 0 /\ Head(ws) = ws[1] /\ \A i \in 1..(n - 1) : vs[i] = ws[i + 1]
    BY <1>1, ListedTail
  <1>3. DOMAIN vs = 1..(n - 1)
    BY <1>2, ListFacts
  <1> HIDE DEF vs, n
  <1>4. \A i \in 1..(n - 1) : i + 1 \in 1..n /\ vs[i] = ws[i + 1]
    BY <1>1, <1>2
  <1>5. 1 \in 1..n
    BY <1>1, <1>2
  <1>6. \A i \in 1..(n - 1) : ws[i + 1].by # ws[1].by /\ Under(ws[1].session, ws[i + 1].session)
    BY <1>1, <1>4, <1>5 DEF Chain
  <1>7. /\ \A i \in 1..(n - 1) : vs[i].by \in {"turn", "control"} /\ Under(lo, vs[i].session)
        /\ \A i, j \in 1..(n - 1) : i < j => Under(vs[i].session, vs[j].session)
        /\ \A i, j \in 1..(n - 1) : vs[i].by = vs[j].by => i = j
    <2>1. \A i \in 1..(n - 1) : vs[i].by \in {"turn", "control"} /\ Under(lo, vs[i].session)
      BY <1>1, <1>4 DEF Chain
    <2>2. ASSUME NEW i \in 1..(n - 1), NEW j \in 1..(n - 1)
          PROVE  /\ i < j => Under(vs[i].session, vs[j].session)
                 /\ vs[i].by = vs[j].by => i = j
      <3> DEFINE a == i + 1
      <3> DEFINE b == j + 1
      <3>1. /\ a \in DOMAIN ws /\ b \in DOMAIN ws /\ vs[i] = ws[a] /\ vs[j] = ws[b]
            /\ i < j => a < b
            /\ a = b => i = j
        BY <1>1, <1>4
      <3> HIDE DEF a, b
      <3> QED
        BY <3>1 DEF Chain
    <2> QED
      BY <2>1, <2>2
  <1>8. Chain(lo, vs) /\ Chain(ws[1].session, vs)
    BY <1>2, <1>3, <1>4, <1>6, <1>7 DEF Chain
  <1>9. AllFine(vs, R, u)
    BY <1>1, <1>3, <1>4 DEF AllFine
  <1> QED
    BY <1>1, <1>2, <1>3, <1>4, <1>5, <1>6, <1>8, <1>9 DEF vs

(* The write of the turn is withdrawn: what is left is ordered still. *)
LEMMA ChainOthers ==
  ASSUME NEW lo, NEW ws, NEW R, NEW u, Chain(lo, ws), AllFine(ws, R, u)
  PROVE  /\ Chain(lo, Others(ws)) /\ AllFine(Others(ws), R, u)
         /\ \A i \in DOMAIN Others(ws) :
              Others(ws)[i].by = "control" /\ \E j \in DOMAIN ws : Others(ws)[i] = ws[j]
         /\ 1 \in DOMAIN ws /\ ws[1].by = "turn" => Chain(ws[1].session, Others(ws))
  <1> DEFINE others == {i \in DOMAIN ws : ws[i].by # "turn"}
  <1>1. CASE others = {}
    <2>1. Others(ws) = <<>> /\ DOMAIN <<>> = {}
      BY <1>1 DEF Others
    <2> QED
      BY <2>1, EmptyListed DEF Chain, AllFine
  <1>2. CASE others # {}
    <2>1. PICK j \in others : j = CHOOSE i \in others : TRUE
      BY <1>2
    <2>2. Others(ws) = <<ws[j]>>
      BY <1>2, <2>1 DEF Others
    <2>3. PICK vs : vs = <<ws[j]>>
      OBVIOUS
    <2>4. Listed(vs) /\ DOMAIN vs = {1} /\ vs[1] = ws[j]
      <3>1. Listed(vs) /\ Len(vs) = 1 /\ vs[1] = ws[j]
        BY <2>3, ListedSingle
      <3>2. DOMAIN vs = 1..1
        BY <3>1, ListFacts
      <3> QED
        BY <3>1, <3>2
    <2>5. j \in DOMAIN ws /\ ws[j].by = "control"
      BY <2>1 DEF Chain
    <2>6. Chain(lo, vs) /\ AllFine(vs, R, u)
      BY <2>4, <2>5 DEF Chain, AllFine
    <2>7. ASSUME 1 \in DOMAIN ws, ws[1].by = "turn" PROVE Chain(ws[1].session, vs)
      <3>1. 1 < j
        <4>1. Listed(ws) /\ DOMAIN ws = 1..Len(ws) /\ Len(ws) \in Nat
          BY ListFacts DEF Chain
        <4> QED
          BY <4>1, <2>5, <2>7
      <3>2. Under(ws[1].session, ws[j].session)
        BY <2>5, <2>7, <3>1 DEF Chain
      <3> QED
        BY <2>4, <2>5, <3>2 DEF Chain
    <2> QED
      BY <2>2, <2>3, <2>4, <2>5, <2>6, <2>7
  <1> QED
    BY <1>1, <1>2

(* What grows from the newest session is the newest. *)
LEMMA BelowGrows ==
  ASSUME NEW lo, NEW ws, NEW R, NEW u, NEW s, NEW t, Fine(lo, R, u), AllFine(ws, R, u),
         Fine(s, R, u), Fine(t, R, u), Below(lo, ws, s), Under(s, t)
  PROVE  Below(lo, ws, t)
  BY FineUnder DEF Below, AllFine

(* A session has the requests and the answers of those under it. *)
LEMMA CallKept ==
  ASSUME NEW s, NEW t, NEW R, NEW u, Fine(s, R, u), Fine(t, R, u), Under(s, t)
  PROVE  /\ \A n : HasCall(s.log, n) => HasCall(t.log, n)
         /\ \A b : HasRequest(s.log, b) => HasRequest(t.log, b)
         /\ \A n : Untold(t.log, n) => Untold(s.log, n)
  <1>1. /\ DOMAIN s.log \subseteq DOMAIN t.log
        /\ \A i \in DOMAIN s.log : t.log[i] = s.log[i]
    BY FineLists, ListFacts DEF Under, Pre
  <1> QED
    BY <1>1 DEF HasCall, HasRequest, Untold

(* What runs now was not told of. *)
LEMMA FineRan ==
  ASSUME NEW s, NEW R, NEW u, Fine(s, R, u), NEW N, \A n \in N : Untold(s.log, n)
  PROVE  Fine(s, R \cup N, u)
  <1>1. SUFFICES ASSUME NEW i \in DOMAIN s.log PROVE Good(s.log[i], i, R \cup N)
    BY DEF Fine, GoodLog
  <1>2. Good(s.log[i], i, R)
    BY DEF Fine, GoodLog
  <1>3. s.log[i].type = "results" =>
          \A k \in DOMAIN s.log[i].answers :
            s.log[i].answers[k].says = "no" => s.log[i].answers[k].n \notin N
    BY DEF Untold
  <1> QED
    BY <1>2, <1>3 DEF Good
-----------------------------------------------------------------------------
(* Steps that save, and steps of the turn between its checkpoints.         *)

(* The invariant holds at the start. *)
LEMMA InitIInv == Init => IInv
  <1> SUFFICES ASSUME Init PROVE IInv
    OBVIOUS
  <1>1. MaxControl \in Nat
    BY AgentTurnAssumption
  <1>2. session = Empty /\ saved = Empty /\ ~active /\ DOMAIN writes = {} /\ ran = {} /\ accepted = {}
        /\ Listed(writes) /\ DOMAIN batch = {} /\ DOMAIN stage = {}
    BY EmptyListed DEF Init
  <1>3. DOMAIN budget = DOMAIN Bound /\ budget.control = MaxControl
    BY DEF Init, Bound
  <1>4. Used = 0
    BY <1>1, <1>3 DEF Used
  <1>5. Sessions
    BY <1>1, <1>2, <1>3, <1>4, FineEmpty DEF Sessions, AllFine
  <1>6. Queue
    BY <1>2 DEF Queue, Chain
  <1>7. Handled
    BY <1>4 DEF Handled, Init, Nobody
  <1>8. Roles /\ Stages /\ Requested /\ Unsaid
    BY <1>2 DEF Roles, Stages, Requested, Unsaid, Init, Working, Deciding
  <1> QED
    BY <1>2, <1>5, <1>6, <1>7, <1>8 DEF IInv, Kept

(* The number of the last control request. *)
LEMMA UsedNat == ASSUME Sessions PROVE Used \in Nat /\ Used + budget.control = MaxControl
  BY AgentTurnAssumption DEF Sessions, Used

(* A checkpoint of the newest session keeps the order of the sessions, *)
LEMMA CheckpointQueue ==
  ASSUME Sessions, Queue, Roles, Handled, Kept, pc # "saving", handler.pc # "loaded",
         NEW s, Fine(s, ran, Used), Below(saved, writes, s),
         session' = s, writes' = Append(writes, [by |-> "turn", session |-> s]),
         pc' = "saving", active' = TRUE,
         saved' = saved, handler' = handler, ran' = ran, accepted' = accepted,
         DOMAIN budget' = DOMAIN Bound, budget'.control = budget.control
  PROVE  Sessions' /\ Queue' /\ Roles' /\ Handled' /\ Kept'
  <1>1. Used' = Used
    BY DEF Used
  <1>2. PICK w, vs : w = [by |-> "turn", session |-> s] /\ vs = Append(writes, w)
    OBVIOUS
  <1>3. /\ Chain(saved, vs) /\ AllFine(vs, ran, Used) /\ Below(saved, vs, s)
        /\ \A i \in DOMAIN vs : (i \in DOMAIN writes /\ vs[i] = writes[i]) \/ vs[i] = w
    <2>1. \A i \in DOMAIN writes : writes[i].by # "turn"
      BY DEF Roles
    <2>2. Chain(saved, writes) /\ AllFine(writes, ran, Used)
      BY DEF Sessions, Queue
    <2>3. Queued(writes, w, vs) /\ w.session = s
      BY <1>2, <2>1 DEF Queued
    <2> QED
      BY <2>2, <2>3, ChainAppend
  <1>4. writes' = vs /\ w.by = "turn"
    BY <1>2
  <1>5. Sessions'
    BY <1>1, <1>3, <1>4 DEF Sessions
  <1>6. Queue'
    BY <1>3, <1>4 DEF Queue
  <1>7. Roles'
    <2>1. \A i \in DOMAIN vs : vs[i].by = "control" => i \in DOMAIN writes /\ vs[i] = writes[i]
      BY <1>3, <1>4
    <2> QED
      BY <1>4, <2>1 DEF Roles
  <1>8. Handled' /\ Kept'
    BY <1>1 DEF Handled, Kept
  <1> QED
    BY <1>5, <1>6, <1>7, <1>8

(* and the invariant, when no call is at work. *)
LEMMA CheckpointKeeps ==
  ASSUME IInv, pc # "saving", handler.pc # "loaded",
         NEW s, Fine(s, ran, Used), Below(saved, writes, s), NEW next, next # "deciding",
         Checkpoint(s, next), active' = TRUE,
         saved' = saved, handler' = handler, ran' = ran, accepted' = accepted,
         DOMAIN budget' = DOMAIN Bound, budget'.control = budget.control,
         DOMAIN batch' = DOMAIN stage', DOMAIN stage' \subseteq Nat,
         \A k \in DOMAIN stage' : stage'[k] \notin {"checked", "running"}
  PROVE  IInv'
  <1>1. Sessions' /\ Queue' /\ Roles' /\ Handled' /\ Kept'
    BY CheckpointQueue DEF IInv, Checkpoint, Save
  <1>2. Stages' /\ Requested' /\ Unsaid'
    BY DEF Stages, Requested, Unsaid, Checkpoint, Working, Deciding
  <1> QED
    BY <1>1, <1>2 DEF IInv

(* The session grows and is not saved yet. *)
LEMMA MoveKeeps ==
  ASSUME IInv, active, pc # "saving",
         NEW t, Fine(t, ran, Used), Under(session, t),
         session' = t, writes' = writes, active' = active,
         saved' = saved, handler' = handler, ran' = ran, accepted' = accepted,
         DOMAIN budget' = DOMAIN Bound, budget'.control = budget.control,
         pc' \in {"loop", "refresh", "streaming", "retrying"},
         DOMAIN batch' = DOMAIN stage', DOMAIN stage' \subseteq Nat,
         \A k \in DOMAIN stage' : stage'[k] \notin {"checked", "running"}
  PROVE  IInv'
  <1>1. Used' = Used
    BY DEF Used
  <1>2. Sessions'
    BY <1>1 DEF IInv, Sessions
  <1>3. Below(saved, writes, t)
    BY BelowGrows DEF IInv, Sessions, Queue
  <1>4. Queue'
    BY <1>3 DEF IInv, Queue
  <1>5. Roles' /\ Handled' /\ Kept'
    BY <1>1 DEF IInv, Roles, Handled, Kept
  <1>6. Stages' /\ Requested' /\ Unsaid'
    BY DEF Stages, Requested, Unsaid, Working, Deciding
  <1> QED
    BY <1>2, <1>4, <1>5, <1>6 DEF IInv

(* A request in the log has numbered its calls by its own place. *)
LEMMA RequestPlaces ==
  ASSUME NEW s, NEW R, NEW u, Fine(s, R, u), NEW b, HasRequest(s.log, b)
  PROVE  /\ \E i \in DOMAIN s.log : \A k \in DOMAIN b : b[k].n = <<i, k>>
         /\ \A k \in DOMAIN b : HasCall(s.log, b[k].n)
  <1>1. PICK i \in DOMAIN s.log : s.log[i] = Request(b)
    BY DEF HasRequest
  <1>2. Good(s.log[i], i, R) /\ s.log[i].type = "calls" /\ s.log[i].calls = b
    BY <1>1, MessageFacts DEF Fine, GoodLog
  <1> QED
    BY <1>2 DEF Good, HasCall

(* A step of the calls of a saved request. *)
LEMMA RunKeeps ==
  ASSUME IInv, pc \in Working, pc' \in Working,
         session' = session, writes' = writes, active' = active,
         saved' = saved, handler' = handler, accepted' = accepted, budget' = budget, batch' = batch,
         NEW N, N \subseteq {batch[k].n : k \in DOMAIN batch}, ran' = ran \cup N,
         DOMAIN stage' = DOMAIN stage,
         \A k \in DOMAIN stage :
           /\ stage'[k] \in {"checked", "running"} => pc' = "executing"
           /\ stage'[k] \in Pending => stage[k] \in Pending /\ batch[k].n \notin N
           /\ stage'[k] \in {"running", "ran"} => stage[k] \in {"running", "ran"} \/ batch[k].n \in N
  PROVE  IInv'
  <1>1. Used' = Used
    BY DEF Used
  <1>2. active /\ Below(saved, writes, session) /\ DOMAIN batch = DOMAIN stage
        /\ HasRequest(saved.log, batch) /\ pc # "saving" /\ pc' # "saving" /\ pc' # "idle"
        /\ \A k \in DOMAIN batch : Untold(session.log, batch[k].n)
    BY DEF IInv, Roles, Queue, Working, Stages, Requested, Unsaid
  <1>3. /\ Fine(session, ran, Used) /\ Fine(saved, ran, Used)
        /\ \A i \in DOMAIN writes : Fine(writes[i].session, ran, Used)
    BY DEF IInv, Sessions, AllFine
  <1>4. \A n \in N : Untold(session.log, n)
    BY <1>2
  <1>5. \A n \in N : Untold(saved.log, n) /\ \A i \in DOMAIN writes : Untold(writes[i].session.log, n)
    <2>1. \A n \in N : Untold(saved.log, n)
      BY <1>2, <1>3, <1>4, CallKept DEF Below
    <2>2. ASSUME NEW i \in DOMAIN writes PROVE \A n \in N : Untold(writes[i].session.log, n)
      BY <1>2, <1>3, <1>4, CallKept DEF Below
    <2> QED
      BY <2>1, <2>2
  <1>6. Sessions'
    <2>1. Fine(session, ran \cup N, Used) /\ Fine(saved, ran \cup N, Used)
      BY <1>3, <1>4, <1>5, FineRan
    <2>2. ASSUME NEW i \in DOMAIN writes PROVE Fine(writes[i].session, ran \cup N, Used)
      BY <1>3, <1>5, FineRan
    <2>3. AllFine(writes, ran \cup N, Used)
      BY <2>2 DEF AllFine
    <2> QED
      BY <1>1, <2>1, <2>3 DEF IInv, Sessions
  <1>7. Queue'
    BY DEF IInv, Queue
  <1>8. Roles' /\ Handled'
    BY <1>1, <1>2 DEF IInv, Roles, Handled
  <1>9. Kept'
    <2>1. \A k \in DOMAIN batch : HasCall(saved.log, batch[k].n)
      BY <1>2, <1>3, RequestPlaces
    <2> QED
      BY <1>1, <2>1 DEF IInv, Kept
  <1>10. Stages' /\ Requested'
    BY <1>2 DEF IInv, Stages, Requested, Deciding
  <1>11. Unsaid'
    BY <1>2 DEF IInv, Unsaid
  <1> QED
    BY <1>6, <1>7, <1>8, <1>9, <1>10, <1>11 DEF IInv

(* A step of the turn that saves nothing, executes nothing and confirms
   nothing. *)
Steady ==
  /\ saved' = saved /\ active' = active /\ handler' = handler /\ ran' = ran /\ accepted' = accepted
  /\ DOMAIN budget' = DOMAIN Bound /\ budget'.control = budget.control

(* No call is at work. *)
Calm ==
  /\ DOMAIN batch = DOMAIN stage /\ DOMAIN stage \subseteq Nat
  /\ \A k \in DOMAIN stage : stage[k] \notin {"checked", "running"}

(* Turns, batches and disturbances are no control requests. *)
LEMMA SpendKeeps ==
  ASSUME Sessions, NEW b \in {"turn", "batch", "disturb"}, Spend(b)
  PROVE  DOMAIN budget' = DOMAIN Bound /\ budget'.control = budget.control
  BY DEF Sessions, Spend, Bound

(* The same, when nothing is spent. *)
LEMMA KeptBudget ==
  ASSUME Sessions, budget' = budget
  PROVE  DOMAIN budget' = DOMAIN Bound /\ budget'.control = budget.control
  BY DEF Sessions

(* Outside of an execution no call is at work. *)
LEMMA CalmNow == ASSUME IInv, pc # "executing" PROVE Calm
  BY DEF IInv, Stages, Calm

(* It stays so when the calls do not change. *)
LEMMA CalmKept ==
  ASSUME IInv, pc # "executing", batch' = batch, stage' = stage
  PROVE  Calm'
  BY DEF IInv, Stages, Calm

(* A turn that goes on saves a session that has grown from its own. *)
LEMMA CheckpointStep ==
  ASSUME IInv, active, pc # "saving", NEW s, Fine(s, ran, Used), Under(session, s),
         NEW next, next # "deciding", Checkpoint(s, next), Steady, Calm'
  PROVE  IInv'
  <1>1. handler.pc # "loaded"
    BY DEF IInv, Handled
  <1>2. Below(saved, writes, s)
    BY BelowGrows DEF IInv, Sessions, Queue
  <1>3. active' = TRUE
    BY DEF Steady, IInv, Roles
  <1> QED
    BY <1>1, <1>2, <1>3, CheckpointKeeps DEF Steady, Calm

(* The session is saved as it is: Finish, and the end of a plugin. *)
LEMMA FinishStep ==
  ASSUME IInv, active, pc # "saving", NEW next, next # "deciding",
         Checkpoint(session, next), Steady, Calm'
  PROVE  IInv'
  <1>1. PICK s : s = session
    OBVIOUS
  <1>2. Fine(s, ran, Used) /\ Under(session, s)
    BY <1>1, FineSelf DEF IInv, Sessions
  <1>3. Checkpoint(s, next)
    BY <1>1 DEF Checkpoint
  <1> QED
    BY <1>2, <1>3, CheckpointStep

(* A turn that goes on with a session that has grown from its own. *)
LEMMA MoveStep ==
  ASSUME IInv, active, pc # "saving", NEW t, Fine(t, ran, Used), Under(session, t),
         session' = t, writes' = writes, pc' \in {"loop", "refresh", "streaming", "retrying"},
         Steady, Calm'
  PROVE  IInv'
  BY MoveKeeps DEF Steady, Calm

(* A turn that goes on with its session. *)
LEMMA StayStep ==
  ASSUME IInv, active, pc # "saving", session' = session, writes' = writes,
         pc' \in {"loop", "refresh", "streaming", "retrying"}, Steady, Calm'
  PROVE  IInv'
  <1>1. PICK s : s = session
    OBVIOUS
  <1>2. Fine(s, ran, Used) /\ Under(session, s)
    BY <1>1, FineSelf DEF IInv, Sessions
  <1> QED
    BY <1>1, <1>2, MoveStep

(* A request to a provider, which may compact the session first. *)
LEMMA AskStep ==
  ASSUME IInv, active, pc # "saving", NEW provider, NEW attempt, Ask(provider, attempt), Steady, Calm'
  PROVE  IInv'
  <1>1. pc' = "streaming" /\ writes' = writes
        /\ (session' = Compacted(session) \/ session' = session)
    BY DEF Ask
  <1>2. CASE session' = session
    BY <1>1, <1>2, StayStep
  <1>3. CASE session' = Compacted(session)
    <2>1. PICK t : t = Compacted(session)
      OBVIOUS
    <2>2. Fine(t, ran, Used) /\ Under(session, t)
      BY <2>1, CompactedFine, UsedNat DEF IInv, Sessions
    <2> QED
      BY <1>1, <1>3, <2>1, <2>2, MoveStep
  <1> QED
    BY <1>1, <1>2, <1>3

(* No write is on its way when neither turn nor handler awaits one. *)
LEMMA NoWrites ==
  ASSUME IInv, pc # "saving", handler.pc # "saving"
  PROVE  DOMAIN writes = {}
  BY DEF IInv, Queue, Chain, Roles
-----------------------------------------------------------------------------
(* The turn up to its batch of calls.                                      *)

(* BeginTurn: the session of an idle task is the saved one, and no handler
   has loaded it. *)
LEMMA StepBeginTurn == ASSUME IInv, BeginTurn PROVE IInv'
  <1>1. /\ pc = "idle" /\ active' = TRUE /\ Calm'
        /\ saved' = saved /\ handler' = handler /\ ran' = ran /\ accepted' = accepted
    BY DEF BeginTurn, historyVars, Calm
  <1>2. DOMAIN budget' = DOMAIN Bound /\ budget'.control = budget.control /\ Sessions
    BY SpendKeeps DEF BeginTurn, IInv
  <1>3. CASE active /\ Checkpoint(Opening(session), "loop")
    <2>1. PICK s : s = Opening(session)
      OBVIOUS
    <2>2. Fine(s, ran, Used) /\ Under(session, s)
      BY <1>2, <2>1, OpeningFine, UsedNat DEF Sessions
    <2>3. Checkpoint(s, "loop")
      BY <1>3, <2>1 DEF Checkpoint
    <2>4. handler.pc # "loaded"
      BY <1>3 DEF IInv, Handled
    <2>5. Below(saved, writes, s)
      BY <1>2, <1>3, <2>2, BelowGrows DEF IInv, Sessions, Queue
    <2> QED
      BY <1>1, <1>2, <2>2, <2>3, <2>4, <2>5, CheckpointKeeps DEF Calm
  <1>4. CASE ~active /\ handler = Nobody /\ Checkpoint(Opening(saved), "loop")
    <2>1. PICK s : s = Opening(saved)
      OBVIOUS
    <2>2. Fine(s, ran, Used) /\ Under(saved, s)
      BY <1>2, <2>1, OpeningFine, UsedNat DEF Sessions
    <2>3. Checkpoint(s, "loop")
      BY <1>4, <2>1 DEF Checkpoint
    <2>4. handler.pc = "none"
      BY <1>4 DEF Nobody
    <2>5. Below(saved, writes, s)
      BY <1>1, <2>2, <2>4, NoWrites DEF Below
    <2> QED
      BY <1>1, <1>2, <2>2, <2>3, <2>4, <2>5, CheckpointKeeps DEF Calm
  <1> QED
    BY <1>3, <1>4 DEF BeginTurn

(* Leave keeps the invariant. *)
LEMMA StepLeave == ASSUME IInv, Leave PROVE IInv'
  <1>1. /\ pc = "idle" /\ active /\ ~active' /\ pc' = pc /\ after' = after
        /\ session' = session /\ saved' = saved /\ writes' = writes
        /\ batch' = batch /\ stage' = stage /\ handler' = handler /\ budget' = budget
        /\ ran' = ran /\ accepted' = accepted
    BY DEF Leave, turnVars, batchVars, historyVars
  <1>2. Used' = Used
    BY <1>1 DEF Used
  <1>3. Sessions' /\ Queue' /\ Handled' /\ Kept'
    BY <1>1, <1>2 DEF IInv, Sessions, Queue, Handled, Kept
  <1>4. Roles' /\ Stages' /\ Requested' /\ Unsaid'
    BY <1>1 DEF IInv, Roles, Stages, Requested, Unsaid, Working, Deciding
  <1> QED
    BY <1>3, <1>4 DEF IInv

(* Who is in a turn has its session object registered. *)
LEMMA ActiveTurn == ASSUME IInv, pc # "idle" PROVE active
  BY DEF IInv, Roles

(* Loop: the steering is consumed and saved. *)
LEMMA StepLoop == ASSUME IInv, Loop PROVE IInv'
  <1>1. /\ pc = "loop" /\ active /\ Sessions /\ Calm'
    BY CalmKept, ActiveTurn DEF Loop, batchVars, IInv
  <1>2. Steady
    BY <1>1, KeptBudget DEF Loop, Steady, historyVars
  <1>3. CASE session.steering # <<>>
    <2>1. PICK s : s = Steered(session)
      OBVIOUS
    <2>2. Fine(s, ran, Used) /\ Under(session, s)
      BY <1>1, <2>1, SteeredFine, UsedNat DEF Sessions
    <2>3. Checkpoint(s, "refresh")
      BY <1>3, <2>1 DEF Loop, Checkpoint
    <2> QED
      BY <1>1, <1>2, <2>2, <2>3, CheckpointStep
  <1>4. CASE session.steering = <<>>
    BY <1>1, <1>2, <1>4, StayStep DEF Loop
  <1> QED
    BY <1>3, <1>4

(* Refreshed keeps the invariant. *)
LEMMA StepRefreshed == ASSUME IInv, Refreshed PROVE IInv'
  <1>1. /\ pc = "refresh" /\ active /\ Sessions /\ Calm'
    BY CalmKept, ActiveTurn DEF Refreshed, batchVars, IInv
  <1>2. Steady
    BY <1>1, KeptBudget DEF Refreshed, Steady, historyVars
  <1>3. CASE clock = "past"
    BY <1>1, <1>2, <1>3, FinishStep DEF Refreshed, Finish
  <1>4. CASE clock # "past"
    BY <1>1, <1>2, <1>4, AskStep DEF Refreshed
  <1> QED
    BY <1>3, <1>4

(* Hear keeps the invariant. *)
LEMMA StepHear == ASSUME IInv, Hear PROVE IInv'
  <1>1. /\ pc = "streaming" /\ active /\ Sessions /\ Calm'
    BY CalmKept, ActiveTurn DEF Hear, batchVars, IInv
  <1>2. Steady
    BY <1>1, KeptBudget DEF Hear, Steady, historyVars, sessionVars
  <1> QED
    BY <1>1, <1>2, StayStep DEF Hear, sessionVars

(* Saving the text that was streamed adds one message. *)
LEMMA SpokenFine == ASSUME Sessions PROVE Fine(Spoken, ran, Used) /\ Under(session, Spoken)
  <1>1. Fine(session, ran, Used) /\ Used \in Nat
    BY UsedNat DEF Sessions
  <1>2. Good(Text, Len(session.log) + 1, ran)
    BY MessageFacts DEF Good
  <1>3. \A note \in Notes : Text # User(note)
    BY UserFacts
  <1>4. Fine(Add(session, <<Text>>), ran, Used) /\ Under(session, Add(session, <<Text>>))
    BY <1>1, <1>2, <1>3, AddFine
  <1> QED
    BY <1>1, <1>4, FineSelf DEF Spoken

(* A checkpoint of the session with that text. *)
LEMMA SpokenStep ==
  ASSUME IInv, active, pc # "saving", NEW next, next # "deciding", Checkpoint(Spoken, next), Steady, Calm'
  PROVE  IInv'
  <1>1. PICK s : s = Spoken
    OBVIOUS
  <1>2. Fine(s, ran, Used) /\ Under(session, s)
    BY <1>1, SpokenFine DEF IInv
  <1>3. Checkpoint(s, next)
    BY <1>1 DEF Checkpoint
  <1> QED
    BY <1>2, <1>3, CheckpointStep

(* Reply keeps the invariant. *)
LEMMA StepReply == ASSUME IInv, Reply PROVE IInv'
  <1>1. /\ pc = "streaming" /\ active /\ Sessions /\ Calm'
    BY CalmKept, ActiveTurn DEF Reply, batchVars, IInv
  <1>2. Steady
    BY <1>1, KeptBudget DEF Reply, Steady, historyVars
  <1> QED
    BY <1>1, <1>2, SpokenStep DEF Reply

(* Replied keeps the invariant. *)
LEMMA StepReplied == ASSUME IInv, Replied PROVE IInv'
  <1>1. /\ pc = "replied" /\ active /\ Sessions /\ Calm'
    BY CalmKept, ActiveTurn DEF Replied, batchVars, IInv
  <1>2. Steady
    BY <1>1, KeptBudget DEF Replied, Steady, historyVars
  <1>3. CASE session.steering # <<>>
    BY <1>1, <1>2, <1>3, StayStep DEF Replied
  <1>4. CASE session.steering = <<>>
    BY <1>1, <1>2, <1>4, FinishStep DEF Replied, Finish
  <1> QED
    BY <1>3, <1>4

(* StreamFails keeps the invariant. *)
LEMMA StepStreamFails == ASSUME IInv, StreamFails PROVE IInv'
  <1>1. /\ pc = "streaming" /\ active /\ Sessions /\ Calm'
    BY CalmKept, ActiveTurn DEF StreamFails, batchVars, IInv
  <1>2. Steady
    BY <1>1, KeptBudget DEF StreamFails, Steady, historyVars
  <1>3. CASE pc' = "retrying" /\ UNCHANGED <<session, writes, after>>
    BY <1>1, <1>2, <1>3, StayStep
  <1>4. CASE Ask(request.provider + 1, 0)
    BY <1>1, <1>2, <1>4, AskStep
  <1>5. CASE Finish(Spoken)
    BY <1>1, <1>2, <1>5, SpokenStep DEF Finish
  <1> QED
    BY <1>3, <1>4, <1>5 DEF StreamFails

(* Retry keeps the invariant. *)
LEMMA StepRetry == ASSUME IInv, Retry PROVE IInv'
  <1>1. /\ pc = "retrying" /\ active /\ Sessions /\ Calm'
    BY CalmKept, ActiveTurn DEF Retry, batchVars, IInv
  <1>2. Steady
    BY <1>1, KeptBudget DEF Retry, Steady, historyVars
  <1> QED
    BY <1>1, <1>2, AskStep DEF Retry

(* StreamDeadline keeps the invariant. *)
LEMMA StepStreamDeadline == ASSUME IInv, StreamDeadline PROVE IInv'
  <1>1. /\ pc = "streaming" /\ active /\ Sessions /\ Calm'
    BY CalmKept, ActiveTurn DEF StreamDeadline, batchVars, IInv
  <1>2. Steady
    BY <1>1, KeptBudget DEF StreamDeadline, Steady, historyVars
  <1> QED
    BY <1>1, <1>2, SpokenStep DEF StreamDeadline, Finish

(* StreamEnds: the calls are new, and their request is being saved. *)
LEMMA StepStreamEnds == ASSUME IInv, StreamEnds PROVE IInv'
  <1>1. /\ pc = "streaming" /\ active /\ Sessions /\ Calm
    BY CalmNow, ActiveTurn DEF StreamEnds, IInv
  <1>2. Steady
    BY <1>1, SpendKeeps DEF StreamEnds, Steady, historyVars
  <1>3. PICK b \in Batch :
          \/ Finish(session) /\ UNCHANGED <<batch, stage>>
          \/ /\ batch' = Calls(b) /\ stage' = [i \in 1..Len(b) |-> "open"]
             /\ Checkpoint(Add(session, <<Request(batch')>>), "deciding")
    BY DEF StreamEnds
  <1>4. CASE Finish(session) /\ UNCHANGED <<batch, stage>>
    <2>1. Calm'
      BY <1>1, <1>4 DEF Calm
    <2> QED
      BY <1>1, <1>2, <1>4, <2>1, FinishStep DEF Finish
  <1>5. CASE /\ batch' = Calls(b) /\ stage' = [i \in 1..Len(b) |-> "open"]
             /\ Checkpoint(Add(session, <<Request(batch')>>), "deciding")
    <2> DEFINE n == Len(session.log)
    <2>1. PICK cs, t : cs = Calls(b) /\ t = Add(session, <<Request(cs)>>)
      OBVIOUS
    <2>2. /\ Fine(session, ran, Used) /\ Used \in Nat /\ Listed(session.log) /\ n \in Nat
          /\ DOMAIN session.log = 1..n /\ Len(b) \in Nat
      <3>1. Fine(session, ran, Used) /\ Used \in Nat
        BY <1>1, UsedNat DEF Sessions
      <3>2. Len(b) \in Nat
        BY AgentTurnAssumption
      <3> QED
        BY <3>1, <3>2, FineLists, ListFacts
    <2>3. DOMAIN cs = 1..Len(b) /\ \A k \in DOMAIN cs : cs[k].n = <<n + 1, k>>
      BY <2>1 DEF Calls
    <2> HIDE DEF n
    <2>4. Good(Request(cs), n + 1, ran)
      BY <2>3, MessageFacts DEF Good
    <2>5. \A note \in Notes : Request(cs) # User(note)
      BY UserFacts
    <2>6. /\ Fine(t, ran, Used) /\ Under(session, t)
          /\ Len(t.log) = n + 1 /\ t.log[n + 1] = Request(cs)
          /\ \A i \in 1..n : t.log[i] = session.log[i]
      BY <2>1, <2>2, <2>4, <2>5, AddFine DEF n
    <2>7. DOMAIN t.log = 1..(n + 1)
      BY <2>6, FineLists, ListFacts
    <2>8. /\ session' = t /\ writes' = Append(writes, [by |-> "turn", session |-> t])
          /\ pc' = "saving" /\ after' = "deciding" /\ batch' = cs
      BY <1>5, <2>1 DEF Checkpoint, Save
    <2>9. handler.pc # "loaded" /\ Below(saved, writes, t)
      <3>1. handler.pc # "loaded"
        BY <1>1 DEF IInv, Handled
      <3>2. Below(saved, writes, t)
        BY <1>1, <2>6, BelowGrows DEF IInv, Sessions, Queue
      <3> QED
        BY <3>1, <3>2
    <2>10. Sessions' /\ Queue' /\ Roles' /\ Handled' /\ Kept'
      <3>1. active' = TRUE
        BY <1>1, <1>2 DEF Steady, StreamEnds, Roles, IInv
      <3> QED
        BY <1>1, <1>2, <2>6, <2>8, <2>9, <3>1, CheckpointQueue DEF Steady, IInv
    <2>11. DOMAIN stage' = 1..Len(b) /\ \A k \in 1..Len(b) : stage'[k] = "open"
      BY <1>5
    <2>12. Stages'
      BY <2>2, <2>3, <2>8, <2>11 DEF Stages
    <2>13. HasRequest(t.log, cs)
      <3>1. n + 1 \in DOMAIN t.log
        BY <2>2, <2>7
      <3> QED
        BY <2>6, <3>1 DEF HasRequest
    <2>14. \A i \in DOMAIN writes' : writes'[i].by = "turn" => writes'[i].session = t
      <3>1. PICK w, vs : w = [by |-> "turn", session |-> t] /\ vs = Append(writes, w)
        OBVIOUS
      <3>2. w.session = t
        BY <3>1
      <3>3. Listed(writes) /\ \A i \in DOMAIN writes : writes[i].by # "turn"
        BY <1>1 DEF IInv, Queue, Chain, Roles
      <3>4. Listed(vs) /\ Len(vs) = Len(writes) + 1 /\ vs[Len(writes) + 1] = w
            /\ \A i \in 1..Len(writes) : vs[i] = writes[i]
        BY <3>1, <3>3, ListedAppend
      <3>5. Len(writes) \in Nat /\ DOMAIN writes = 1..Len(writes) /\ DOMAIN vs = 1..(Len(writes) + 1)
        BY <3>3, <3>4, ListFacts
      <3>6. writes' = vs
        BY <2>8, <3>1
      <3> QED
        BY <3>2, <3>3, <3>4, <3>5, <3>6
    <2>15. Requested'
      BY <2>8, <2>13, <2>14 DEF Requested, Working
    <2>16. ASSUME NEW k \in DOMAIN cs PROVE Untold(t.log, cs[k].n)
      <3>1. cs[k].n[1] = n + 1
        BY <2>3, <2>16
      <3> SUFFICES ASSUME NEW i \in 1..(n + 1), t.log[i].type = "results",
                          NEW j \in DOMAIN t.log[i].answers,
                          t.log[i].answers[j].says \in {"no", "ran"}, t.log[i].answers[j].n = cs[k].n
                   PROVE  FALSE
        BY <2>7 DEF Untold
      <3>2. Good(t.log[i], i, ran)
        BY <2>6, <2>7 DEF Fine, GoodLog
      <3>3. cs[k].n[1] \in 1..(i - 1)
        BY SMTT(60), <3>2 DEF Good, Earlier
      <3> QED
        BY <2>2, <3>1, <3>3
    <2>17. ASSUME NEW k \in DOMAIN cs PROVE cs[k].n \notin ran
      <3> SUFFICES ASSUME cs[k].n \in ran PROVE FALSE
        OBVIOUS
      <3>1. HasCall(saved.log, cs[k].n) /\ Fine(saved, ran, Used) /\ Under(saved, session)
        BY <1>1 DEF IInv, Kept, Sessions, Queue, Below
      <3>2. HasCall(session.log, cs[k].n)
        BY <2>2, <3>1, CallKept
      <3>3. PICK i \in DOMAIN session.log :
              session.log[i].type = "calls"
              /\ \E j \in DOMAIN session.log[i].calls : session.log[i].calls[j].n = cs[k].n
        BY <3>2 DEF HasCall
      <3>4. PICK j \in DOMAIN session.log[i].calls : session.log[i].calls[j].n = cs[k].n
        BY <3>3
      <3>5. Good(session.log[i], i, ran)
        BY <2>2 DEF Fine, GoodLog
      <3>6. cs[k].n = <<i, j>>
        BY <3>3, <3>4, <3>5 DEF Good
      <3>7. i = n + 1
        BY <2>3, <3>6
      <3> QED
        BY <2>2, <3>7
    <2>18. ran' = ran
      BY <1>2 DEF Steady
    <2>19. Unsaid'
      BY <2>3, <2>8, <2>11, <2>16, <2>17, <2>18 DEF Unsaid
    <2> QED
      BY <2>10, <2>12, <2>15, <2>19 DEF IInv
  <1> QED
    BY <1>3, <1>4, <1>5

(* A step that runs nothing. *)
LEMMA QuietRun ==
  ASSUME IInv, pc \in Working, pc' \in Working,
         session' = session, writes' = writes, active' = active,
         saved' = saved, handler' = handler, accepted' = accepted, budget' = budget, batch' = batch,
         ran' = ran, DOMAIN stage' = DOMAIN stage,
         \A k \in DOMAIN stage :
           /\ stage'[k] \in {"checked", "running"} => pc' = "executing"
           /\ stage'[k] \in Pending => stage[k] \in Pending
           /\ stage'[k] \in {"running", "ran"} => stage[k] \in {"running", "ran"}
  PROVE  IInv'
  <1>1. PICK N : N = {}
    OBVIOUS
  <1>2. N \subseteq {batch[k].n : k \in DOMAIN batch} /\ ran' = ran \cup N
    BY <1>1
  <1>3. \A n : n \notin N
    BY <1>1
  <1> QED
    BY <1>2, <1>3, RunKeeps
-----------------------------------------------------------------------------
(* The calls of a batch.                                                   *)

(* Decide: calls are chosen or refused, none is executed. *)
LEMMA StepDecide == ASSUME IInv, Decide PROVE IInv'
  <1> DEFINE asks == {i \in At({"open"}) : batch[i].policy = "ask" /\ ~Held(batch[i])}
  <1> DEFINE Before(i) == asks = {} \/ i < First(asks)
  <1>1. /\ pc = "deciding" /\ pc' \in {"asking", "preparing", "executing"}
        /\ stage' = [i \in DOMAIN stage |->
              CASE stage[i] = "open" /\ Before(i) ->
                     IF batch[i].policy = "refuse" \/ Held(batch[i]) THEN "no" ELSE "chosen"
                [] asks # {} /\ i = First(asks) -> "asking"
                [] OTHER -> stage[i]]
    BY DEF Decide
  <1>2. asks # {} => First(asks) \in asks
    <2>1. asks \subseteq Nat
      BY DEF IInv, Stages, At
    <2> QED
      BY <2>1, FirstIn
  <1>3. \A i \in asks : i \in DOMAIN stage /\ stage[i] = "open"
    BY DEF At
  <1> HIDE DEF asks, Before
  <1>4. DOMAIN stage' = DOMAIN stage
    BY <1>1
  <1>5. \A k \in DOMAIN stage :
          \/ stage'[k] = stage[k]
          \/ stage[k] = "open" /\ stage'[k] \in {"no", "chosen", "asking"}
    BY <1>1, <1>2, <1>3
  <1>6. \A k \in DOMAIN stage : stage[k] \notin {"checked", "running"}
    BY <1>1 DEF IInv, Stages
  <1>7. /\ session' = session /\ writes' = writes /\ active' = active /\ saved' = saved
        /\ handler' = handler /\ accepted' = accepted /\ budget' = budget /\ batch' = batch /\ ran' = ran
    BY DEF Decide, sessionVars, historyVars
  <1>8. pc \in Working /\ pc' \in Working
    BY <1>1 DEF Working
  <1>9. \A k \in DOMAIN stage :
          /\ stage'[k] \in {"checked", "running"} => pc' = "executing"
          /\ stage'[k] \in Pending => stage[k] \in Pending
          /\ stage'[k] \in {"running", "ran"} => stage[k] \in {"running", "ran"}
    BY <1>5, <1>6 DEF Pending
  <1> QED
    BY <1>4, <1>7, <1>8, <1>9, QuietRun

(* Resolve keeps the invariant. *)
LEMMA StepResolve == ASSUME IInv, Resolve PROVE IInv'
  <1>1. PICK v \in {"chosen", "no"} :
          stage' = [i \in DOMAIN stage |-> IF stage[i] = "asking" THEN v ELSE stage[i]]
    BY DEF Resolve
  <1>2. /\ pc = "asking" /\ pc' = "deciding"
        /\ session' = session /\ writes' = writes /\ active' = active /\ saved' = saved
        /\ handler' = handler /\ accepted' = accepted /\ budget' = budget /\ batch' = batch /\ ran' = ran
    BY DEF Resolve, sessionVars, historyVars
  <1>3. pc \in Working /\ pc' \in Working
    BY <1>2 DEF Working
  <1>4. DOMAIN stage' = DOMAIN stage
    BY <1>1
  <1>5. \A k \in DOMAIN stage :
          stage'[k] = stage[k] \/ (stage[k] = "asking" /\ stage'[k] \in {"chosen", "no"})
    BY <1>1
  <1>6. \A k \in DOMAIN stage : stage[k] \notin {"checked", "running"}
    BY <1>2 DEF IInv, Stages
  <1>7. \A k \in DOMAIN stage :
          /\ stage'[k] \in {"checked", "running"} => pc' = "executing"
          /\ stage'[k] \in Pending => stage[k] \in Pending
          /\ stage'[k] \in {"running", "ran"} => stage[k] \in {"running", "ran"}
    BY <1>5, <1>6 DEF Pending
  <1> QED
    BY <1>2, <1>3, <1>4, <1>7, QuietRun

(* AskDeadline keeps the invariant. *)
LEMMA StepAskDeadline == ASSUME IInv, AskDeadline PROVE IInv'
  <1>1. /\ pc = "asking" /\ active /\ Sessions /\ Calm'
    BY CalmKept, ActiveTurn DEF AskDeadline, batchVars, IInv
  <1>2. Steady
    BY <1>1, KeptBudget DEF AskDeadline, Steady, historyVars
  <1> QED
    BY <1>1, <1>2, FinishStep DEF AskDeadline, Finish

(* Prepared keeps the invariant. *)
LEMMA StepPrepared == ASSUME IInv, Prepared PROVE IInv'
  <1>1. /\ pc = "preparing" /\ pc' = "executing" /\ stage' = stage
        /\ session' = session /\ writes' = writes /\ active' = active /\ saved' = saved
        /\ handler' = handler /\ accepted' = accepted /\ budget' = budget /\ batch' = batch /\ ran' = ran
    BY DEF Prepared, sessionVars, batchVars, historyVars
  <1>2. pc \in Working /\ pc' \in Working
    BY <1>1 DEF Working
  <1> QED
    BY <1>1, <1>2, QuietRun

(* No two calls of a batch share their number. *)
LEMMA Numbered ==
  ASSUME IInv, pc \in Working, NEW j \in DOMAIN batch, NEW k \in DOMAIN batch, batch[j].n = batch[k].n
  PROVE  j = k
  <1>1. PICK i \in DOMAIN saved.log : \A x \in DOMAIN batch : batch[x].n = <<i, x>>
    BY RequestPlaces DEF IInv, Sessions, Requested
  <1> QED
    BY <1>1

(* A step that dispatches the calls is, and no other. *)
LEMMA DispatchStep ==
  ASSUME IInv, pc = "executing", pc' = pc,
         session' = session, writes' = writes, active' = active,
         saved' = saved, handler' = handler, accepted' = accepted, budget' = budget, batch' = batch,
         NEW is, is \subseteq DOMAIN stage, Dispatched(is), DOMAIN stage' = DOMAIN stage,
         \A k \in DOMAIN stage :
           /\ stage'[k] \in Pending => stage[k] \in Pending /\ k \notin is
           /\ stage'[k] \in {"running", "ran"} => stage[k] \in {"running", "ran"} \/ k \in is
  PROVE  IInv'
  <1>1. PICK N : N = {batch[i].n : i \in is}
    OBVIOUS
  <1>2. pc \in Working /\ pc' \in Working /\ DOMAIN batch = DOMAIN stage
    BY DEF Working, IInv, Stages
  <1>3. N \subseteq {batch[k].n : k \in DOMAIN batch} /\ ran' = ran \cup N
    BY <1>1, <1>2 DEF Dispatched
  <1>4. \A k \in DOMAIN stage : batch[k].n \in N <=> k \in is
    BY <1>1, <1>2, Numbered
  <1>5. \A k \in DOMAIN stage :
          /\ stage'[k] \in {"checked", "running"} => pc' = "executing"
          /\ stage'[k] \in Pending => stage[k] \in Pending /\ batch[k].n \notin N
          /\ stage'[k] \in {"running", "ran"} => stage[k] \in {"running", "ran"} \/ batch[k].n \in N
    BY <1>4
  <1> QED
    BY <1>2, <1>3, <1>5, RunKeeps

(* StartGroup: only calls that may be executed are dispatched. *)
LEMMA StepStartGroup == ASSUME IInv, StartGroup PROVE IInv'
  <1> DEFINE together == \A i \in DOMAIN stage : stage[i] # "no" => batch[i].kind = "read"
  <1> DEFINE group == IF together THEN At({"chosen"}) ELSE {First(At({"chosen"}))}
  <1> DEFINE held  == {i \in group : clock # "early" \/ Held(batch[i])}
  <1> DEFINE reads == {i \in group \ held : batch[i].kind = "read"}
  <1>1. /\ pc = "executing" /\ pc' = pc /\ At({"chosen"}) # {}
        /\ session' = session /\ writes' = writes /\ active' = active /\ saved' = saved
        /\ handler' = handler /\ accepted' = accepted /\ budget' = budget /\ batch' = batch
        /\ stage' = [i \in DOMAIN stage |->
               CASE i \notin group -> stage[i]
                 [] i \in held     -> "held"
                 [] i \in reads    -> "running"
                 [] OTHER          -> "checked"]
        /\ Dispatched(reads)
    BY DEF StartGroup, sessionVars
  <1>2. group \subseteq At({"chosen"})
    <2>1. At({"chosen"}) \subseteq Nat
      BY DEF IInv, Stages, At
    <2>2. First(At({"chosen"})) \in At({"chosen"})
      BY <1>1, <2>1, FirstIn
    <2> QED
      BY <2>2
  <1>3. \A i \in group : i \in DOMAIN stage /\ stage[i] = "chosen"
    BY <1>2 DEF At
  <1>4. held \subseteq group /\ reads \subseteq group /\ \A i \in reads : i \notin held
    OBVIOUS
  <1> HIDE DEF group, held, reads
  <1>5. DOMAIN stage' = DOMAIN stage /\ reads \subseteq DOMAIN stage
    BY <1>1, <1>3, <1>4
  <1>6. \A k \in DOMAIN stage :
          /\ stage'[k] \in Pending => stage[k] \in Pending /\ k \notin reads
          /\ stage'[k] \in {"running", "ran"} => stage[k] \in {"running", "ran"} \/ k \in reads
    <2> SUFFICES ASSUME NEW k \in DOMAIN stage
                 PROVE  /\ stage'[k] \in Pending => stage[k] \in Pending /\ k \notin reads
                        /\ stage'[k] \in {"running", "ran"} => stage[k] \in {"running", "ran"} \/ k \in reads
      OBVIOUS
    <2>1. CASE k \notin group
      BY <1>1, <1>4, <2>1
    <2>2. CASE k \in held
      BY <1>1, <1>3, <1>4, <2>2 DEF Pending
    <2>3. CASE k \in reads
      BY <1>1, <1>4, <2>3 DEF Pending
    <2>4. CASE k \in group /\ k \notin held /\ k \notin reads
      BY <1>1, <1>3, <2>4 DEF Pending
    <2> QED
      BY <2>1, <2>2, <2>3, <2>4
  <1> QED
    BY <1>1, <1>5, <1>6, DispatchStep

(* Checked: a call that was checked again is dispatched, or held. *)
LEMMA StepChecked == ASSUME IInv, NEW i \in DOMAIN stage, Checked(i) PROVE IInv'
  <1>1. /\ stage[i] = "checked" /\ pc' = pc
        /\ session' = session /\ writes' = writes /\ active' = active /\ saved' = saved
        /\ handler' = handler /\ accepted' = accepted /\ budget' = budget /\ batch' = batch
    BY DEF Checked, sessionVars
  <1>2. pc = "executing" /\ pc \in Working
    BY <1>1 DEF IInv, Stages, Working
  <1>3. CASE Move({i}, "held") /\ UNCHANGED ran
    <2>1. DOMAIN stage' = DOMAIN stage
      BY <1>3 DEF Move
    <2>2. \A k \in DOMAIN stage : stage'[k] = stage[k] \/ (k = i /\ stage'[k] = "held")
      <3>1. stage' = [k \in DOMAIN stage |-> IF k \in {i} THEN "held" ELSE stage[k]]
        BY <1>3 DEF Move
      <3> QED
        BY <3>1
    <2>3. \A k \in DOMAIN stage :
            /\ stage'[k] \in {"checked", "running"} => pc' = "executing"
            /\ stage'[k] \in Pending => stage[k] \in Pending
            /\ stage'[k] \in {"running", "ran"} => stage[k] \in {"running", "ran"}
      BY <1>1, <1>2, <2>2 DEF Pending
    <2> QED
      BY <1>1, <1>2, <1>3, <2>1, <2>3, QuietRun
  <1>4. CASE Move({i}, "running") /\ Dispatched({i})
    <2>1. PICK is : is = {i}
      OBVIOUS
    <2>2. DOMAIN stage' = DOMAIN stage /\ Dispatched(is) /\ is \subseteq DOMAIN stage
      BY <1>4, <2>1 DEF Move, Dispatched
    <2>3. \A k \in DOMAIN stage : (stage'[k] = stage[k] /\ k \notin is) \/ (k \in is /\ stage'[k] = "running")
      BY <1>4, <2>1 DEF Move
    <2>4. \A k \in DOMAIN stage :
            /\ stage'[k] \in Pending => stage[k] \in Pending /\ k \notin is
            /\ stage'[k] \in {"running", "ran"} => stage[k] \in {"running", "ran"} \/ k \in is
      BY <2>3 DEF Pending
    <2> QED
      BY <1>1, <1>2, <2>2, <2>4, DispatchStep
  <1> QED
    BY <1>3, <1>4 DEF Checked

(* CallEnds keeps the invariant. *)
LEMMA StepCallEnds == ASSUME IInv, NEW i \in DOMAIN stage, CallEnds(i) PROVE IInv'
  <1>1. /\ stage[i] = "running" /\ pc' = pc
        /\ session' = session /\ writes' = writes /\ active' = active /\ saved' = saved
        /\ handler' = handler /\ accepted' = accepted /\ budget' = budget /\ batch' = batch /\ ran' = ran
    BY DEF CallEnds, sessionVars, historyVars
  <1>2. pc = "executing" /\ pc \in Working
    BY <1>1 DEF IInv, Stages, Working
  <1>3. DOMAIN stage' = DOMAIN stage
    BY DEF CallEnds, Move
  <1>4. \A k \in DOMAIN stage : stage'[k] = stage[k] \/ (stage[k] = "running" /\ stage'[k] = "ran")
    <2>1. stage' = [k \in DOMAIN stage |-> IF k \in {i} THEN "ran" ELSE stage[k]]
      BY DEF CallEnds, Move
    <2> QED
      BY <1>1, <2>1
  <1>5. \A k \in DOMAIN stage :
          /\ stage'[k] \in {"checked", "running"} => pc' = "executing"
          /\ stage'[k] \in Pending => stage[k] \in Pending
          /\ stage'[k] \in {"running", "ran"} => stage[k] \in {"running", "ran"}
    BY <1>1, <1>2, <1>4 DEF Pending
  <1> QED
    BY <1>1, <1>2, <1>3, <1>5, QuietRun

(* Drained keeps the invariant. *)
LEMMA StepDrained == ASSUME IInv, NEW i \in DOMAIN stage, Drained(i) PROVE IInv'
  <1>1. /\ stage[i] = "draining" /\ pc' = pc /\ after' = after
        /\ session' = session /\ writes' = writes /\ active' = active /\ saved' = saved
        /\ handler' = handler /\ accepted' = accepted /\ budget' = budget /\ batch' = batch /\ ran' = ran
    BY DEF Drained, sessionVars, historyVars
  <1>2. DOMAIN stage' = DOMAIN stage
    BY DEF Drained, Move
  <1>3. \A k \in DOMAIN stage : stage'[k] = stage[k] \/ stage'[k] = "stopped"
    BY DEF Drained, Move
  <1>4. Used' = Used
    BY <1>1 DEF Used
  <1>5. Sessions' /\ Queue' /\ Roles' /\ Handled' /\ Kept'
    BY <1>1, <1>4 DEF IInv, Sessions, Queue, Roles, Handled, Kept
  <1>6. Stages' /\ Requested'
    BY <1>1, <1>2, <1>3 DEF IInv, Stages, Requested, Deciding
  <1>7. Unsaid'
    <2>1. \A k \in DOMAIN batch : k \in DOMAIN stage
      BY DEF IInv, Stages
    <2> QED
      BY <1>1, <1>2, <1>3, <2>1 DEF IInv, Unsaid, Pending, Deciding
  <1> QED
    BY <1>5, <1>6, <1>7 DEF IInv

(* Cancelling tasks only drains or stops what was at work. *)
LEMMA CutFacts ==
  /\ DOMAIN Cut = DOMAIN stage
  /\ \A k \in DOMAIN stage :
       Cut[k] \notin {"checked", "running"} /\ (Cut[k] = stage[k] \/ Cut[k] \in {"draining", "stopped"})
  BY DEF Cut

(* GroupDeadline keeps the invariant. *)
LEMMA StepGroupDeadline == ASSUME IInv, GroupDeadline PROVE IInv'
  <1>1. /\ pc = "executing" /\ pc' = pc /\ stage' = Cut
        /\ session' = session /\ writes' = writes /\ active' = active /\ saved' = saved
        /\ handler' = handler /\ accepted' = accepted /\ budget' = budget /\ batch' = batch /\ ran' = ran
    BY DEF GroupDeadline, sessionVars, historyVars
  <1>2. pc \in Working
    BY <1>1 DEF Working
  <1>3. \A k \in DOMAIN stage :
          /\ stage'[k] \in {"checked", "running"} => pc' = "executing"
          /\ stage'[k] \in Pending => stage[k] \in Pending
          /\ stage'[k] \in {"running", "ran"} => stage[k] \in {"running", "ran"}
    BY <1>1, CutFacts DEF Pending
  <1> QED
    BY <1>1, <1>2, <1>3, CutFacts, QuietRun

(* Results that are true make a sound message. *)
LEMMA GoodResults ==
  ASSUME NEW R, NEW as, NEW i,
         \A k \in DOMAIN as :
           /\ as[k].says = "no" => as[k].n \notin R
           /\ as[k].says = "ran" => as[k].n \in R
           /\ Earlier(as[k].n, i)
  PROVE  Good(Results(as), i, R)
  <1>1. PICK m : m = Results(as)
    OBVIOUS
  <1>2. m.type = "results" /\ m.type # "calls" /\ m.answers = as
    BY <1>1, MessageFacts
  <1>3. Good(m, i, R)
    BY <1>2 DEF Good
  <1> QED
    BY <1>1, <1>3

(* ResultsReady: what each result says is what became of its call. *)
LEMMA StepResultsReady == ASSUME IInv, ResultsReady PROVE IInv'
  <1>1. /\ pc = "executing" /\ active /\ Sessions /\ At(Answered) = DOMAIN stage
        /\ batch' = batch /\ stage' = stage
    BY ActiveTurn DEF ResultsReady, batchVars, IInv
  <1>2. \A k \in DOMAIN stage : stage[k] \in {"no", "held", "ran", "stopped"}
    BY <1>1 DEF At, Answered
  <1>3. Calm'
    BY <1>1, <1>2 DEF IInv, Stages, Calm
  <1>4. Steady
    BY <1>1, KeptBudget DEF ResultsReady, Steady, historyVars
  <1> DEFINE as == [i \in DOMAIN batch |-> Result(i)]
  <1> DEFINE n == Len(session.log)
  <1>5. PICK s : s = Add(session, <<Results(as)>>)
    OBVIOUS
  <1>6. Checkpoint(s, "results")
    BY <1>5 DEF ResultsReady, Checkpoint
  <1>7. PICK p \in DOMAIN saved.log : \A k \in DOMAIN batch : batch[k].n = <<p, k>>
    BY <1>1, RequestPlaces DEF IInv, Sessions, Requested, Working
  <1>8. p \in 1..n
    <2>1. Under(saved, session) /\ Listed(saved.log) /\ Listed(session.log)
      BY <1>1, FineLists DEF IInv, Queue, Below, Sessions
    <2> QED
      BY <2>1, ListFacts DEF Under, Pre
  <1>9. \A k \in DOMAIN batch :
          /\ as[k].n = batch[k].n /\ as[k].n[1] = p
          /\ as[k].says = "no" => batch[k].n \notin ran
          /\ as[k].says = "ran" => batch[k].n \in ran
    <2> SUFFICES ASSUME NEW k \in DOMAIN batch
                 PROVE  /\ as[k].n = batch[k].n /\ as[k].n[1] = p
                        /\ as[k].says = "no" => batch[k].n \notin ran
                        /\ as[k].says = "ran" => batch[k].n \in ran
      OBVIOUS
    <2>1. as[k].n = batch[k].n /\ as[k].says = Says(k)
      BY DEF Result
    <2>2. as[k].n[1] = p
      BY <1>7, <2>1
    <2>3. k \in DOMAIN stage /\ stage[k] \in {"no", "held", "ran", "stopped"}
      BY <1>2 DEF IInv, Stages
    <2>4. /\ stage[k] \in Pending => batch[k].n \notin ran
          /\ stage[k] \in {"running", "ran"} => batch[k].n \in ran
      BY <1>1 DEF IInv, Unsaid, Working
    <2>5. /\ Says(k) = "no" => stage[k] \in Pending
          /\ Says(k) = "ran" => stage[k] = "ran"
      BY <2>3 DEF Says, Pending
    <2> QED
      BY <2>1, <2>2, <2>4, <2>5
  <1>10. DOMAIN as = DOMAIN batch
    OBVIOUS
  <1> HIDE DEF as
  <1>11. n \in Nat /\ n + 1 - 1 = n
    BY <1>1, FineLists, ListFacts DEF Sessions
  <1> HIDE DEF n
  <1>12. Good(Results(as), n + 1, ran)
    <2>2. p \in 1..(n + 1 - 1)
      BY <1>8, <1>11
    <2>3. \A k \in DOMAIN as :
            /\ as[k].says = "no" => as[k].n \notin ran
            /\ as[k].says = "ran" => as[k].n \in ran
            /\ Earlier(as[k].n, n + 1)
      <3> SUFFICES ASSUME NEW k \in DOMAIN as
                   PROVE  /\ as[k].says = "no" => as[k].n \notin ran
                          /\ as[k].says = "ran" => as[k].n \in ran
                          /\ Earlier(as[k].n, n + 1)
        OBVIOUS
      <3>1. /\ as[k].n = batch[k].n /\ as[k].n[1] = p
            /\ as[k].says = "no" => batch[k].n \notin ran
            /\ as[k].says = "ran" => batch[k].n \in ran
        BY <1>9, <1>10
      <3>2. Earlier(as[k].n, n + 1)
        <4>1. PICK v : v = as[k].n
          OBVIOUS
        <4>2. v[1] = p
          BY <3>1, <4>1
        <4>3. Earlier(v, n + 1)
          BY <1>8, <1>11, <4>2 DEF Earlier
        <4> QED
          BY <4>1, <4>3
      <3> QED
        BY <3>1, <3>2
    <2> QED
      BY <2>3, GoodResults
  <1>13. \A note \in Notes : Results(as) # User(note)
    BY UserFacts
  <1>14. Fine(s, ran, Used) /\ Under(session, s)
    BY <1>1, <1>5, <1>12, <1>13, AddFine, UsedNat DEF Sessions, n
  <1> QED
    BY <1>1, <1>3, <1>4, <1>6, <1>14, CheckpointStep

(* AfterResults keeps the invariant. *)
LEMMA StepAfterResults == ASSUME IInv, AfterResults PROVE IInv'
  <1>1. /\ pc = "results" /\ active /\ Sessions /\ Calm'
    BY ActiveTurn DEF AfterResults, IInv, Calm
  <1>2. Steady
    BY <1>1, KeptBudget DEF AfterResults, Steady, historyVars
  <1>3. CASE pc' = "loop" /\ UNCHANGED <<session, writes, after>>
    BY <1>1, <1>2, <1>3, StayStep
  <1>4. CASE session' = Add(session, <<User(0)>>) /\ pc' = "loop" /\ UNCHANGED <<writes, after>>
    <2>1. PICK t : t = Add(session, <<User(0)>>)
      OBVIOUS
    <2>2. Good(User(0), Len(session.log) + 1, ran)
      BY MessageFacts DEF Good
    <2>3. \A note \in Notes : User(0) # User(note)
      BY UserFacts DEF Notes
    <2>4. Fine(t, ran, Used) /\ Under(session, t)
      BY <1>1, <2>1, <2>2, <2>3, AddFine, UsedNat DEF Sessions
    <2> QED
      BY <1>1, <1>2, <1>4, <2>1, <2>4, MoveStep
  <1>5. CASE Checkpoint(session, "ending")
    BY <1>1, <1>2, <1>5, FinishStep
  <1> QED
    BY <1>3, <1>4, <1>5 DEF AfterResults

(* Ending keeps the invariant. *)
LEMMA StepEnding == ASSUME IInv, Ending PROVE IInv'
  <1>1. /\ pc = "ending" /\ active /\ Sessions /\ Calm'
    BY CalmKept, ActiveTurn DEF Ending, batchVars, IInv
  <1>2. Steady
    BY <1>1, KeptBudget DEF Ending, Steady, historyVars
  <1> QED
    BY <1>1, <1>2, FinishStep DEF Ending, Finish

(* Stopped keeps the invariant. *)
LEMMA StepStopped == ASSUME IInv, Stopped PROVE IInv'
  <1>1. /\ pc = "stopping" /\ active /\ Sessions /\ Calm'
    BY CalmKept, ActiveTurn DEF Stopped, batchVars, IInv
  <1>2. Steady
    BY <1>1, KeptBudget DEF Stopped, Steady, historyVars
  <1> QED
    BY <1>1, <1>2, FinishStep DEF Stopped, Finish
-----------------------------------------------------------------------------
(* What is written, and what arrives from outside.                         *)

(* TimePasses keeps the invariant. *)
LEMMA StepTimePasses == ASSUME IInv, TimePasses PROVE IInv'
  <1>1. /\ pc' = pc /\ after' = after /\ active' = active
        /\ session' = session /\ saved' = saved /\ writes' = writes
        /\ batch' = batch /\ stage' = stage /\ handler' = handler /\ budget' = budget
        /\ ran' = ran /\ accepted' = accepted
    BY DEF TimePasses, sessionVars, turnVars, batchVars, historyVars
  <1>2. Used' = Used
    BY <1>1 DEF Used
  <1>3. Sessions' /\ Queue' /\ Handled' /\ Kept'
    BY <1>1, <1>2 DEF IInv, Sessions, Queue, Handled, Kept
  <1>4. Roles' /\ Stages' /\ Requested' /\ Unsaid'
    BY <1>1 DEF IInv, Roles, Stages, Requested, Unsaid, Deciding
  <1> QED
    BY <1>3, <1>4 DEF IInv

(* No control request is being served. *)
LEMMA NobodyFacts ==
  Nobody.pc = "none" /\ Nobody.note = 0 /\ DOMAIN Nobody = {"pc", "note", "session"}
  BY DEF Nobody

(* What holds of the writes when the first of them is done. *)
LEMMA WriteDone ==
  ASSUME IInv, writes # <<>>
  PROVE  /\ Head(writes) = writes[1] /\ 1 \in DOMAIN writes
         /\ writes[1].by \in {"turn", "control"}
         /\ Fine(writes[1].session, ran, Used) /\ Under(saved, writes[1].session)
         /\ Chain(saved, Tail(writes)) /\ Chain(writes[1].session, Tail(writes))
         /\ AllFine(Tail(writes), ran, Used)
         /\ active => Below(writes[1].session, Tail(writes), session)
         /\ active => Below(saved, Tail(writes), session)
         /\ \A i \in DOMAIN Tail(writes) :
              /\ Tail(writes)[i].by # writes[1].by
              /\ i + 1 \in DOMAIN writes /\ Tail(writes)[i] = writes[i + 1]
  <1>1. Chain(saved, writes) /\ AllFine(writes, ran, Used)
    BY DEF IInv, Queue, Sessions
  <1>2. /\ Head(writes) = writes[1] /\ 1 \in DOMAIN writes
        /\ Chain(saved, Tail(writes)) /\ Chain(writes[1].session, Tail(writes))
        /\ AllFine(Tail(writes), ran, Used)
        /\ \A i \in DOMAIN Tail(writes) :
             i + 1 \in DOMAIN writes /\ Tail(writes)[i] = writes[i + 1] /\ writes[i + 1].by # writes[1].by
    BY <1>1, ChainTail
  <1>3. PICK vs : vs = Tail(writes)
    OBVIOUS
  <1>4. /\ writes[1].by \in {"turn", "control"}
        /\ Fine(writes[1].session, ran, Used) /\ Under(saved, writes[1].session)
    BY <1>1, <1>2 DEF Chain, AllFine
  <1>5. ASSUME active
        PROVE  Below(writes[1].session, vs, session) /\ Below(saved, vs, session)
    BY <1>2, <1>3, <1>5 DEF Below, IInv, Queue
  <1> QED
    BY <1>2, <1>3, <1>4, <1>5

(* Written: the file is now the first of the writes, all that was in it
   included. *)
LEMMA StepWritten == ASSUME IInv, Places, Written PROVE IInv'
  <1> DEFINE w == writes[1]
  <1>1. PICK vs : vs = Tail(writes)
    OBVIOUS
  <1>2. /\ w.by \in {"turn", "control"} /\ 1 \in DOMAIN writes
        /\ Fine(w.session, ran, Used) /\ Under(saved, w.session)
        /\ Chain(w.session, vs) /\ AllFine(vs, ran, Used)
        /\ active => Below(w.session, vs, session)
        /\ \A i \in DOMAIN vs : vs[i].by # w.by /\ i + 1 \in DOMAIN writes /\ vs[i] = writes[i + 1]
    BY <1>1, WriteDone DEF Written
  <1>3. /\ saved' = w.session /\ writes' = vs /\ Used' = Used
        /\ session' = session /\ active' = active /\ after' = after /\ batch' = batch /\ stage' = stage
        /\ budget' = budget /\ ran' = ran
    BY <1>1, WriteDone DEF Written, batchVars, Used
  <1>4. /\ \A note \in Notes : Given(saved, note) => Given(w.session, note)
        /\ \A n : HasCall(saved.log, n) => HasCall(w.session.log, n)
        /\ HasRequest(saved.log, batch) => HasRequest(w.session.log, batch)
    <2>1. Fine(saved, ran, Used)
      BY DEF IInv, Sessions
    <2>2. \A note \in Notes : Given(saved, note) => Given(w.session, note)
      BY <1>2 DEF Under
    <2> QED
      BY <1>2, <2>1, <2>2, CallKept
  <1> HIDE DEF w
  <1>5. Sessions'
    BY <1>2, <1>3 DEF IInv, Sessions
  <1>6. Queue'
    BY <1>2, <1>3 DEF Queue
  <1>7. \A note \in accepted : note \in 1..Used /\ Given(w.session, note)
    BY <1>4, UsedNat DEF IInv, Kept, Notes
  <1>8. CASE w.by = "turn"
    <2>1. /\ pc = "saving" /\ active /\ pc' = after /\ handler' = handler /\ accepted' = accepted
          /\ handler.pc # "loaded"
      <3>1. pc = "saving"
        BY <1>2, <1>8 DEF IInv, Roles, w
      <3>2. active
        BY <3>1, ActiveTurn
      <3>3. handler.pc # "loaded"
        BY <3>2 DEF IInv, Handled
      <3>4. Head(writes).by = "turn"
        BY <1>8, WriteDone DEF Written, w
      <3> QED
        BY <3>1, <3>2, <3>3, <3>4 DEF Written
    <2>2. Roles'
      BY <1>2, <1>3, <1>8, <2>1 DEF IInv, Roles
    <2>3. Handled'
      BY <1>3, <2>1 DEF IInv, Handled
    <2>4. Kept'
      BY <1>3, <1>4, <1>7, <2>1 DEF IInv, Kept
    <2>5. Stages'
      BY <1>3, <2>1 DEF IInv, Stages
    <2>6. pc' \in Working => after = "deciding"
      BY <2>1 DEF Places, Goals, Working
    <2>7. pc' # "saving"
      BY <2>1 DEF Places, Goals
    <2>8. Requested'
      <3>1. after = "deciding" => HasRequest(w.session.log, batch)
        BY <1>2, <1>8, <2>1 DEF IInv, Requested, Deciding, w
      <3> QED
        BY <1>3, <2>6, <2>7, <3>1 DEF Requested, Deciding
    <2>9. Unsaid'
      BY <1>3, <2>1, <2>6, <2>7 DEF IInv, Unsaid, Deciding
    <2> QED
      BY <1>5, <1>6, <2>2, <2>3, <2>4, <2>5, <2>8, <2>9 DEF IInv
  <1>9. CASE w.by = "control"
    <2>1. /\ pc' = pc /\ handler' = Nobody
          /\ accepted' = IF handler.note > 0 THEN accepted \cup {handler.note} ELSE accepted
      <3>1. Head(writes).by = "control"
        BY <1>9, WriteDone DEF Written, w
      <3> QED
        BY <3>1 DEF Written
    <2>2. Roles'
      BY <1>2, <1>3, <1>9, <2>1 DEF IInv, Roles
    <2>3. Handled'
      BY <1>3, <2>1, UsedNat, NobodyFacts DEF IInv, Handled
    <2>4. Kept'
      <3>1. handler.note > 0 => handler.note \in 1..Used /\ Given(w.session, handler.note)
        BY <1>2, <1>9, UsedNat DEF IInv, Roles, Handled, w
      <3>2. \A note \in accepted' : note \in 1..Used /\ Given(w.session, note)
        BY <1>7, <2>1, <3>1
      <3> QED
        BY <1>3, <1>4, <3>2 DEF IInv, Kept
    <2>5. Stages' /\ Unsaid'
      BY <1>3, <2>1 DEF IInv, Stages, Unsaid, Deciding
    <2>6. Requested'
      BY <1>2, <1>3, <1>4, <2>1 DEF IInv, Requested, Deciding
    <2> QED
      BY <1>5, <1>6, <2>2, <2>3, <2>4, <2>5, <2>6 DEF IInv
  <1> QED
    BY <1>2, <1>8, <1>9

(* What does not change when a write is withdrawn and the session is not. *)
LEMMA WithdrawnKeeps ==
  ASSUME IInv, NEW vs, writes' = vs, Chain(saved, vs), AllFine(vs, ran, Used),
         active => Below(saved, vs, session),
         session' = session, saved' = saved, active' = active, ran' = ran, accepted' = accepted,
         DOMAIN budget' = DOMAIN Bound, budget'.control = budget.control,
         handler' = handler \/ handler' = Nobody
  PROVE  Sessions' /\ Queue' /\ Handled' /\ Kept'
  <1>1. Used' = Used
    BY DEF Used
  <1>2. Sessions' /\ Queue' /\ Kept'
    BY <1>1 DEF IInv, Sessions, Queue, Kept
  <1>3. Handled'
    <2>1. CASE handler' = handler
      BY <1>1, <2>1 DEF IInv, Handled
    <2>2. CASE handler' = Nobody
      BY <1>1, <2>2, UsedNat, NobodyFacts DEF IInv, Handled
    <2> QED
      BY <2>1, <2>2
  <1> QED
    BY <1>2, <1>3

(* WriteFails: a write is dropped, and the turn saves its newest session. *)
LEMMA StepWriteFails == ASSUME IInv, WriteFails PROVE IInv'
  <1> DEFINE w == writes[1]
  <1>1. PICK vs : vs = Tail(writes)
    OBVIOUS
  <1>2. /\ w.by \in {"turn", "control"} /\ 1 \in DOMAIN writes
        /\ Chain(saved, vs) /\ AllFine(vs, ran, Used)
        /\ active => Below(saved, vs, session)
        /\ \A i \in DOMAIN vs : vs[i].by # w.by /\ i + 1 \in DOMAIN writes /\ vs[i] = writes[i + 1]
        /\ Head(writes) = w
    BY <1>1, WriteDone DEF WriteFails
  <1>3. /\ saved' = saved /\ session' = session /\ active' = active /\ batch' = batch /\ stage' = stage
        /\ ran' = ran /\ accepted' = accepted
    BY DEF WriteFails, batchVars, historyVars
  <1>4. DOMAIN budget' = DOMAIN Bound /\ budget'.control = budget.control /\ Sessions
    BY SpendKeeps DEF WriteFails, IInv
  <1> HIDE DEF w
  <1>5. CASE w.by = "turn"
    <2>1. pc = "saving" /\ active /\ handler' = handler
      <3>1. pc = "saving"
        BY <1>2, <1>5 DEF IInv, Roles, w
      <3> QED
        BY <1>2, <1>5, <3>1, ActiveTurn DEF WriteFails
    <2>2. \A k \in DOMAIN stage : stage[k] \notin {"checked", "running"}
      BY <2>1 DEF IInv, Stages
    <2>3. CASE pc' = "idle" /\ writes' = vs /\ after' = after
      <3>1. Sessions' /\ Queue' /\ Handled' /\ Kept'
        BY <1>2, <1>3, <1>4, <2>1, <2>3, WithdrawnKeeps
      <3>2. Roles'
        BY <1>2, <1>3, <1>5, <2>1, <2>3 DEF IInv, Roles
      <3>3. Stages' /\ Requested' /\ Unsaid'
        BY <1>3, <2>2, <2>3 DEF IInv, Stages, Requested, Unsaid, Working, Deciding
      <3> QED
        BY <3>1, <3>2, <3>3 DEF IInv
    <2>4. CASE pc' = "saving" /\ after' = "idle" /\ writes' = Append(vs, [by |-> "turn", session |-> session])
      <3>1. PICK v, us : v = [by |-> "turn", session |-> session] /\ us = Append(vs, v)
        OBVIOUS
      <3>2. v.by = "turn" /\ v.session = session /\ writes' = us /\ Queued(vs, v, us)
        BY <1>2, <1>5, <2>4, <3>1 DEF Queued
      <3>3. Fine(session, ran, Used)
        BY <1>4 DEF Sessions
      <3>4. /\ Chain(saved, us) /\ AllFine(us, ran, Used) /\ Below(saved, us, session)
            /\ \A i \in DOMAIN us : (i \in DOMAIN vs /\ us[i] = vs[i]) \/ us[i] = v
        BY <1>2, <2>1, <3>2, <3>3, ChainAppend
      <3>5. Sessions' /\ Queue' /\ Handled' /\ Kept'
        BY <1>3, <1>4, <2>1, <3>2, <3>4, WithdrawnKeeps
      <3>6. \A i \in DOMAIN us : us[i].by = "control" => \E j \in DOMAIN writes : us[i] = writes[j]
        BY <1>2, <3>2, <3>4
      <3>7. Roles'
        BY <1>3, <2>1, <2>4, <3>2, <3>6 DEF IInv, Roles
      <3>8. Stages' /\ Requested' /\ Unsaid'
        BY <1>3, <2>2, <2>4 DEF IInv, Stages, Requested, Unsaid, Working, Deciding
      <3> QED
        BY <3>5, <3>7, <3>8 DEF IInv
    <2> QED
      BY <1>1, <1>2, <1>5, <2>3, <2>4 DEF WriteFails
  <1>6. CASE w.by = "control"
    <2>1. writes' = vs /\ handler' = Nobody /\ pc' = pc /\ after' = after
      BY <1>1, <1>2, <1>6 DEF WriteFails
    <2>2. Sessions' /\ Queue' /\ Handled' /\ Kept'
      BY <1>2, <1>3, <1>4, <2>1, WithdrawnKeeps
    <2>3. Roles'
      BY <1>2, <1>3, <1>6, <2>1 DEF IInv, Roles
    <2>4. Stages' /\ Requested' /\ Unsaid'
      BY <1>2, <1>3, <2>1 DEF IInv, Stages, Requested, Unsaid, Deciding
    <2> QED
      BY <2>2, <2>3, <2>4 DEF IInv
  <1> QED
    BY <1>2, <1>5, <1>6

(* A write of the handler that is left, or none. *)
LEMMA OthersLeft ==
  ASSUME IInv, NEW vs, vs = Others(writes)
  PROVE  /\ Chain(saved, vs) /\ AllFine(vs, ran, Used)
         /\ 1 \in DOMAIN writes /\ writes[1].by = "turn" =>
              /\ Chain(writes[1].session, vs)
              /\ Fine(writes[1].session, ran, Used) /\ Under(saved, writes[1].session)
         /\ \A i \in DOMAIN vs : vs[i].by = "control" /\ \E j \in DOMAIN writes : vs[i] = writes[j]
  <1>1. Chain(saved, writes) /\ AllFine(writes, ran, Used)
    BY DEF IInv, Queue, Sessions
  <1>2. /\ Chain(saved, vs) /\ AllFine(vs, ran, Used)
        /\ 1 \in DOMAIN writes /\ writes[1].by = "turn" => Chain(writes[1].session, vs)
        /\ \A i \in DOMAIN vs : vs[i].by = "control" /\ \E j \in DOMAIN writes : vs[i] = writes[j]
    BY <1>1, ChainOthers
  <1>3. 1 \in DOMAIN writes => Fine(writes[1].session, ran, Used) /\ Under(saved, writes[1].session)
    BY <1>1 DEF Chain, AllFine
  <1> QED
    BY <1>2, <1>3

(* Stop: the write of the turn may be done or not; the newest session is
   saved by the finally. *)
LEMMA StepStop == ASSUME IInv, Places, Stop PROVE IInv'
  <1>1. PICK vs : vs = Others(writes)
    OBVIOUS
  <1>2. PICK lo : lo = saved'
    OBVIOUS
  <1>3. lo = saved \/ (1 \in DOMAIN writes /\ writes[1].by = "turn" /\ lo = writes[1].session)
    BY <1>2 DEF Stop
  <1>4. /\ session' = session /\ active' = active /\ batch' = batch /\ stage' = Cut
        /\ handler' = handler /\ ran' = ran /\ accepted' = accepted /\ saved' = lo
        /\ pc \notin {"idle", "stopping"} /\ active
    BY <1>2, ActiveTurn DEF Stop, historyVars
  <1>5. DOMAIN budget' = DOMAIN Bound /\ budget'.control = budget.control /\ Used' = Used
    BY SpendKeeps DEF Stop, IInv, Used
  <1>6. /\ Fine(session, ran, Used) /\ Fine(saved, ran, Used) /\ AllFine(writes, ran, Used)
        /\ Chain(saved, writes) /\ Below(saved, writes, session) /\ budget.control \in 0..MaxControl
    BY <1>4 DEF IInv, Sessions, Queue
  <1>7. Fine(lo, ran, Used) /\ Under(saved, lo) /\ Under(lo, session)
    <2>1. CASE lo = saved
      BY <1>6, <2>1, FineSelf DEF Below
    <2>2. CASE 1 \in DOMAIN writes /\ writes[1].by = "turn" /\ lo = writes[1].session
      BY <1>6, <2>2 DEF AllFine, Chain, Below
    <2> QED
      BY <1>3, <2>1, <2>2
  <1>8. /\ Chain(lo, vs) /\ AllFine(vs, ran, Used)
        /\ \A i \in DOMAIN vs : vs[i].by = "control" /\ \E j \in DOMAIN writes : vs[i] = writes[j]
    BY <1>1, <1>3, OthersLeft
  <1>9. Below(lo, vs, session)
    BY <1>6, <1>7, <1>8 DEF Below
  <1>10. Handled'
    BY <1>4, <1>5 DEF IInv, Handled
  <1>11. Kept'
    <2>1. \A note \in accepted : note \in Notes /\ note \in 1..Used /\ Given(saved, note)
      BY <1>5, UsedNat DEF IInv, Kept, Notes
    <2>2. \A n \in ran : HasCall(lo.log, n)
      BY <1>6, <1>7, CallKept DEF IInv, Kept
    <2> QED
      BY <1>4, <1>5, <1>7, <2>1, <2>2 DEF Kept, Under
  <1>12. Stages'
    <2>1. \A k \in DOMAIN Cut : Cut[k] \notin {"checked", "running"}
      BY CutFacts
    <2> QED
      BY <1>4, <2>1, CutFacts DEF IInv, Stages
  <1>13. CASE pc' = "idle" /\ writes' = vs
    <2>1. Sessions' /\ Queue'
      BY <1>4, <1>5, <1>6, <1>7, <1>8, <1>9, <1>13 DEF Sessions, Queue
    <2>2. Roles'
      BY <1>4, <1>8, <1>13 DEF IInv, Roles
    <2>3. Requested' /\ Unsaid'
      BY <1>13 DEF Requested, Unsaid, Working, Deciding
    <2> QED
      BY <1>10, <1>11, <1>12, <2>1, <2>2, <2>3 DEF IInv
  <1>14. CASE pc' = "stopping" /\ writes' = writes /\ ~(pc = "saving" /\ after = "idle")
              /\ \E i \in DOMAIN stage : stage'[i] = "draining"
    <2>1. pc = "executing"
      <3>1. PICK i \in DOMAIN stage : Cut[i] = "draining"
        BY <1>4, <1>14
      <3>2. stage[i] \in {"running", "draining"}
        BY <3>1 DEF Cut
      <3>3. CASE stage[i] = "running"
        BY <3>3 DEF IInv, Stages
      <3>4. CASE stage[i] = "draining"
        BY <1>4, <1>14, <3>4 DEF Places
      <3> QED
        BY <3>2, <3>3, <3>4
    <2>2. \A i \in DOMAIN writes : writes[i].by # "turn"
      BY <2>1 DEF IInv, Roles
    <2>3. lo = saved
      BY <1>3, <2>2
    <2>4. Sessions' /\ Queue'
      BY <1>4, <1>5, <1>6, <1>14, <2>3 DEF Sessions, Queue
    <2>5. Roles'
      BY <1>4, <1>14, <2>2 DEF IInv, Roles
    <2>6. Requested' /\ Unsaid'
      BY <1>14 DEF Requested, Unsaid, Working, Deciding
    <2> QED
      BY <1>10, <1>11, <1>12, <2>4, <2>5, <2>6 DEF IInv
  <1>15. CASE pc' = "saving" /\ after' = "idle" /\ writes' = Append(vs, [by |-> "turn", session |-> session])
    <2>1. PICK v, us : v = [by |-> "turn", session |-> session] /\ us = Append(vs, v)
      OBVIOUS
    <2>2. v.by = "turn" /\ v.session = session /\ writes' = us /\ Queued(vs, v, us)
      BY <1>8, <1>15, <2>1 DEF Queued
    <2>3. /\ Chain(lo, us) /\ AllFine(us, ran, Used) /\ Below(lo, us, session)
          /\ \A i \in DOMAIN us : (i \in DOMAIN vs /\ us[i] = vs[i]) \/ us[i] = v
      BY <1>6, <1>8, <1>9, <2>2, ChainAppend
    <2>4. Sessions' /\ Queue'
      BY <1>4, <1>5, <1>6, <1>7, <2>2, <2>3 DEF Sessions, Queue
    <2>5. \A i \in DOMAIN us : us[i].by = "control" => \E j \in DOMAIN writes : us[i] = writes[j]
      BY <1>8, <2>2, <2>3
    <2>6. Roles'
      BY <1>4, <1>15, <2>2, <2>5 DEF IInv, Roles
    <2>7. Requested' /\ Unsaid'
      BY <1>15 DEF Requested, Unsaid, Working, Deciding
    <2> QED
      BY <1>10, <1>11, <1>12, <2>4, <2>6, <2>7 DEF IInv
  <1> QED
    <2>1. CASE pc = "saving" /\ after = "idle" /\ pc' = "idle" /\ writes' = Others(writes)
      BY <1>1, <1>13, <2>1
    <2>2. CASE /\ ~(pc = "saving" /\ after = "idle")
               /\ IF \E i \in DOMAIN stage : stage'[i] = "draining"
                  THEN pc' = "stopping" /\ UNCHANGED <<writes, after>>
                  ELSE /\ pc' = "saving" /\ after' = "idle"
                       /\ writes' = Append(Others(writes), [by |-> "turn", session |-> session])
      BY <1>1, <1>14, <1>15, <2>2
    <2> QED
      BY <2>1, <2>2 DEF Stop

(* Crash: what is left is the file, or the first write that replaced it. *)
LEMMA StepCrash == ASSUME IInv, Crash PROVE IInv'
  <1>1. PICK lo : lo = saved'
    OBVIOUS
  <1>2. lo = saved \/ (1 \in DOMAIN writes /\ lo = writes[1].session)
    BY <1>1 DEF Crash
  <1>3. /\ session' = lo /\ saved' = lo /\ ~active' /\ writes' = <<>> /\ handler' = Nobody /\ pc' = "idle"
        /\ batch' = batch /\ stage' = Cut /\ ran' = ran /\ accepted' = accepted
    BY <1>1 DEF Crash, historyVars
  <1>4. /\ DOMAIN budget' = DOMAIN Bound /\ budget'.control = budget.control /\ Used' = Used
        /\ budget.control \in 0..MaxControl
    BY SpendKeeps DEF Crash, IInv, Used, Sessions
  <1>5. Fine(lo, ran, Used) /\ Under(saved, lo) /\ Fine(saved, ran, Used)
    <2>1. CASE lo = saved
      BY <2>1, FineSelf DEF IInv, Sessions
    <2>2. CASE 1 \in DOMAIN writes /\ lo = writes[1].session
      BY <2>2 DEF IInv, Sessions, AllFine, Queue, Chain
    <2> QED
      BY <1>2, <2>1, <2>2
  <1>6. DOMAIN writes' = {} /\ Listed(writes')
    BY <1>3, EmptyListed
  <1>7. Sessions' /\ Queue'
    BY <1>3, <1>4, <1>5, <1>6 DEF Sessions, Queue, AllFine, Chain
  <1>8. Roles' /\ Requested' /\ Unsaid'
    BY <1>3, <1>6 DEF Roles, Requested, Unsaid, Working, Deciding
  <1>9. Handled'
    BY <1>3, <1>4, UsedNat, NobodyFacts DEF Handled, IInv
  <1>10. Kept'
    <2>1. \A note \in accepted : note \in Notes /\ note \in 1..Used /\ Given(saved, note)
      BY UsedNat DEF IInv, Kept, Notes
    <2>2. \A n \in ran : HasCall(lo.log, n)
      BY <1>5, CallKept DEF IInv, Kept
    <2> QED
      BY <1>3, <1>4, <1>5, <2>1, <2>2 DEF Kept, Under
  <1>11. Stages'
    <2>1. \A k \in DOMAIN Cut : Cut[k] \notin {"checked", "running"}
      BY CutFacts
    <2> QED
      BY <1>3, <2>1, CutFacts DEF IInv, Stages
  <1> QED
    BY <1>7, <1>8, <1>9, <1>10, <1>11 DEF IInv

(* A control request has the next number. *)
LEMMA SpendControl ==
  ASSUME Sessions, Spend("control")
  PROVE  /\ DOMAIN budget' = DOMAIN Bound /\ budget'.control \in 0..MaxControl
         /\ Used' = Used + 1 /\ Used' = Note /\ Used' \in Nat
  <1>1. DOMAIN budget' = DOMAIN Bound /\ budget'.control = budget.control - 1 /\ budget.control > 0
    BY DEF Sessions, Spend, Bound
  <1>2. budget.control \in 0..MaxControl /\ MaxControl \in Nat
    BY AgentTurnAssumption DEF Sessions
  <1> QED
    BY <1>1, <1>2 DEF Used, Note

(* FineMore, of the writes. *)
LEMMA AllMore ==
  ASSUME NEW ws, NEW R, NEW u \in Nat, AllFine(ws, R, u)
  PROVE  AllFine(ws, R, u + 1)
  BY FineMore DEF AllFine

(* Control: a new note joins the newest session, and its copy the queue. *)
LEMMA StepControl == ASSUME IInv, Control PROVE IInv'
  <1>1. /\ active /\ handler.pc = "none" /\ Sessions /\ Used \in Nat
        /\ DOMAIN budget' = DOMAIN Bound /\ budget'.control \in 0..MaxControl
        /\ Used' = Used + 1 /\ Used' = Note /\ Used' \in Nat
    BY SpendControl, UsedNat DEF Control, IInv
  <1>2. PICK note \in {0, Note} :
          /\ session' = Controlled(session, note)
          /\ handler' = [Nobody EXCEPT !.pc = "saving", !.note = note]
    BY DEF Control
  <1>3. PICK s : s = Controlled(session, note)
    OBVIOUS
  <1>4. /\ session' = s /\ writes' = Append(writes, [by |-> "control", session |-> s])
        /\ saved' = saved /\ active' = active /\ pc' = pc /\ after' = after
        /\ batch' = batch /\ stage' = stage /\ ran' = ran /\ accepted' = accepted
    BY <1>2, <1>3 DEF Control, Save, turnVars, batchVars, historyVars
  <1>5. /\ Fine(session, ran, Used') /\ ~Given(session, Used') /\ Fine(saved, ran, Used')
        /\ AllFine(writes, ran, Used')
    BY <1>1, FineMore, AllMore DEF Sessions
  <1>6. /\ Fine(s, ran, Used') /\ Under(session, s) /\ s.log = session.log
        /\ note > 0 => Given(s, note)
    <2>1. note \in 0..Used' /\ (note > 0 => ~Given(session, note))
      BY <1>1, <1>5
    <2> QED
      BY <1>1, <1>3, <1>5, <2>1, ControlledFine
  <1>7. handler'.pc = "saving" /\ handler'.note = note /\ DOMAIN handler' = DOMAIN Nobody
    BY <1>2, NobodyFacts
  <1>8. PICK v, us : v = [by |-> "control", session |-> s] /\ us = Append(writes, v)
    OBVIOUS
  <1>9. v.by = "control" /\ v.session = s /\ writes' = us /\ Queued(writes, v, us)
    <2>1. \A i \in DOMAIN writes : writes[i].by # "control"
      BY <1>1 DEF IInv, Roles
    <2> QED
      BY <1>4, <1>8, <2>1 DEF Queued
  <1>10. Below(saved, writes, s) /\ Chain(saved, writes)
    BY <1>1, <1>5, <1>6, BelowGrows DEF IInv, Queue
  <1>11. /\ Chain(saved, us) /\ AllFine(us, ran, Used') /\ Below(saved, us, s)
         /\ \A i \in DOMAIN us : (i \in DOMAIN writes /\ us[i] = writes[i]) \/ us[i] = v
    BY <1>5, <1>6, <1>9, <1>10, ChainAppend
  <1>12. Sessions' /\ Queue'
    BY <1>1, <1>4, <1>5, <1>6, <1>9, <1>11 DEF Sessions, Queue
  <1>13. Roles'
    <2>1. \A i \in DOMAIN us : us[i].by = "turn" => i \in DOMAIN writes /\ us[i] = writes[i]
      BY <1>9, <1>11
    <2>2. \A i \in DOMAIN us : us[i].by = "control" => us[i] = v
      BY <1>1, <1>11 DEF IInv, Roles
    <2> QED
      BY <1>4, <1>6, <1>7, <1>9, <2>1, <2>2 DEF IInv, Roles
  <1>14. Handled'
    BY <1>1, <1>7 DEF Handled
  <1>15. Kept'
    BY <1>1, <1>4 DEF IInv, Kept
  <1>16. Stages'
    BY <1>4 DEF IInv, Stages
  <1>17. Requested'
    <2>1. \A i \in DOMAIN us : us[i].by = "turn" => i \in DOMAIN writes /\ us[i] = writes[i]
      BY <1>9, <1>11
    <2> QED
      BY <1>4, <1>9, <2>1 DEF IInv, Requested, Deciding
  <1>18. Unsaid'
    BY <1>4, <1>6 DEF IInv, Unsaid, Deciding
  <1> QED
    BY <1>12, <1>13, <1>14, <1>15, <1>16, <1>17, <1>18 DEF IInv

(* ControlLoads: of an idle task the newest session is the file. *)
LEMMA StepControlLoads == ASSUME IInv, ControlLoads PROVE IInv'
  <1>1. /\ ~active /\ handler.pc = "none" /\ Sessions /\ Used \in Nat
        /\ DOMAIN budget' = DOMAIN Bound /\ budget'.control \in 0..MaxControl
        /\ Used' = Used + 1 /\ Used' = Note /\ Used' \in Nat
    BY SpendControl, UsedNat DEF ControlLoads, IInv
  <1>2. PICK note \in {0, Note} : handler' = [pc |-> "loaded", note |-> note, session |-> saved]
    BY DEF ControlLoads
  <1>3. /\ handler'.pc = "loaded" /\ handler'.note = note /\ handler'.session = saved
        /\ DOMAIN handler' = DOMAIN Nobody
    BY <1>2, NobodyFacts
  <1>4. /\ session' = session /\ writes' = writes /\ saved' = saved /\ active' = active /\ pc' = pc
        /\ after' = after /\ batch' = batch /\ stage' = stage /\ ran' = ran /\ accepted' = accepted
    BY DEF ControlLoads, sessionVars, turnVars, batchVars, historyVars
  <1>5. /\ Fine(session, ran, Used') /\ Fine(saved, ran, Used') /\ ~Given(saved, Used')
        /\ AllFine(writes, ran, Used')
    BY <1>1, FineMore, AllMore DEF Sessions
  <1>6. Sessions' /\ Queue'
    BY <1>1, <1>4, <1>5 DEF IInv, Sessions, Queue
  <1>7. Roles'
    BY <1>1, <1>4 DEF IInv, Roles
  <1>8. Handled'
    BY <1>1, <1>3, <1>4, <1>5 DEF Handled
  <1>9. Kept' /\ Stages' /\ Requested' /\ Unsaid'
    BY <1>1, <1>4 DEF IInv, Kept, Stages, Requested, Unsaid, Deciding
  <1> QED
    BY <1>6, <1>7, <1>8, <1>9 DEF IInv

(* ControlSaves: nothing has been written since the session was loaded. *)
LEMMA StepControlSaves == ASSUME IInv, ControlSaves PROVE IInv'
  <1>1. /\ handler.pc = "loaded" /\ ~active /\ handler.session = saved /\ Sessions /\ Used \in Nat
        /\ handler.note \in 0..Used /\ (handler.note > 0 => ~Given(saved, handler.note))
    BY UsedNat DEF ControlSaves, IInv, Handled
  <1>2. PICK note, s : note = handler.note /\ s = Controlled(saved, note)
    OBVIOUS
  <1>3. /\ writes' = Append(writes, [by |-> "control", session |-> s])
        /\ handler' = [handler EXCEPT !.pc = "saving"] /\ Used' = Used /\ budget' = budget
        /\ session' = session /\ saved' = saved /\ active' = active /\ pc' = pc /\ after' = after
        /\ batch' = batch /\ stage' = stage /\ ran' = ran /\ accepted' = accepted
    BY <1>1, <1>2 DEF ControlSaves, Save, turnVars, batchVars, historyVars, Used
  <1>4. /\ Fine(s, ran, Used) /\ Under(saved, s) /\ (note > 0 => Given(s, note))
    BY <1>1, <1>2, ControlledFine DEF Sessions
  <1>5. handler'.pc = "saving" /\ handler'.note = note /\ DOMAIN handler' = DOMAIN Nobody
    BY <1>2, <1>3, NobodyFacts DEF IInv, Handled
  <1>6. PICK v, us : v = [by |-> "control", session |-> s] /\ us = Append(writes, v)
    OBVIOUS
  <1>7. DOMAIN writes = {} /\ pc = "idle"
    <2>1. pc = "idle"
      BY <1>1 DEF IInv, Roles
    <2> QED
      BY <1>1, <2>1, NoWrites
  <1>8. v.by = "control" /\ v.session = s /\ writes' = us /\ Queued(writes, v, us)
    BY <1>3, <1>6, <1>7 DEF Queued
  <1>9. Chain(saved, writes) /\ Below(saved, writes, s) /\ AllFine(writes, ran, Used)
    BY <1>1, <1>4, <1>7 DEF IInv, Queue, Below, Sessions
  <1>10. /\ Chain(saved, us) /\ AllFine(us, ran, Used)
         /\ \A i \in DOMAIN us : us[i] = v
    BY <1>4, <1>7, <1>8, <1>9, ChainAppend
  <1>11. Sessions' /\ Queue'
    BY <1>1, <1>3, <1>8, <1>10 DEF Sessions, Queue
  <1>12. Roles'
    BY <1>1, <1>3, <1>4, <1>5, <1>7, <1>8, <1>10 DEF Roles
  <1>13. Handled'
    BY <1>1, <1>2, <1>3, <1>5 DEF Handled
  <1>14. Kept' /\ Stages'
    BY <1>3 DEF IInv, Kept, Stages
  <1>15. Requested' /\ Unsaid'
    BY <1>3, <1>7 DEF Requested, Unsaid, Working, Deciding
  <1> QED
    BY <1>11, <1>12, <1>13, <1>14, <1>15 DEF IInv
-----------------------------------------------------------------------------
(* Every step; types.                                                      *)

(* Places holds at the start. *)
LEMMA InitPlaces == Init => Places
  BY DEF Init, Places, Goals

(* Every step keeps Places. *)
LEMMA PlacesStep == ASSUME IInv, Places, [Next]_vars PROVE Places'
  <1> USE DEF Goals, batchVars, turnVars
  <1>1. CASE UNCHANGED vars
    BY <1>1 DEF Places, vars
  <1>2. CASE BeginTurn \/ AfterResults
    <2>1. DOMAIN stage' = {}
      BY <1>2 DEF BeginTurn, AfterResults
    <2>2. after' \in Goals \cup {"deciding"}
      BY <1>2 DEF Places, BeginTurn, AfterResults, Checkpoint
    <2> QED
      BY <2>1, <2>2 DEF Places
  <1>3. CASE Leave \/ Hear \/ Reply \/ TimePasses \/ Control \/ ControlLoads \/ ControlSaves
    BY <1>3 DEF Places, Leave, Hear, Reply, TimePasses, Control, ControlLoads, ControlSaves, Checkpoint
  <1>4. CASE Loop \/ Refreshed \/ Retry \/ Replied \/ StreamDeadline \/ StreamFails
    BY <1>4 DEF Places, Loop, Refreshed, Retry, Replied, StreamDeadline, StreamFails, Checkpoint, Finish, Ask
  <1>5. CASE AskDeadline \/ Prepared \/ Ending \/ Stopped
    BY <1>5 DEF Places, AskDeadline, Prepared, Ending, Stopped, Checkpoint, Finish
  <1>6. CASE StreamEnds
    <2>1. PICK b \in Batch :
            \/ Finish(session) /\ UNCHANGED <<batch, stage>>
            \/ stage' = [i \in 1..Len(b) |-> "open"] /\ pc' = "saving" /\ after' = "deciding"
      BY <1>6 DEF StreamEnds, Checkpoint
    <2>2. CASE Finish(session) /\ UNCHANGED <<batch, stage>>
      BY <2>2 DEF Places, Finish, Checkpoint
    <2>3. CASE stage' = [i \in 1..Len(b) |-> "open"] /\ pc' = "saving" /\ after' = "deciding"
      BY <2>3 DEF Places
    <2> QED
      BY <2>1, <2>2, <2>3
  <1>7. CASE Decide
    <2>1. /\ pc = "deciding" /\ after' = after
          /\ DOMAIN stage' = DOMAIN stage
          /\ \A k \in DOMAIN stage : stage'[k] \in {"no", "chosen", "asking", stage[k]}
      BY <1>7 DEF Decide
    <2>2. \A k \in DOMAIN stage : stage[k] # "draining"
      BY <2>1 DEF Places
    <2> QED
      BY <2>1, <2>2 DEF Places
  <1>8. CASE Resolve
    <2>1. /\ pc = "asking" /\ after' = after
          /\ DOMAIN stage' = DOMAIN stage
          /\ \A k \in DOMAIN stage : stage'[k] \in {"no", "chosen", stage[k]}
      BY <1>8 DEF Resolve
    <2>2. \A k \in DOMAIN stage : stage[k] # "draining"
      BY <2>1 DEF Places
    <2> QED
      BY <2>1, <2>2 DEF Places
  <1>9. CASE StartGroup \/ GroupDeadline
    BY <1>9 DEF Places, StartGroup, GroupDeadline
  <1>10. ASSUME NEW i \in DOMAIN stage, Checked(i) \/ Drained(i) \/ CallEnds(i) PROVE Places'
    <2>1. /\ after' = after /\ pc' = pc /\ DOMAIN stage' = DOMAIN stage
          /\ \A k \in DOMAIN stage : stage'[k] \in {"held", "running", "ran", "stopped", stage[k]}
      BY <1>10 DEF Checked, Drained, CallEnds, Move
    <2> QED
      BY <2>1 DEF Places
  <1>11. CASE ResultsReady
    <2>1. /\ after' = "results" /\ stage' = stage
          /\ \A k \in DOMAIN stage : stage[k] # "draining"
      BY <1>11 DEF ResultsReady, Checkpoint, At, Answered
    <2> QED
      BY <2>1 DEF Places
  <1>12. CASE Written
    <2>1. stage' = stage /\ after' = after /\ (pc' = pc \/ (pc' = after /\ Head(writes).by = "turn"))
      BY <1>12 DEF Written
    <2>2. CASE pc' = pc
      BY <2>1, <2>2 DEF Places
    <2>3. CASE pc' = after /\ Head(writes).by = "turn"
      <3>1. pc = "saving"
        BY <1>12, <2>3, WriteDone DEF Written, IInv, Roles
      <3> QED
        BY <2>1, <2>3, <3>1 DEF Places
    <2> QED
      BY <2>1, <2>2, <2>3
  <1>13. CASE WriteFails
    <2>1. /\ stage' = stage
          /\ \/ pc' = "idle" /\ after' = after
             \/ pc' = "saving" /\ after' = "idle"
             \/ pc' = pc /\ after' = after
      BY <1>13 DEF WriteFails
    <2> QED
      BY <2>1 DEF Places
  <1>14. CASE Stop
    BY <1>14 DEF Stop, Places
  <1>15. CASE Crash
    BY <1>15 DEF Crash, Places
  <1> QED
    BY <1>1, <1>2, <1>3, <1>4, <1>5, <1>6, <1>7, <1>8, <1>9, <1>10, <1>11, <1>12, <1>13, <1>14, <1>15
       DEF Next, Turn, Tools

(* Every step keeps the invariant. *)
LEMMA IInvStep == ASSUME IInv, Places, [Next]_vars PROVE IInv'
  <1>1. CASE UNCHANGED vars
    <2>1. /\ pc' = pc /\ after' = after /\ active' = active
          /\ session' = session /\ saved' = saved /\ writes' = writes
          /\ batch' = batch /\ stage' = stage /\ handler' = handler /\ budget' = budget
          /\ ran' = ran /\ accepted' = accepted
      BY <1>1 DEF vars, sessionVars, turnVars, batchVars, historyVars
    <2>2. Used' = Used
      BY <2>1 DEF Used
    <2>3. Sessions' /\ Queue' /\ Handled' /\ Kept'
      BY <2>1, <2>2 DEF IInv, Sessions, Queue, Handled, Kept
    <2>4. Roles' /\ Stages' /\ Requested' /\ Unsaid'
      BY <2>1 DEF IInv, Roles, Stages, Requested, Unsaid, Deciding
    <2> QED
      BY <2>3, <2>4 DEF IInv
  <1>2. CASE Turn
    BY <1>2, StepLoop, StepRefreshed, StepRetry, StepReplied, StepStreamDeadline, StepDecide,
       StepAskDeadline, StepPrepared, StepStartGroup, StepChecked, StepDrained, StepGroupDeadline,
       StepResultsReady, StepAfterResults, StepEnding, StepStopped DEF Turn, Tools
  <1>3. CASE Next /\ ~Turn
    BY <1>3, StepBeginTurn, StepLeave, StepHear, StepReply, StepStreamFails, StepStreamEnds,
       StepResolve, StepCallEnds, StepWritten, StepWriteFails, StepTimePasses, StepStop, StepCrash,
       StepControl, StepControlLoads, StepControlSaves DEF Next
  <1> QED
    BY <1>1, <1>2, <1>3

(* The places of a turn, and the stages of a call. *)
PcNames == {"idle", "saving", "loop", "refresh", "streaming", "retrying", "replied", "deciding",
            "asking", "preparing", "executing", "results", "ending", "stopping"}
StageNames == {"open", "asking", "chosen"} \cup Answered \cup InFlight

(* What TypeOK says of the turn. *)
Ranges ==
  /\ pc \in PcNames
  /\ DOMAIN request = DOMAIN NoRequest
  /\ request.provider \in 1..Providers /\ request.attempt \in 0..Retries
  /\ DOMAIN batch = DOMAIN stage
  /\ \A i \in DOMAIN stage : stage[i] \in StageNames

(* Ranges holds at the start. *)
LEMMA InitRanges == Init => Ranges
  <1>1. 1 \in 1..Providers /\ 0 \in 0..Retries
    BY AgentTurnAssumption
  <1>2. DOMAIN <<>> = {}
    OBVIOUS
  <1> QED
    BY <1>1, <1>2 DEF Init, Ranges, NoRequest, PcNames

(* What a step does to the request to a provider. *)
RequestMoves ==
  \/ request' = request
  \/ request' = NoRequest
  \/ \E h : request' = [request EXCEPT !.heard = h]
  \/ request.attempt < Retries /\ request' = [request EXCEPT !.attempt = @ + 1]
  \/ \E provider \in 1..Providers, attempt \in 0..Retries : \E over :
       request' = [provider |-> provider, attempt |-> attempt, heard |-> {}, over |-> over]

(* A request goes to a provider there is, as often as it may be tried. *)
LEMMA RequestRanges ==
  ASSUME Ranges, RequestMoves
  PROVE  /\ DOMAIN request' = DOMAIN NoRequest
         /\ request'.provider \in 1..Providers /\ request'.attempt \in 0..Retries
  <1>1. 1 \in 1..Providers /\ 0 \in 0..Retries /\ Retries \in Nat
    BY AgentTurnAssumption
  <1> QED
    BY <1>1 DEF Ranges, NoRequest, RequestMoves

(* Every step keeps Ranges. *)
LEMMA RangesStep == ASSUME IInv, Places, Ranges, [Next]_vars PROVE Ranges'
  <1> USE DEF batchVars, turnVars
  <1>n. /\ Goals \cup {"deciding"} \subseteq PcNames /\ after \in PcNames
        /\ {"saving", "streaming", "retrying", "asking", "preparing", "executing", "stopping"} \subseteq PcNames
    BY DEF Goals, PcNames, Places
  <1>e. DOMAIN <<>> = {}
    OBVIOUS
  <1>a. 0 \in 0..Retries
    BY AgentTurnAssumption
  <1>1. CASE UNCHANGED vars
    BY <1>1 DEF Ranges, vars
  <1>2. CASE BeginTurn \/ AfterResults
    <2>1. /\ pc' \in {"saving", "loop"} /\ request' = request /\ batch' = <<>> /\ stage' = <<>>
      BY <1>2 DEF BeginTurn, AfterResults, Checkpoint
    <2> QED
      BY <2>1, <1>e, <1>n DEF Ranges, Goals
  <1>3. CASE Leave \/ TimePasses \/ Control \/ ControlLoads \/ ControlSaves
    BY <1>3 DEF Ranges, Leave, TimePasses, Control, ControlLoads, ControlSaves
  <1>4. CASE Loop \/ Refreshed \/ Retry \/ Replied \/ StreamDeadline \/ StreamFails \/ Hear \/ Reply
    <2>1. /\ pc' \in {"saving", "loop", "refresh", "streaming", "retrying"}
          /\ batch' = batch /\ stage' = stage
      BY <1>4 DEF Loop, Refreshed, Retry, Replied, StreamDeadline, StreamFails, Hear, Reply,
                  Checkpoint, Finish, Ask
    <2>2. ASSUME Loop \/ Replied PROVE RequestMoves
      BY <2>2 DEF Loop, Replied, RequestMoves
    <2>3. ASSUME Refreshed PROVE RequestMoves
      <3>1. \/ request' = request
            \/ \E provider \in 1..Providers : Ask(provider, 0)
        BY <2>3 DEF Refreshed
      <3> QED
        BY <3>1, <1>a DEF Ask, RequestMoves
    <2>4. ASSUME StreamDeadline \/ Reply PROVE RequestMoves
      BY <2>4 DEF StreamDeadline, Reply, RequestMoves
    <2>5. ASSUME Hear PROVE RequestMoves
      BY <2>5 DEF Hear, RequestMoves
    <2>6. ASSUME Retry PROVE RequestMoves
      BY <2>6 DEF Retry, Ask, Ranges, RequestMoves
    <2>7. ASSUME StreamFails PROVE RequestMoves
      <3>1. CASE request.attempt < Retries /\ request' = [request EXCEPT !.attempt = @ + 1]
        BY <3>1 DEF RequestMoves
      <3>2. CASE request.provider < Providers /\ Ask(request.provider + 1, 0)
        <4>1. request.provider + 1 \in 1..Providers
          BY <3>2, AgentTurnAssumption DEF Ranges
        <4> QED
          BY <3>2, <4>1, <1>a DEF Ask, RequestMoves
      <3>3. CASE request' = NoRequest
        BY <3>3 DEF RequestMoves
      <3> QED
        BY <2>7, <3>1, <3>2, <3>3 DEF StreamFails
    <2>8. RequestMoves
      BY <1>4, <2>2, <2>3, <2>4, <2>5, <2>6, <2>7
    <2>9. /\ DOMAIN request' = DOMAIN NoRequest
          /\ request'.provider \in 1..Providers /\ request'.attempt \in 0..Retries
      BY <2>8, RequestRanges
    <2> QED
      BY <2>1, <2>9, <1>n DEF Ranges, Goals
  <1>5. CASE AskDeadline \/ Prepared \/ Ending \/ Stopped \/ ResultsReady
    <2>1. /\ pc' \in {"saving", "executing"} /\ request' = request /\ batch' = batch /\ stage' = stage
      BY <1>5 DEF AskDeadline, Prepared, Ending, Stopped, ResultsReady, Checkpoint, Finish
    <2> QED
      BY <2>1, <1>n DEF Ranges
  <1>6. CASE StreamEnds
    <2>1. RequestMoves
      BY <1>6 DEF StreamEnds, RequestMoves
    <2>2. /\ DOMAIN request' = DOMAIN NoRequest
          /\ request'.provider \in 1..Providers /\ request'.attempt \in 0..Retries
      BY <2>1, RequestRanges
    <2>3. PICK b \in Batch :
            \/ Finish(session) /\ UNCHANGED <<batch, stage>>
            \/ batch' = Calls(b) /\ stage' = [i \in 1..Len(b) |-> "open"] /\ pc' = "saving"
      BY <1>6 DEF StreamEnds, Checkpoint
    <2>4. CASE Finish(session) /\ UNCHANGED <<batch, stage>>
      BY <2>2, <2>4, <1>n DEF Ranges, Finish, Checkpoint
    <2>5. CASE batch' = Calls(b) /\ stage' = [i \in 1..Len(b) |-> "open"] /\ pc' = "saving"
      <3>1. DOMAIN batch' = 1..Len(b)
        BY <2>5 DEF Calls
      <3>2. DOMAIN stage' = 1..Len(b) /\ \A i \in 1..Len(b) : stage'[i] = "open"
        BY <2>5
      <3> QED
        BY <2>2, <2>5, <3>1, <3>2, <1>n DEF Ranges, StageNames
    <2> QED
      BY <2>3, <2>4, <2>5
  <1>7. CASE Decide \/ Resolve
    <2>1. /\ pc' \in {"asking", "preparing", "executing", "deciding"} /\ request' = request /\ batch' = batch
          /\ DOMAIN stage' = DOMAIN stage
          /\ \A k \in DOMAIN stage : stage'[k] \in {"no", "chosen", "asking", stage[k]}
      BY <1>7 DEF Decide, Resolve
    <2> QED
      BY <2>1, <1>n DEF Ranges, StageNames, Answered
  <1>8. CASE StartGroup \/ GroupDeadline
    <2>1. /\ pc' = pc /\ request' = request /\ batch' = batch
          /\ DOMAIN stage' = DOMAIN stage
          /\ \A k \in DOMAIN stage : stage'[k] \in {"held", "running", "checked", "draining", "stopped", stage[k]}
      BY <1>8, CutFacts DEF StartGroup, GroupDeadline
    <2> QED
      BY <2>1 DEF Ranges, StageNames, Answered, InFlight
  <1>9. ASSUME NEW i \in DOMAIN stage, Checked(i) \/ Drained(i) \/ CallEnds(i) PROVE Ranges'
    <2>1. /\ pc' = pc /\ request' = request /\ batch' = batch /\ DOMAIN stage' = DOMAIN stage
          /\ \A k \in DOMAIN stage : stage'[k] \in {"held", "running", "ran", "stopped", stage[k]}
      BY <1>9 DEF Checked, Drained, CallEnds, Move
    <2> QED
      BY <2>1 DEF Ranges, StageNames, Answered, InFlight
  <1>10. CASE Written \/ WriteFails
    <2>1. /\ pc' \in {pc, after, "idle", "saving"} /\ request' = request /\ batch' = batch /\ stage' = stage
      BY <1>10 DEF Written, WriteFails
    <2> QED
      BY <2>1, <1>n DEF Ranges, PcNames
  <1>11. CASE Stop \/ Crash
    <2>1. /\ pc' \in {"idle", "saving", "stopping"} /\ RequestMoves /\ batch' = batch /\ stage' = Cut
      BY <1>11 DEF Stop, Crash, RequestMoves
    <2>2. /\ DOMAIN stage' = DOMAIN stage
          /\ \A k \in DOMAIN stage : stage'[k] \in {"draining", "stopped", stage[k]}
      BY <2>1 DEF Cut
    <2>3. /\ DOMAIN request' = DOMAIN NoRequest
          /\ request'.provider \in 1..Providers /\ request'.attempt \in 0..Retries
      BY <2>1, RequestRanges
    <2> QED
      BY <2>1, <2>2, <2>3 DEF Ranges, PcNames, StageNames, Answered, InFlight
  <1> QED
    BY <1>1, <1>2, <1>3, <1>4, <1>5, <1>6, <1>7, <1>8, <1>9, <1>10, <1>11
       DEF Next, Turn, Tools

(* The invariant holds of every reachable state. *)
LEMMA AlwaysIInv == Spec => [](IInv /\ Places /\ Ranges)
  <1>1. Init => IInv /\ Places /\ Ranges
    BY InitIInv, InitPlaces, InitRanges
  <1>2. IInv /\ Places /\ Ranges /\ [Next]_vars => (IInv /\ Places /\ Ranges)'
    BY IInvStep, PlacesStep, RangesStep
  <1> QED
    BY <1>1, <1>2, PTL DEF Spec
-----------------------------------------------------------------------------
(* FlattenSeq of lists.                                                    *)

(* Induction over numbers, stated of a set. *)
LEMMA SetInduction ==
  ASSUME NEW S, 1 \in S, \A m \in Nat \ {0} : m \in S => m + 1 \in S
  PROVE  Nat \ {0} \subseteq S
  <1> DEFINE Bad == (Nat \ {0}) \ S
  <1>1. CASE Bad # {}
    <2>1. Bad \subseteq Nat
      OBVIOUS
    <2>2. PICK m : m = First(Bad)
      OBVIOUS
    <2>3. m \in Bad /\ \A j \in Bad : m <= j
      <3> HIDE DEF Bad
      <3> QED
        BY <1>1, <2>1, <2>2, FirstIn
    <2>4. m # 1 /\ m - 1 \in Nat \ {0} /\ m - 1 \notin Bad
      BY <2>3
    <2>5. (m - 1) + 1 \in S
      BY <2>4
    <2> QED
      BY <2>3, <2>5
  <1> QED
    BY <1>1

(* f joins the members of ss up to the m-th, one after the other: the
   recursion of FlattenSeq. *)
Joins(f, ss, m) == f = [i \in 1..m |-> IF i = 1 THEN ss[i] ELSE f[i - 1] \o ss[i]]

(* What joins m members can be extended to one more, *)
LEMMA JoinsMore ==
  ASSUME NEW f, NEW ss, NEW m \in Nat \ {0}, Joins(f, ss, m)
  PROVE  \E g : Joins(g, ss, m + 1)
  <1> DEFINE g == [i \in 1..(m + 1) |-> IF i = m + 1 THEN f[m] \o ss[m + 1] ELSE f[i]]
  <1>1. \A i \in 1..m : f[i] = IF i = 1 THEN ss[i] ELSE f[i - 1] \o ss[i]
    BY Zenon DEF Joins
  <1>2. g[m + 1] = f[m] \o ss[m + 1] /\ \A i \in 1..m : g[i] = f[i]
    <2>1. m + 1 \in 1..(m + 1) /\ \A i \in 1..m : i \in 1..(m + 1) /\ i # m + 1
      OBVIOUS
    <2> QED
      BY <2>1, Zenon
  <1>3. m + 1 # 1 /\ (m + 1) - 1 = m /\ m \in 1..m
    OBVIOUS
  <1>4. ASSUME NEW i \in 1..(m + 1) PROVE g[i] = IF i = 1 THEN ss[i] ELSE g[i - 1] \o ss[i]
    <2>1. CASE i = m + 1
      <3> HIDE DEF g
      <3> QED
        BY <1>2, <1>3, <2>1
    <2>2. CASE i \in 1..m
      <3>1. i = 1 \/ i - 1 \in 1..m
        BY <2>2
      <3> HIDE DEF g
      <3> QED
        BY <1>1, <1>2, <2>2, <3>1
    <2> QED
      BY <2>1, <2>2
  <1>5. g = [i \in 1..(m + 1) |-> g[i]]
    OBVIOUS
  <1> HIDE DEF g
  <1>6. [i \in 1..(m + 1) |-> g[i]] = [i \in 1..(m + 1) |-> IF i = 1 THEN ss[i] ELSE g[i - 1] \o ss[i]]
    BY <1>4, Zenon
  <1>7. g = [i \in 1..(m + 1) |-> IF i = 1 THEN ss[i] ELSE g[i - 1] \o ss[i]]
    BY <1>5, <1>6, Zenon
  <1> QED
    BY <1>7, Zenon DEF Joins

(* so FlattenSeq joins all of them, step by step. *)
LEMMA FlattenSteps ==
  ASSUME NEW ss, Len(ss) \in Nat \ {0}
  PROVE  \E f : /\ f[1] = ss[1]
                /\ \A i \in 2..Len(ss) : f[i] = f[i - 1] \o ss[i]
                /\ FlattenSeq(ss) = f[Len(ss)]
  <1> DEFINE S == {m \in Nat \ {0} : \E f : Joins(f, ss, m)}
  <1>1. 1 \in S
    <2>1. PICK f : f = [i \in 1..1 |-> ss[i]]
      OBVIOUS
    <2>2. f = [i \in 1..1 |-> IF i = 1 THEN ss[i] ELSE f[i - 1] \o ss[i]]
      <3>1. \A i \in 1..1 : i = 1
        OBVIOUS
      <3> QED
        BY <2>1, <3>1, Zenon
    <2>3. Joins(f, ss, 1)
      BY <2>2, Zenon DEF Joins
    <2> QED
      BY <2>3
  <1>2. \A m \in Nat \ {0} : m \in S => m + 1 \in S
    BY JoinsMore
  <1> HIDE DEF S
  <1>3. Len(ss) \in S
    BY <1>1, <1>2, SetInduction
  <1>4. PICK f : f = CHOOSE g : g = [i \in 1..Len(ss) |-> IF i = 1 THEN ss[i] ELSE g[i - 1] \o ss[i]]
    OBVIOUS
  <1>5. f = [i \in 1..Len(ss) |-> IF i = 1 THEN ss[i] ELSE f[i - 1] \o ss[i]]
    <2>1. \E g : g = [i \in 1..Len(ss) |-> IF i = 1 THEN ss[i] ELSE g[i - 1] \o ss[i]]
      BY <1>3, Zenon DEF S, Joins
    <2> QED
      BY <1>4, <2>1, Zenon
  <1>6. FlattenSeq(ss) = f[Len(ss)]
    <2>1. Len(ss) # 0
      OBVIOUS
    <2> QED
      BY <1>4, <2>1, Zenon DEF FlattenSeq
  <1>7. \A i \in 1..Len(ss) : f[i] = IF i = 1 THEN ss[i] ELSE f[i - 1] \o ss[i]
    BY <1>5, Zenon
  <1>8. 1 \in 1..Len(ss) /\ \A i \in 2..Len(ss) : i \in 1..Len(ss) /\ i # 1
    OBVIOUS
  <1> QED
    BY <1>6, <1>7, <1>8, Zenon

(* Joining empty lists. *)
LEMMA FlattenEmpty ==
  ASSUME NEW ss, Len(ss) \in Nat \ {0}, \A i \in 1..Len(ss) : ss[i] = <<>>
  PROVE  FlattenSeq(ss) = <<>>
  <1>1. PICK f : /\ f[1] = ss[1]
                 /\ \A i \in 2..Len(ss) : f[i] = f[i - 1] \o ss[i]
                 /\ FlattenSeq(ss) = f[Len(ss)]
    BY FlattenSteps
  <1> DEFINE S == {m \in Nat \ {0} : m <= Len(ss) => f[m] = <<>>}
  <1>2. 1 \in S
    BY <1>1
  <1>3. \A m \in Nat \ {0} : m \in S => m + 1 \in S
    <2> SUFFICES ASSUME NEW m \in Nat \ {0}, m \in S, m + 1 <= Len(ss) PROVE f[m + 1] = <<>>
      OBVIOUS
    <2>1. m + 1 \in 2..Len(ss) /\ m + 1 \in 1..Len(ss) /\ (m + 1) - 1 = m /\ f[m] = <<>>
      OBVIOUS
    <2>2. f[m + 1] = <<>> \o <<>>
      BY <1>1, <2>1
    <2> QED
      BY <2>2
  <1> HIDE DEF S
  <1>4. Len(ss) \in S
    BY <1>2, <1>3, SetInduction
  <1> QED
    BY <1>1, <1>4 DEF S

(* Joining lists of which the last only is not empty. *)
LEMMA FlattenLast ==
  ASSUME NEW ss, Len(ss) \in Nat \ {0}, \A i \in 1..(Len(ss) - 1) : ss[i] = <<>>, Listed(ss[Len(ss)])
  PROVE  FlattenSeq(ss) = ss[Len(ss)]
  <1>1. PICK f : /\ f[1] = ss[1]
                 /\ \A i \in 2..Len(ss) : f[i] = f[i - 1] \o ss[i]
                 /\ FlattenSeq(ss) = f[Len(ss)]
    BY FlattenSteps
  <1> DEFINE S == {m \in Nat \ {0} : m < Len(ss) => f[m] = <<>>}
  <1>2. 1 \in S
    BY <1>1
  <1>3. \A m \in Nat \ {0} : m \in S => m + 1 \in S
    <2> SUFFICES ASSUME NEW m \in Nat \ {0}, m \in S, m + 1 < Len(ss) PROVE f[m + 1] = <<>>
      OBVIOUS
    <2>1. m + 1 \in 2..Len(ss) /\ m + 1 \in 1..(Len(ss) - 1) /\ (m + 1) - 1 = m /\ f[m] = <<>>
      OBVIOUS
    <2>2. f[m + 1] = <<>> \o <<>>
      BY <1>1, <2>1
    <2> QED
      BY <2>2
  <1> HIDE DEF S
  <1>4. CASE Len(ss) = 1
    BY <1>1, <1>4
  <1>5. CASE Len(ss) # 1
    <2> DEFINE n == Len(ss)
    <2>1. n - 1 \in S /\ n \in 2..n
      <3>1. n - 1 \in Nat \ {0} /\ n \in 2..n
        <4>1. n \in Nat \ {0} /\ n # 1
          BY <1>5
        <4> HIDE DEF n
        <4> QED
          BY <4>1
      <3> QED
        BY <1>2, <1>3, <3>1, SetInduction
    <2>2. f[n - 1] = <<>>
      BY <2>1 DEF S
    <2>3. PICK last : last = ss[n]
      OBVIOUS
    <2>4. f[n] = <<>> \o last
      BY <1>1, <2>1, <2>2, <2>3
    <2>5. <<>> \o last = last
      <3>1. last \in Seq({last[i] : i \in DOMAIN last})
        BY <2>3 DEF Listed
      <3> DEFINE T == {last[i] : i \in DOMAIN last}
      <3> HIDE DEF T
      <3>2. last \in Seq(T)
        BY <3>1 DEF T
      <3> QED
        BY <3>2
    <2> QED
      BY <1>1, <2>3, <2>4, <2>5
  <1> QED
    BY <1>4, <1>5

(* Joining the elements of a list. *)
LEMMA FlattenSingles ==
  ASSUME NEW x, Listed(x), x # <<>>, NEW ss, Len(ss) = Len(x), \A k \in 1..Len(x) : ss[k] = <<x[k]>>
  PROVE  FlattenSeq(ss) = x
  <1>n. Len(x) \in Nat \ {0} /\ DOMAIN x = 1..Len(x)
    <2> DEFINE T == {x[i] : i \in DOMAIN x}
    <2>1. x \in Seq(T)
      BY DEF Listed
    <2> HIDE DEF T
    <2> QED
      BY <2>1
  <1>1. PICK f : /\ f[1] = ss[1]
                 /\ \A i \in 2..Len(ss) : f[i] = f[i - 1] \o ss[i]
                 /\ FlattenSeq(ss) = f[Len(ss)]
    BY <1>n, FlattenSteps
  <1> DEFINE Is(y, m) == Listed(y) /\ Len(y) = m /\ \A k \in 1..m : y[k] = x[k]
  <1> DEFINE S == {m \in Nat \ {0} : m <= Len(x) => Is(f[m], m)}
  <1>2. 1 \in S
    <2>1. f[1] = <<x[1]>>
      BY <1>1, <1>n
    <2>2. Is(f[1], 1)
      BY <2>1, ListedSingle
    <2> QED
      BY <2>2
  <1>3. \A m \in Nat \ {0} : m \in S => m + 1 \in S
    <2> SUFFICES ASSUME NEW m \in Nat \ {0}, m \in S, m + 1 <= Len(x) PROVE Is(f[m + 1], m + 1)
      OBVIOUS
    <2>1. m + 1 \in 2..Len(ss) /\ m + 1 \in 1..Len(x) /\ (m + 1) - 1 = m /\ Is(f[m], m)
      BY <1>n
    <2>2. PICK y, e : y = f[m] /\ e = <<x[m + 1]>>
      OBVIOUS
    <2>3. f[m + 1] = y \o e
      BY <1>1, <2>1, <2>2
    <2>4. Is(y, m)
      BY <2>1, <2>2
    <2>5. Listed(e) /\ Len(e) = 1 /\ e[1] = x[m + 1]
      BY <2>2, ListedSingle
    <2>6. /\ Listed(y \o e) /\ Len(y \o e) = m + 1
          /\ \A i \in 1..m : (y \o e)[i] = y[i]
          /\ (y \o e)[m + 1] = e[1]
      <3>1. /\ Listed(y \o e) /\ Len(y \o e) = Len(y) + Len(e)
            /\ \A i \in 1..Len(y) : (y \o e)[i] = y[i]
            /\ \A i \in 1..Len(e) : (y \o e)[Len(y) + i] = e[i]
        <4>1. Listed(y) /\ Listed(e)
          BY <2>4, <2>5
        <4> HIDE DEF S, Is
        <4> QED
          BY <4>1, ListedConcat
      <3>2. 1 \in 1..Len(e)
        BY <2>5
      <3> QED
        BY <2>4, <2>5, <3>1, <3>2
    <2>7. Is(y \o e, m + 1)
      BY <2>4, <2>5, <2>6
    <2> QED
      BY <2>3, <2>7
  <1> HIDE DEF S
  <1>4. Len(x) \in S
    BY <1>n, <1>2, <1>3, SetInduction
  <1>5. PICK y : y = FlattenSeq(ss)
    OBVIOUS
  <1>6. Is(y, Len(x))
    BY <1>n, <1>1, <1>4, <1>5 DEF S
  <1> DEFINE T == {x[i] : i \in DOMAIN x} \cup {y[i] : i \in DOMAIN y}
  <1>7. x \in Seq(T) /\ y \in Seq(T)
    BY <1>6 DEF Listed
  <1> HIDE DEF T
  <1>8. y = x
    BY <1>6, <1>7
  <1> QED
    BY <1>5, <1>8
-----------------------------------------------------------------------------
(* Paired sessions.                                                        *)

(* The calls of a request, numbered by its place in the log. *)
Formed(m, i) ==
  m.type = "calls" =>
    /\ Listed(m.calls) /\ m.calls # <<>>
    /\ \A k \in DOMAIN m.calls : m.calls[k].n = <<i, k>> /\ m.calls[k].id = <<IF FreshIds THEN i ELSE 0, k>>

(* The results of just these calls, in their order. *)
Matches(as, cs) ==
  Listed(as) /\ Len(as) = Len(cs) /\ \A k \in DOMAIN cs : as[k].n = cs[k].n /\ as[k].id = cs[k].id

(* A request is followed by its results, *)
Asked(L, i) == L[i].type = "calls" /\ i < Len(L) => L[i + 1].type = "results"
Told(L, i)  == L[i].type = "results" => i > 1 /\ L[i - 1].type = "calls" /\ Matches(L[i].answers, L[i - 1].calls)

(* Nothing but the last request of a log waits for its results. *)
PairedLog(L) == Listed(L) /\ \A i \in DOMAIN L : Formed(L[i], i) /\ Asked(L, i) /\ Told(L, i)

(* Nor does that one. *)
Ended(L) == Len(L) > 0 => L[Len(L)].type # "calls"

(* The cut leaves a message, and no result without its request. *)
CutWell(s) ==
  /\ s.cut \in Nat /\ (s.cut = 0 \/ s.cut < Len(s.log))
  /\ s.cut + 1 \in DOMAIN s.log => s.log[s.cut + 1].type # "results"

(* A session whose messages are paired. *)
Matched(s) == PairedLog(s.log) /\ CutWell(s)

(* The log M is L and one more message, which may follow. *)
Grown(L, m, M) ==
  /\ M = L \o <<m>> /\ Formed(m, Len(L) + 1)
  /\ m.type # "results" => Ended(L)
  /\ m.type = "results" => Len(L) > 0 /\ L[Len(L)].type = "calls" /\ Matches(m.answers, L[Len(L)].calls)

(* The log grows by one message. *)
LEMMA PairedAppend ==
  ASSUME NEW L, PairedLog(L), NEW m, NEW M, Grown(L, m, M)
  PROVE  /\ PairedLog(M) /\ Len(M) = Len(L) + 1 /\ M[Len(L) + 1] = m
         /\ \A i \in 1..Len(L) : M[i] = L[i]
  <1> DEFINE n == Len(L)
  <1>1. Listed(L) /\ n \in Nat /\ DOMAIN L = 1..n
    BY ListFacts DEF PairedLog
  <1>2. /\ Listed(M) /\ Len(M) = n + 1 /\ M[n + 1] = m
        /\ \A i \in 1..n : M[i] = L[i]
    BY <1>1, ListedSingle, ListedConcat DEF Grown
  <1>3. DOMAIN M = 1..(n + 1)
    BY <1>2, ListFacts
  <1>4. Formed(m, n + 1) /\ (m.type # "results" => Ended(L))
    BY DEF Grown
  <1>5. m.type = "results" => n > 0 /\ L[n].type = "calls" /\ Matches(m.answers, L[n].calls)
    BY DEF Grown
  <1>6. n > 0 /\ L[n].type = "calls" => m.type = "results"
    BY <1>4 DEF Ended
  <1> HIDE DEF n
  <1>7. ASSUME NEW i \in 1..(n + 1) PROVE Formed(M[i], i) /\ Asked(M, i) /\ Told(M, i)
    <2>1. CASE i = n + 1
      <3>1. Formed(M[i], i)
        BY <1>2, <1>4, <2>1
      <3>2. Asked(M, i)
        BY <1>1, <1>2, <2>1 DEF Asked
      <3>3. m.type = "results" => n \in 1..n
        BY <1>1, <1>5
      <3>4. i - 1 = n
        BY <1>1, <2>1
      <3>5. Told(M, i)
        BY <1>1, <1>2, <1>5, <2>1, <3>3, <3>4 DEF Told
      <3> QED
        BY <3>1, <3>2, <3>5
    <2>2. CASE i \in 1..n
      <3>1. Formed(L[i], i) /\ Asked(L, i) /\ Told(L, i) /\ M[i] = L[i]
        BY <1>1, <1>2, <2>2 DEF PairedLog
      <3>2. Asked(M, i)
        <4>1. CASE i = n
          BY <1>1, <1>2, <1>6, <2>2, <3>1, <4>1 DEF Asked
        <4>2. CASE i < n
          <5>1. i + 1 \in 1..n /\ Len(L) = n
            BY <1>1, <2>2, <4>2 DEF n
          <5> QED
            BY <1>1, <1>2, <4>2, <3>1, <5>1 DEF Asked
        <4> QED
          BY <1>1, <2>2, <4>1, <4>2
      <3>3. Told(M, i)
        <4>1. i > 1 => i - 1 \in 1..n
          BY <1>1, <2>2
        <4> QED
          BY <1>2, <3>1, <4>1 DEF Told
      <3> QED
        BY <3>1, <3>2, <3>3
    <2> QED
      BY <1>1, <2>1, <2>2
  <1> QED
    BY <1>2, <1>3, <1>7 DEF PairedLog, n

(* A cut stays well when the log grows. *)
LEMMA CutAppend ==
  ASSUME NEW s, NEW t, CutWell(s), Listed(s.log), Listed(t.log), t.cut = s.cut, Len(t.log) = Len(s.log) + 1,
         \A i \in 1..Len(s.log) : t.log[i] = s.log[i],
         t.log[Len(s.log) + 1].type = "results" => Len(s.log) > 0
  PROVE  CutWell(t)
  <1>1. /\ Len(s.log) \in Nat /\ DOMAIN s.log = 1..Len(s.log)
        /\ DOMAIN t.log = 1..(Len(s.log) + 1)
    BY ListFacts
  <1>2. CASE s.cut < Len(s.log)
    <2>1. s.cut + 1 \in 1..Len(s.log)
      BY <1>1, <1>2 DEF CutWell
    <2> QED
      BY <1>1, <1>2, <2>1 DEF CutWell
  <1>3. CASE s.cut = 0 /\ Len(s.log) = 0
    BY <1>1, <1>3 DEF CutWell
  <1> QED
    BY <1>1, <1>2, <1>3 DEF CutWell

(* Add changes the log alone. *)
LEMMA AddFields ==
  ASSUME NEW s, DOMAIN s = DOMAIN Empty, NEW ms
  PROVE  Add(s, ms).log = s.log \o ms /\ Add(s, ms).cut = s.cut
  BY DEF Add, Empty

(* A request after the end of the last batch. *)
LEMMA RequestMatched ==
  ASSUME NEW s, DOMAIN s = DOMAIN Empty, Matched(s), Ended(s.log), NEW cs, Formed(Request(cs), Len(s.log) + 1)
  PROVE  LET t == Add(s, <<Request(cs)>>)
         IN Matched(t) /\ Len(t.log) > 0 /\ t.log[Len(t.log)] = Request(cs)
  <1>1. PICK t, m : m = Request(cs) /\ t = Add(s, <<m>>)
    OBVIOUS
  <1>2. t.log = s.log \o <<m>> /\ t.cut = s.cut
    BY <1>1, AddFields
  <1>3. m.type = "calls" /\ m.type # "results"
    BY <1>1, MessageFacts
  <1>4. /\ PairedLog(t.log) /\ Len(t.log) = Len(s.log) + 1 /\ t.log[Len(s.log) + 1] = m
        /\ \A i \in 1..Len(s.log) : t.log[i] = s.log[i]
    <2>1. Grown(s.log, m, t.log) /\ PairedLog(s.log)
      BY <1>1, <1>2, <1>3 DEF Grown, Matched
    <2> QED
      BY <2>1, PairedAppend
  <1>5. CutWell(t)
    BY <1>2, <1>3, <1>4, CutAppend DEF Matched, PairedLog
  <1>6. Len(s.log) \in Nat
    BY ListFacts DEF Matched, PairedLog
  <1> QED
    BY <1>1, <1>4, <1>5, <1>6 DEF Matched

(* The results of the last request. *)
LEMMA ResultsMatched ==
  ASSUME NEW s, DOMAIN s = DOMAIN Empty, Matched(s), Len(s.log) > 0, NEW as,
         s.log[Len(s.log)].type = "calls", Matches(as, s.log[Len(s.log)].calls)
  PROVE  Matched(Add(s, <<Results(as)>>)) /\ Ended(Add(s, <<Results(as)>>).log)
  <1>1. PICK t, m : m = Results(as) /\ t = Add(s, <<m>>)
    OBVIOUS
  <1>2. t.log = s.log \o <<m>> /\ t.cut = s.cut
    BY <1>1, AddFields
  <1>3. m.type = "results" /\ m.answers = as /\ Formed(m, Len(s.log) + 1)
    BY <1>1, MessageFacts DEF Formed
  <1>4. /\ PairedLog(t.log) /\ Len(t.log) = Len(s.log) + 1 /\ t.log[Len(s.log) + 1] = m
        /\ \A i \in 1..Len(s.log) : t.log[i] = s.log[i]
    <2>1. Grown(s.log, m, t.log) /\ PairedLog(s.log)
      BY <1>2, <1>3 DEF Grown, Matched
    <2> QED
      BY <2>1, PairedAppend
  <1>5. CutWell(t)
    BY <1>2, <1>3, <1>4, CutAppend DEF Matched, PairedLog
  <1> QED
    BY <1>1, <1>3, <1>4, <1>5 DEF Matched, Ended

(* Steering and mode say nothing of the pairing. *)
LEMMA SameLog ==
  ASSUME NEW s, NEW t, t.log = s.log, t.cut = s.cut, Matched(s)
  PROVE  Matched(t)
  BY DEF Matched, CutWell

(* Messages that are neither requests nor results. *)
Plain(ms) == Listed(ms) /\ \A j \in DOMAIN ms : ms[j].type \in {"user", "text"}

(* They may follow the end of a batch. *)
LEMMA PlainsMatched ==
  ASSUME NEW s, Matched(s), Ended(s.log), NEW ms, Plain(ms), NEW t, t.log = s.log \o ms, t.cut = s.cut
  PROVE  Matched(t) /\ Ended(t.log)
  <1> DEFINE n == Len(s.log)
  <1> DEFINE k == Len(ms)
  <1>1. Listed(s.log) /\ n \in Nat /\ DOMAIN s.log = 1..n /\ Listed(ms) /\ k \in Nat /\ DOMAIN ms = 1..k
    BY ListFacts DEF Matched, PairedLog, Plain
  <1>2. PICK L, M : L = s.log /\ M = t.log
    OBVIOUS
  <1>3. /\ Listed(M) /\ Len(M) = n + k
        /\ \A i \in 1..n : M[i] = L[i]
        /\ \A i \in 1..k : M[n + i] = ms[i]
    <2>1. Listed(L) /\ Listed(ms) /\ M = L \o ms
      BY <1>1, <1>2
    <2>2. /\ Listed(M) /\ Len(M) = Len(L) + Len(ms)
          /\ \A i \in 1..Len(L) : M[i] = L[i]
          /\ \A i \in 1..Len(ms) : M[Len(L) + i] = ms[i]
      BY <2>1, ListedConcat
    <2> QED
      BY <1>2, <2>2
  <1>4. DOMAIN M = 1..(n + k)
    BY <1>3, ListFacts
  <1>5. n > 0 => L[n].type # "calls"
    BY <1>2 DEF Ended
  <1>6. \A i \in 1..n : Formed(L[i], i) /\ Asked(L, i) /\ Told(L, i)
    BY <1>1, <1>2 DEF Matched, PairedLog
  <1>7. n = Len(L)
    BY <1>2
  <1> HIDE DEF n, k
  <1>8. \A i \in 1..(n + k) : i \notin 1..n => M[i].type \in {"user", "text"}
    <2> SUFFICES ASSUME NEW i \in 1..(n + k), i \notin 1..n PROVE M[i].type \in {"user", "text"}
      OBVIOUS
    <2>1. i - n \in 1..k /\ n + (i - n) = i
      BY <1>1
    <2>2. PICK j \in 1..k : n + j = i
      BY <2>1
    <2>3. M[i] = ms[j]
      BY <1>3, <2>2
    <2> QED
      BY <1>1, <2>3 DEF Plain
  <1>9. ASSUME NEW i \in 1..(n + k) PROVE Formed(M[i], i) /\ Asked(M, i) /\ Told(M, i)
    <2>1. CASE i \notin 1..n
      BY <1>8, <2>1 DEF Formed, Asked, Told
    <2>2. CASE i \in 1..n
      <3>1. Formed(M[i], i)
        BY <1>3, <1>6, <2>2
      <3>2. Asked(M, i)
        <4>1. CASE i = n
          BY <1>1, <1>3, <1>5, <2>2, <4>1 DEF Asked
        <4>2. CASE i < n
          <5>1. i + 1 \in 1..n
            BY <1>1, <2>2, <4>2
          <5> QED
            BY <1>3, <1>6, <1>7, <2>2, <4>2, <5>1 DEF Asked
        <4> QED
          BY <1>1, <2>2, <4>1, <4>2
      <3>3. Told(M, i)
        <4>1. i > 1 => i - 1 \in 1..n
          BY <1>1, <2>2
        <4> QED
          BY <1>3, <1>6, <2>2, <4>1 DEF Told
      <3> QED
        BY <3>1, <3>2, <3>3
    <2> QED
      BY <2>1, <2>2
  <1>10. PairedLog(M)
    BY <1>3, <1>4, <1>9 DEF PairedLog
  <1>11. Ended(M)
    <2>1. CASE k = 0
      BY <1>1, <1>3, <1>5, <2>1 DEF Ended
    <2>2. CASE k # 0
      <3>1. n + k \in 1..(n + k) /\ n + k \notin 1..n
        BY <1>1, <2>2
      <3> QED
        BY <1>3, <1>8, <3>1 DEF Ended
    <2> QED
      BY <2>1, <2>2
  <1>12. CutWell(t)
    <2>1. s.cut \in Nat /\ (s.cut = 0 \/ s.cut < n) /\ (s.cut + 1 \in 1..n => L[s.cut + 1].type # "results")
      BY <1>1, <1>2 DEF Matched, CutWell, n
    <2>2. s.cut + 1 \in 1..(n + k) => M[s.cut + 1].type # "results"
      BY <1>1, <1>3, <1>8, <2>1
    <2> QED
      BY <1>1, <1>2, <1>3, <1>4, <2>1, <2>2 DEF CutWell
  <1> QED
    BY <1>2, <1>10, <1>11, <1>12 DEF Matched

(* The messages of a session, by their places in the log. *)
LEMMA MessagesAre ==
  ASSUME NEW s, Matched(s), NEW ms, ms = Messages(s)
  PROVE  /\ Listed(ms) /\ Len(ms) \in Nat /\ Len(ms) = Len(s.log) - s.cut
         /\ \A i \in 1..Len(ms) : ms[i] = s.log[s.cut + i] /\ s.cut + i \in DOMAIN s.log
         /\ Len(ms) > 0 <=> Len(s.log) > 0
  <1> DEFINE n == Len(s.log)
  <1> DEFINE T == {s.log[i] : i \in DOMAIN s.log}
  <1>1. Listed(s.log) /\ n \in Nat /\ DOMAIN s.log = 1..n /\ s.cut \in Nat /\ (s.cut = 0 \/ s.cut < n)
    BY ListFacts DEF Matched, PairedLog, CutWell
  <1>2. \A i \in (s.cut + 1)..n : s.log[i] \in T
    BY <1>1
  <1> HIDE DEF T
  <1>3. ms = SubSeq(s.log, s.cut + 1, n)
    BY DEF Messages
  <1> HIDE DEF n
  <1>c. PICK c \in Nat : c = s.cut
    BY <1>1
  <1>n. n \in Nat /\ (c = 0 \/ c < n) /\ DOMAIN s.log = 1..n
    BY <1>1, <1>c
  <1>4. /\ ms \in Seq(T)
        /\ Len(ms) = IF c + 1 <= n THEN n - (c + 1) + 1 ELSE 0
        /\ \A i \in 1..(n - (c + 1) + 1) : ms[i] = s.log[c + 1 + i - 1]
    <2>1. PICK L, a : L = s.log /\ a = c + 1
      OBVIOUS
    <2>2. a \in Int /\ n \in Int /\ \A i \in a..n : L[i] \in T
      BY <1>2, <1>c, <1>n, <2>1
    <2>3. /\ SubSeq(L, a, n) \in Seq(T)
          /\ Len(SubSeq(L, a, n)) = IF a <= n THEN n - a + 1 ELSE 0
          /\ \A i \in 1..(n - a + 1) : SubSeq(L, a, n)[i] = L[a + i - 1]
      BY <2>2, SubSeqProperties
    <2> QED
      BY <1>3, <1>c, <2>1, <2>3
  <1>5. Len(ms) = n - c
    BY <1>4, <1>n
  <1>6. \A i \in 1..(n - c) : ms[i] = s.log[c + i] /\ c + i \in 1..n
    <2> SUFFICES ASSUME NEW i \in 1..(n - c) PROVE ms[i] = s.log[c + i] /\ c + i \in 1..n
      OBVIOUS
    <2>1. i \in 1..(n - (c + 1) + 1) /\ c + 1 + i - 1 = c + i /\ c + i \in 1..n
      BY <1>n
    <2> QED
      BY <1>4, <2>1
  <1>7. Listed(ms)
    BY <1>4, ListedIn
  <1> QED
    BY <1>c, <1>n, <1>5, <1>6, <1>7 DEF n
-----------------------------------------------------------------------------
(* What recovery finds and what compaction cuts.                           *)

(* A function over the first numbers is a list. *)
LEMMA TableListed ==
  ASSUME NEW n \in Nat, NEW f, f = [i \in 1..n |-> f[i]]
  PROVE  Listed(f) /\ Len(f) = n /\ DOMAIN f = 1..n
  <1> DEFINE T == {f[i] : i \in 1..n}
  <1>1. f \in [1..n -> T]
    <2>1. DOMAIN f = 1..n /\ \A i \in 1..n : f[i] \in T
      BY Zenon
    <2> HIDE DEF T
    <2> QED
      BY <2>1
  <1> HIDE DEF T
  <1>2. f \in Seq(T)
    BY <1>1, SeqDef
  <1>3. DOMAIN f = 1..n
    BY <1>1
  <1> QED
    BY <1>2, <1>3, ListedIn

(* What follows the i-th element of a list. *)
LEMMA RestAre ==
  ASSUME NEW ms, Listed(ms), NEW i \in 0..Len(ms), NEW rest, rest = SubSeq(ms, i + 1, Len(ms))
  PROVE  /\ Len(rest) = Len(ms) - i /\ Len(rest) \in Nat
         /\ \A j \in 1..(Len(ms) - i) : rest[j] = ms[i + j]
  <1> DEFINE n == Len(ms)
  <1> DEFINE T == {ms[j] : j \in DOMAIN ms}
  <1>1. n \in Nat /\ DOMAIN ms = 1..n
    BY ListFacts
  <1>2. PICK a : a = i + 1
    OBVIOUS
  <1>3. a \in Int /\ \A j \in a..n : ms[j] \in T
    BY <1>1, <1>2
  <1> HIDE DEF T
  <1>4. rest = SubSeq(ms, a, n) /\ i \in Nat /\ i <= n
    BY <1>1, <1>2
  <1> HIDE DEF n
  <1>5. /\ Len(rest) = IF a <= n THEN n - a + 1 ELSE 0
        /\ \A j \in 1..(n - a + 1) : rest[j] = ms[a + j - 1]
    BY SMTT(60), <1>1, <1>3, <1>4, SubSeqProperties
  <1>6. n - a + 1 = n - i /\ \A j \in Nat : a + j - 1 = i + j
    BY <1>1, <1>2, <1>4
  <1>7. Len(rest) = n - i /\ n - i \in Nat
    BY <1>1, <1>2, <1>4, <1>5
  <1> QED
    BY <1>5, <1>6, <1>7 DEF n

(* The calls of message i that no later result names, one by one. *)
OpenOf(ms, i) ==
  [k \in 1..Len(ms[i].calls) |->
     IF ms[i].calls[k].id \in AnswersIn(SubSeq(ms, i + 1, Len(ms))) THEN <<>> ELSE <<ms[i].calls[k]>>]
(* The same, of every message. *)
OpenIn(ms) == [i \in 1..Len(ms) |-> IF ms[i].type = "calls" THEN FlattenSeq(OpenOf(ms, i)) ELSE <<>>]

(* They are what Interrupted joins. *)
LEMMA InterruptedOpen == ASSUME NEW ms PROVE Interrupted(ms) = FlattenSeq(OpenIn(ms))
  BY Zenon DEF Interrupted, OpenIn, OpenOf

(* OpenIn, by its members, *)
LEMMA OpenFacts ==
  ASSUME NEW ms, Len(ms) \in Nat
  PROVE  /\ Len(OpenIn(ms)) = Len(ms) /\ DOMAIN OpenIn(ms) = 1..Len(ms)
         /\ \A i \in 1..Len(ms) : OpenIn(ms)[i] = IF ms[i].type = "calls" THEN FlattenSeq(OpenOf(ms, i)) ELSE <<>>
  <1>1. PICK f : f = OpenIn(ms)
    OBVIOUS
  <1>2. f = [i \in 1..Len(ms) |-> f[i]]
    BY <1>1, Zenon DEF OpenIn
  <1>3. Len(f) = Len(ms) /\ DOMAIN f = 1..Len(ms)
    BY <1>2, TableListed
  <1>4. \A i \in 1..Len(ms) : f[i] = IF ms[i].type = "calls" THEN FlattenSeq(OpenOf(ms, i)) ELSE <<>>
    BY <1>1, Zenon DEF OpenIn
  <1> QED
    BY <1>1, <1>3, <1>4

(* and OpenOf, by its own. *)
LEMMA OpenOfFacts ==
  ASSUME NEW ms, NEW i, Len(ms[i].calls) \in Nat
  PROVE  /\ Len(OpenOf(ms, i)) = Len(ms[i].calls)
         /\ \A k \in 1..Len(ms[i].calls) :
              OpenOf(ms, i)[k] = IF ms[i].calls[k].id \in AnswersIn(SubSeq(ms, i + 1, Len(ms)))
                                 THEN <<>> ELSE <<ms[i].calls[k]>>
  <1>1. PICK f : f = OpenOf(ms, i)
    OBVIOUS
  <1>2. f = [k \in 1..Len(ms[i].calls) |-> f[k]]
    BY <1>1, Zenon DEF OpenOf
  <1>3. Len(f) = Len(ms[i].calls)
    BY <1>2, TableListed
  <1>4. \A k \in 1..Len(ms[i].calls) :
              f[k] = IF ms[i].calls[k].id \in AnswersIn(SubSeq(ms, i + 1, Len(ms)))
                                 THEN <<>> ELSE <<ms[i].calls[k]>>
    BY <1>1, Zenon DEF OpenOf
  <1> QED
    BY <1>1, <1>3, <1>4

(* The calls that recovery finds are those of the last request, if it waits
   for its results, and none else: every earlier one has its results next. *)
LEMMA InterruptedIs ==
  ASSUME NEW s, Matched(s)
  PROVE  LET open == Interrupted(Messages(s))
             L == s.log
         IN IF Ended(L) THEN open = <<>> ELSE Len(L) > 0 /\ open = L[Len(L)].calls /\ L[Len(L)].type = "calls"
  <1>1. PICK ms, L, c : ms = Messages(s) /\ L = s.log /\ c = s.cut
    OBVIOUS
  <1> DEFINE n == Len(ms)
  <1>2. /\ Listed(ms) /\ n \in Nat /\ n = Len(L) - c
        /\ \A i \in 1..n : ms[i] = L[c + i] /\ c + i \in DOMAIN L
        /\ n > 0 <=> Len(L) > 0
    BY <1>1, MessagesAre
  <1>3. PairedLog(L) /\ Len(L) \in Nat /\ DOMAIN L = 1..Len(L) /\ c \in Nat
    BY <1>1, ListFacts DEF Matched, PairedLog, CutWell
  <1>4. \A i \in 1..n : ms[i].type = "calls" =>
           Listed(ms[i].calls) /\ ms[i].calls # <<>> /\ Len(ms[i].calls) \in Nat \ {0}
           /\ DOMAIN ms[i].calls = 1..Len(ms[i].calls)
    <2> SUFFICES ASSUME NEW i \in 1..n, ms[i].type = "calls"
                 PROVE  Listed(ms[i].calls) /\ ms[i].calls # <<>> /\ Len(ms[i].calls) \in Nat \ {0}
                        /\ DOMAIN ms[i].calls = 1..Len(ms[i].calls)
      OBVIOUS
    <2>1. PICK cs : cs = ms[i].calls
      OBVIOUS
    <2>2. Listed(cs) /\ cs # <<>>
      BY <1>2, <1>3, <2>1 DEF PairedLog, Formed
    <2>3. Len(cs) > 0
      BY <2>2, ListedTail
    <2> QED
      BY <2>1, <2>2, <2>3, ListFacts
  <1>5. ASSUME NEW i \in 1..n, i < n, ms[i].type = "calls"
        PROVE  FlattenSeq(OpenOf(ms, i)) = <<>>
    <2>1. ms[i + 1].type = "results" /\ Matches(ms[i + 1].answers, ms[i].calls)
      <3>1. PICK p : p = c + i
        OBVIOUS
      <3>2. p \in DOMAIN L /\ p + 1 \in DOMAIN L /\ ms[i] = L[p] /\ ms[i + 1] = L[p + 1] /\ p < Len(L)
            /\ (p + 1) - 1 = p
        <4>1. i + 1 \in 1..n /\ c + (i + 1) = p + 1
          BY <1>2, <1>3, <1>5, <3>1
        <4>2. p + 1 \in DOMAIN L /\ ms[i + 1] = L[p + 1]
          BY <1>2, <4>1
        <4>3. p \in DOMAIN L /\ ms[i] = L[p] /\ p \in Nat
          BY <1>2, <1>3, <3>1
        <4> QED
          BY <1>3, <4>2, <4>3
      <3>3. Asked(L, p) /\ Told(L, p + 1)
        BY <1>3, <3>2 DEF PairedLog
      <3> QED
        BY <1>5, <3>2, <3>3 DEF Asked, Told
    <2>2. PICK rest : rest = SubSeq(ms, i + 1, Len(ms))
      OBVIOUS
    <2>3. Len(rest) \in Nat /\ 1 \in 1..Len(rest) /\ rest[1] = ms[i + 1]
      <3>1. i \in 0..Len(ms) /\ 1 \in 1..(Len(ms) - i)
        BY <1>2, <1>5
      <3> QED
        BY <1>2, <2>2, <3>1, RestAre
    <2>4. PICK cs, as : cs = ms[i].calls /\ as = ms[i + 1].answers
      OBVIOUS
    <2>5. /\ Listed(as) /\ DOMAIN as = DOMAIN cs /\ DOMAIN cs = 1..Len(cs) /\ Len(cs) \in Nat \ {0}
          /\ \A k \in DOMAIN cs : as[k].id = cs[k].id
      BY <1>4, <1>5, <2>1, <2>4, ListFacts DEF Matches
    <2>6. \A k \in 1..Len(cs) : cs[k].id \in AnswersIn(rest)
      <3>1. Ids(as) \subseteq AnswersIn(rest)
        BY <2>1, <2>3, <2>4 DEF AnswersIn
      <3> QED
        BY <2>5, <3>1 DEF Ids
    <2>7. Len(ms[i].calls) \in Nat \ {0}
      BY <1>4, <1>5
    <2>8. Len(OpenOf(ms, i)) = Len(cs) /\ \A k \in 1..Len(cs) : OpenOf(ms, i)[k] = <<>>
      BY <2>2, <2>4, <2>6, <2>7, OpenOfFacts
    <2> QED
      BY <2>5, <2>8, FlattenEmpty
  <1>6. ASSUME n > 0, ms[n].type = "calls"
        PROVE  FlattenSeq(OpenOf(ms, n)) = ms[n].calls
    <2>1. PICK rest : rest = SubSeq(ms, n + 1, Len(ms))
      OBVIOUS
    <2>2. Len(rest) = 0
      <3>1. n \in 0..Len(ms) /\ Len(ms) - n = 0
        BY <1>2
      <3> QED
        BY <1>2, <2>1, <3>1, RestAre
    <2>3. AnswersIn(rest) = {}
      BY <2>2 DEF AnswersIn
    <2>4. n \in 1..n
      BY <1>2, <1>6
    <2>5. PICK cs : cs = ms[n].calls
      OBVIOUS
    <2>6. Listed(cs) /\ cs # <<>> /\ Len(cs) \in Nat \ {0}
      BY <1>4, <1>6, <2>4, <2>5
    <2>7. Len(OpenOf(ms, n)) = Len(cs) /\ \A k \in 1..Len(cs) : OpenOf(ms, n)[k] = <<cs[k]>>
      BY <2>1, <2>3, <2>5, <2>6, OpenOfFacts
    <2> QED
      BY <2>5, <2>6, <2>7, FlattenSingles
  <1>7. PICK pieces : pieces = OpenIn(ms)
    OBVIOUS
  <1>8. /\ Len(pieces) = n
        /\ \A i \in 1..n : pieces[i] = IF ms[i].type = "calls" THEN FlattenSeq(OpenOf(ms, i)) ELSE <<>>
        /\ DOMAIN pieces = 1..n
    BY <1>2, <1>7, OpenFacts
  <1>9. Interrupted(ms) = FlattenSeq(pieces)
    BY <1>7, InterruptedOpen
  <1>10. \A i \in 1..(n - 1) : pieces[i] = <<>>
    <2> SUFFICES ASSUME NEW i \in 1..(n - 1) PROVE pieces[i] = <<>>
      OBVIOUS
    <2>1. i \in 1..n /\ i < n
      BY <1>2
    <2> QED
      BY <1>5, <1>8, <2>1
  <1>11. CASE n = 0
    <2>1. pieces = <<>>
      <3>1. pieces = [i \in 1..n |-> pieces[i]]
        BY <1>7, Zenon DEF OpenIn
      <3>2. pieces \in Seq({})
        <4>1. Listed(pieces) /\ Len(pieces) = 0
          BY <1>2, <1>11, <3>1, TableListed
        <4>2. DOMAIN pieces = {}
          BY <1>8, <1>11
        <4> QED
          BY <4>1, <4>2 DEF Listed
      <3> QED
        BY <3>2
    <2>2. FlattenSeq(pieces) = <<>>
      BY <1>8, <1>11, <2>1, Zenon DEF FlattenSeq
    <2>3. Ended(L)
      BY <1>2, <1>11 DEF Ended
    <2> QED
      BY <1>1, <1>9, <2>2, <2>3
  <1>12. CASE n > 0
    <2>1. ms[n] = L[Len(L)] /\ Len(L) > 0 /\ n \in 1..n
      <3>1. n \in 1..n /\ c + n = Len(L)
        BY <1>2, <1>3, <1>12
      <3> QED
        BY <1>2, <1>12, <3>1
    <2>f. ASSUME Listed(pieces[n]) PROVE FlattenSeq(pieces) = pieces[n]
      <3> HIDE DEF n
      <3> QED
        BY <1>2, <1>8, <1>10, <1>12, <2>f, FlattenLast
    <2>2. CASE ms[n].type = "calls"
      <3>1. pieces[n] = ms[n].calls /\ Listed(pieces[n])
        BY <1>4, <1>6, <1>8, <1>12, <2>1, <2>2
      <3>2. FlattenSeq(pieces) = pieces[n]
        BY <2>f, <3>1
      <3>3. ~Ended(L)
        BY <2>1, <2>2 DEF Ended
      <3> QED
        BY <1>1, <1>9, <2>1, <2>2, <3>1, <3>2, <3>3
    <2>3. CASE ms[n].type # "calls"
      <3>1. pieces[n] = <<>> /\ Listed(pieces[n])
        BY <1>8, <2>1, <2>3, EmptyListed
      <3>2. FlattenSeq(pieces) = pieces[n]
        BY <2>f, <3>1
      <3>3. Ended(L)
        BY <2>1, <2>3 DEF Ended
      <3> QED
        BY <1>1, <1>9, <3>1, <3>2, <3>3
    <2> QED
      BY <2>2, <2>3
  <1> QED
    BY <1>2, <1>11, <1>12

(* What compaction keeps. *)
Least == IF KeepLast > 1 THEN KeepLast ELSE 1

(* The names in Compacted: the messages, what is cut of them, and the requests
   that a kept result refers to by its id. *)
Cutting(s, ms, cut, needs) ==
  /\ ms = Messages(s) /\ Len(ms) \in Nat /\ cut = Len(ms) - Least
  /\ needs = {i \in 1..cut : ms[i].type = "calls" /\ Ids(ms[i].calls) \cap AnswersIn(SubSeq(ms, cut + 1, Len(ms))) # {}}

(* The three outcomes of a compaction. *)
LEMMA CompactedIs ==
  ASSUME NEW s, NEW ms, NEW cut, NEW needs, Cutting(s, ms, cut, needs)
  PROVE  \/ Len(ms) <= KeepLast /\ Compacted(s) = s
         \/ Len(ms) > KeepLast /\ needs = {} /\ Compacted(s) = [s EXCEPT !.cut = s.cut + cut]
         \/ Len(ms) > KeepLast /\ needs # {} /\ Compacted(s) = [s EXCEPT !.cut = s.cut + First(needs) - 1]
  <1>1. PICK on, back : on = [s EXCEPT !.cut = s.cut + cut] /\ back = [s EXCEPT !.cut = s.cut + First(needs) - 1]
    OBVIOUS
  <1>2. Compacted(s) = CASE Len(ms) <= KeepLast -> s
                         [] Len(ms) > KeepLast /\ needs = {} -> on
                         [] OTHER -> back
    BY <1>1, ZenonT(60) DEF Compacted, Least, First, Cutting
  <1>3. Len(ms) <= KeepLast <=> ~(Len(ms) > KeepLast)
    BY AgentTurnAssumption DEF Cutting
  <1>4. CASE Len(ms) <= KeepLast
    BY <1>2, <1>3, <1>4, Zenon
  <1>5. CASE Len(ms) > KeepLast /\ needs = {}
    BY <1>1, <1>2, <1>3, <1>5, Zenon
  <1>6. CASE Len(ms) > KeepLast /\ needs # {}
    BY <1>1, <1>2, <1>3, <1>6, Zenon
  <1> QED
    BY <1>3, <1>4, <1>5, <1>6, Zenon

(* A compaction parts no result from its request; with fresh ids it keeps at
   most one message more than it is to keep. *)
LEMMA CompactedMatched ==
  ASSUME NEW s, DOMAIN s = DOMAIN Empty, Matched(s), NEW t, t = Compacted(s)
  PROVE  /\ t.log = s.log /\ Matched(t)
         /\ FreshIds => Len(t.log) - t.cut <= Least + 1
  <1>1. PICK ms, L, c : ms = Messages(s) /\ L = s.log /\ c = s.cut
    OBVIOUS
  <1>2. /\ Listed(ms) /\ Len(ms) \in Nat /\ Len(ms) = Len(L) - c
        /\ \A i \in 1..Len(ms) : ms[i] = L[c + i] /\ c + i \in DOMAIN L
    BY <1>1, MessagesAre
  <1>3. PairedLog(L) /\ Len(L) \in Nat /\ DOMAIN L = 1..Len(L) /\ c \in Nat
    BY <1>1, ListFacts DEF Matched, PairedLog, CutWell
  <1>4. Least \in Nat \ {0} /\ (Len(ms) <= KeepLast => Len(ms) <= Least) /\ (Len(ms) > KeepLast => Least <= Len(ms))
        /\ KeepLast \in Nat
    BY <1>2, AgentTurnAssumption DEF Least
  <1>5. PICK n, cut, rest : n = Len(ms) /\ cut = n - Least /\ rest = SubSeq(ms, cut + 1, Len(ms))
    OBVIOUS
  <1>6. PICK kept : kept = AnswersIn(rest)
    OBVIOUS
  <1>7. PICK needs : needs = {i \in 1..cut : ms[i].type = "calls" /\ Ids(ms[i].calls) \cap kept # {}}
    OBVIOUS
  <1>8. \/ n <= KeepLast /\ t = s
        \/ n > KeepLast /\ needs = {} /\ t = [s EXCEPT !.cut = c + cut]
        \/ n > KeepLast /\ needs # {} /\ t = [s EXCEPT !.cut = c + First(needs) - 1]
    <2>1. Cutting(s, ms, cut, needs)
      BY <1>1, <1>2, <1>5, <1>6, <1>7 DEF Cutting
    <2>2. \/ Len(ms) <= KeepLast /\ Compacted(s) = s
          \/ Len(ms) > KeepLast /\ needs = {} /\ Compacted(s) = [s EXCEPT !.cut = s.cut + cut]
          \/ Len(ms) > KeepLast /\ needs # {} /\ Compacted(s) = [s EXCEPT !.cut = s.cut + First(needs) - 1]
      BY <2>1, CompactedIs
    <2> QED
      BY <1>1, <1>5, <2>2
  <1>9. \A v : LET r == [s EXCEPT !.cut = v] IN r.log = L /\ r.cut = v
    BY <1>1 DEF Empty
  <1>10. CASE n <= KeepLast /\ t = s
    BY <1>1, <1>2, <1>4, <1>5, <1>10, AgentTurnAssumption
  <1>11. ASSUME n > KeepLast
         PROVE  /\ cut \in Nat /\ cut < n /\ Len(rest) \in Nat /\ Len(rest) = n - cut
                /\ \A j \in 1..(n - cut) : rest[j] = ms[cut + j] /\ cut + j \in 1..n
    <2>1. cut \in 0..Len(ms) /\ cut < n
      BY <1>2, <1>4, <1>5, <1>11
    <2>2. Len(rest) = n - cut /\ Len(rest) \in Nat /\ \A j \in 1..(n - cut) : rest[j] = ms[cut + j]
      BY SMTT(60), <1>2, <1>5, <2>1, RestAre
    <2>3. \A j \in 1..(n - cut) : cut + j \in 1..n
      BY <1>2, <1>5, <2>1
    <2> QED
      BY <1>2, <2>1, <2>2, <2>3
  <1>n. n \in Nat /\ n = Len(L) - c /\ c \in Nat /\ Len(L) \in Nat
    BY <1>2, <1>3, <1>5
  <1>12. CASE n > KeepLast /\ needs = {} /\ t = [s EXCEPT !.cut = c + cut]
    <2>1. t.log = L /\ t.cut = c + cut
      BY <1>9, <1>12
    <2>2. c + cut \in Nat /\ c + cut < Len(L) /\ c + cut + 1 = c + (cut + 1) /\ cut + 1 \in 1..n
      <3>1. cut \in Nat /\ cut < n
        BY <1>11, <1>12
      <3> QED
        BY <1>n, <3>1
    <2>3. L[c + cut + 1].type # "results"
      <3>1. SUFFICES ASSUME L[c + cut + 1].type = "results" PROVE FALSE
        OBVIOUS
      <3>2. CASE cut = 0
        <4>1. c + cut + 1 = c + 1 /\ c + 1 \in DOMAIN L
          BY <1>2, <1>5, <2>2, <3>2
        <4> QED
          BY <1>1, <3>1, <4>1 DEF Matched, CutWell
      <3>3. CASE cut > 0
        <4>1. cut \in 1..cut /\ cut \in 1..n /\ cut + 1 \in 1..n
          <5>1. cut \in Nat /\ n \in Nat /\ cut < n
            BY <1>2, <1>5, <1>11, <1>12
          <5> QED
            BY <3>3, <5>1
        <4>2. PICK p : p = c + cut
          OBVIOUS
        <4>3. p + 1 \in DOMAIN L /\ p \in DOMAIN L /\ (p + 1) - 1 = p /\ ms[cut] = L[p] /\ ms[cut + 1] = L[p + 1]
          BY <1>2, <1>5, <2>2, <4>1, <4>2
        <4>4. ms[cut].type = "calls" /\ Matches(ms[cut + 1].answers, ms[cut].calls) /\ Formed(ms[cut], p)
          BY <1>3, <3>1, <4>2, <4>3 DEF PairedLog, Told
        <4>5. PICK cs, as : cs = ms[cut].calls /\ as = ms[cut + 1].answers
          OBVIOUS
        <4>6. Listed(cs) /\ cs # <<>> /\ Listed(as) /\ Len(as) = Len(cs) /\ \A k \in DOMAIN cs : as[k].id = cs[k].id
          BY <4>4, <4>5 DEF Formed, Matches
        <4>7. 1 \in DOMAIN cs /\ 1 \in DOMAIN as /\ as[1].id = cs[1].id
          <5>1. Len(cs) > 0
            BY <4>6, ListedTail
          <5>2. DOMAIN cs = 1..Len(cs) /\ DOMAIN as = 1..Len(as) /\ Len(cs) \in Nat
            BY <4>6, ListFacts
          <5>3. 1 \in DOMAIN cs /\ DOMAIN as = DOMAIN cs
            BY <4>6, <5>1, <5>2
          <5> QED
            BY <4>6, <5>3
        <4>8. cs[1].id \in kept
          <5>1. 1 \in 1..Len(rest) /\ rest[1] = ms[cut + 1]
            <6>1. 1 \in 1..(n - cut) /\ n - cut = Len(rest)
              BY <1>2, <1>5, <1>11, <1>12
            <6> QED
              BY <1>11, <1>12, <6>1
          <5>2. rest[1].type = "results"
            BY <3>1, <4>2, <4>3, <5>1
          <5> QED
            BY <1>6, <4>5, <4>7, <5>1, <5>2 DEF AnswersIn, Ids
        <4>9. cut \in needs
          BY <1>7, <4>1, <4>4, <4>5, <4>7, <4>8 DEF Ids
        <4> QED
          BY <1>12, <4>9
      <3> QED
        BY <1>11, <1>12, <3>2, <3>3
    <2>4. Matched(t)
      BY <1>1, <2>1, <2>2, <2>3 DEF Matched, CutWell
    <2>5. Len(t.log) - t.cut <= Least + 1
      BY <1>2, <1>3, <1>4, <1>5, <2>1
    <2> QED
      BY <1>1, <2>1, <2>4, <2>5
  <1>13. CASE n > KeepLast /\ needs # {} /\ t = [s EXCEPT !.cut = c + First(needs) - 1]
    <2>1. PICK f : f = First(needs)
      OBVIOUS
    <2>2. f \in needs /\ f \in 1..cut /\ ms[f].type = "calls" /\ Ids(ms[f].calls) \cap kept # {}
      <3>1. needs \subseteq Nat
        BY <1>7
      <3>2. f \in needs
        BY <1>13, <2>1, <3>1, FirstIn
      <3> QED
        BY <1>7, <3>2
    <2>3. t.log = L /\ t.cut = c + f - 1
      BY <1>9, <1>13, <2>1
    <2>4. c + f - 1 \in Nat /\ c + f - 1 < Len(L) /\ (c + f - 1) + 1 = c + f /\ f \in 1..n
      <3>1. cut \in Nat /\ cut < n
        BY <1>11, <1>13
      <3> QED
        BY <1>n, <2>2, <3>1
    <2>5. L[c + f].type # "results"
      BY <1>2, <1>5, <2>2, <2>4
    <2>6. Matched(t)
      BY <1>1, <2>3, <2>4, <2>5 DEF Matched, CutWell
    <2>7. ASSUME FreshIds PROVE f = cut
      <3>1. PICK x : x \in Ids(ms[f].calls) /\ x \in kept
        BY <2>2
      <3>2. PICK j \in 1..Len(rest) : rest[j].type = "results" /\ x \in Ids(rest[j].answers)
        BY <1>6, <3>1 DEF AnswersIn
      <3>3. PICK p, q : p = c + f /\ q = c + cut + j
        OBVIOUS
      <3>4. p \in DOMAIN L /\ L[p] = ms[f]
        BY <1>2, <1>5, <2>4, <3>3
      <3>5. q \in DOMAIN L /\ L[q] = rest[j]
        <4>1. rest[j] = ms[cut + j] /\ cut + j \in 1..n /\ c + (cut + j) = q
          BY <1>3, <1>11, <1>13, <3>2, <3>3
        <4> QED
          BY <1>2, <1>5, <4>1
      <3>6. q - 1 \in DOMAIN L /\ L[q - 1].type = "calls" /\ Matches(L[q].answers, L[q - 1].calls)
        <4>1. q > 1 /\ L[q - 1].type = "calls" /\ Matches(L[q].answers, L[q - 1].calls)
          BY <1>3, <3>2, <3>5 DEF PairedLog, Told
        <4> QED
          BY <1>3, <3>5, <4>1
      <3>7. Formed(L[p], p) /\ Formed(L[q - 1], q - 1)
        BY <1>3, <3>4, <3>6 DEF PairedLog
      <3>8. PICK k \in DOMAIN L[p].calls : x = L[p].calls[k].id
        BY <3>1, <3>4 DEF Ids
      <3>9. x = <<p, k>>
        BY <2>2, <2>7, <3>4, <3>7, <3>8 DEF Formed
      <3>10. PICK l \in DOMAIN L[q].answers : x = L[q].answers[l].id
        BY <3>2, <3>5 DEF Ids
      <3>11. l \in DOMAIN L[q - 1].calls /\ L[q].answers[l].id = L[q - 1].calls[l].id
        <4>1. PICK as, cs : as = L[q].answers /\ cs = L[q - 1].calls
          OBVIOUS
        <4>2. Listed(as) /\ Listed(cs) /\ Len(as) = Len(cs) /\ \A k2 \in DOMAIN cs : as[k2].id = cs[k2].id
          BY <3>6, <3>7, <4>1 DEF Matches, Formed
        <4>3. DOMAIN as = DOMAIN cs
          BY <4>2, ListFacts
        <4> QED
          BY <3>10, <4>1, <4>2, <4>3
      <3>12. x = <<q - 1, l>>
        BY <2>7, <3>6, <3>7, <3>10, <3>11 DEF Formed
      <3>13. p = q - 1
        BY <3>9, <3>12
      <3>14. f = cut + j - 1 /\ j >= 1 /\ f <= cut
        BY <1>3, <1>11, <1>13, <2>2, <3>2, <3>3, <3>13
      <3> QED
        BY <1>11, <1>13, <2>2, <3>14
    <2>8. FreshIds => Len(t.log) - t.cut <= Least + 1
      BY <1>2, <1>3, <1>4, <1>5, <2>3, <2>7
    <2> QED
      BY <1>1, <2>3, <2>6, <2>8
  <1> QED
    BY <1>8, <1>10, <1>12, <1>13

(* Add keeps the fields of a session. *)
LEMMA AddDomain ==
  ASSUME NEW s, DOMAIN s = DOMAIN Empty, NEW ms
  PROVE  DOMAIN Add(s, ms) = DOMAIN Empty
  BY DEF Add, Empty

(* After recovery no request waits for its results. *)
LEMMA RecoveredMatched ==
  ASSUME NEW s, DOMAIN s = DOMAIN Empty, Matched(s), NEW t, t = Recovered(s)
  PROVE  Matched(t) /\ Ended(t.log) /\ DOMAIN t = DOMAIN Empty
  <1>1. PICK open : open = Interrupted(Messages(s))
    OBVIOUS
  <1>2. PICK L : L = s.log
    OBVIOUS
  <1>3. IF Ended(L) THEN open = <<>> ELSE Len(L) > 0 /\ open = L[Len(L)].calls /\ L[Len(L)].type = "calls"
    BY <1>1, <1>2, InterruptedIs
  <1>4. CASE Ended(L)
    <2>1. open = <<>>
      BY <1>3, <1>4
    <2>2. t = s
      BY <1>1, <2>1, Zenon DEF Recovered
    <2> QED
      BY <1>2, <1>4, <2>2
  <1>5. CASE ~Ended(L)
    <2>1. Len(L) > 0 /\ open = L[Len(L)].calls /\ L[Len(L)].type = "calls"
      BY <1>3, <1>5
    <2>2. Listed(L) /\ Len(L) \in Nat /\ DOMAIN L = 1..Len(L)
      BY <1>2, ListFacts DEF Matched, PairedLog
    <2>3. Formed(L[Len(L)], Len(L))
      BY <1>2, <2>1, <2>2 DEF Matched, PairedLog
    <2>4. Listed(open) /\ open # <<>> /\ Len(open) \in Nat /\ DOMAIN open = 1..Len(open)
      BY <2>1, <2>3, ListFacts DEF Formed
    <2>5. PICK as : as = [i \in 1..Len(open) |-> [n |-> open[i].n, id |-> open[i].id, says |-> "unknown"]]
      OBVIOUS
    <2>6. t = Add(s, <<Results(as)>>)
      BY <1>1, <2>4, <2>5, Zenon DEF Recovered
    <2>7. as = [i \in 1..Len(open) |-> as[i]] /\ \A i \in 1..Len(open) : as[i].n = open[i].n /\ as[i].id = open[i].id
      BY <2>5
    <2>8. Listed(as) /\ Len(as) = Len(open)
      BY <2>4, <2>7, TableListed
    <2>9. Matches(as, open)
      BY <2>4, <2>7, <2>8 DEF Matches
    <2>10. Matched(Add(s, <<Results(as)>>)) /\ Ended(Add(s, <<Results(as)>>).log)
      BY <1>2, <2>1, <2>9, ResultsMatched
    <2> QED
      BY <2>6, <2>10, AddDomain
  <1> QED
    BY <1>4, <1>5

(* One such message, *)
LEMMA SinglePlain ==
  ASSUME NEW m, m.type \in {"user", "text"}
  PROVE  Plain(<<m>>)
  <1>1. Listed(<<m>>) /\ Len(<<m>>) = 1 /\ <<m>>[1] = m
    BY ListedSingle
  <1>2. DOMAIN <<m>> = 1..1
    BY <1>1, ListFacts
  <1> QED
    BY <1>1, <1>2 DEF Plain

(* after the end of a batch. *)
LEMMA PlainMatched ==
  ASSUME NEW s, DOMAIN s = DOMAIN Empty, Matched(s), Ended(s.log), NEW m, m.type \in {"user", "text"}
  PROVE  Matched(Add(s, <<m>>)) /\ Ended(Add(s, <<m>>).log) /\ DOMAIN Add(s, <<m>>) = DOMAIN Empty
  <1>1. PICK ms : ms = <<m>>
    OBVIOUS
  <1>0. PICK t : t = Add(s, ms)
    OBVIOUS
  <1>2. t.log = s.log \o ms /\ t.cut = s.cut /\ DOMAIN t = DOMAIN Empty
    BY <1>0, AddFields, AddDomain
  <1>3. Plain(ms)
    BY <1>1, SinglePlain
  <1> QED
    BY <1>0, <1>1, <1>2, <1>3, PlainsMatched

(* The session a turn starts with. *)
LEMMA OpeningMatched ==
  ASSUME NEW s, DOMAIN s = DOMAIN Empty, Matched(s), NEW t, t = Opening(s)
  PROVE  Matched(t) /\ Ended(t.log)
  <1>1. PICK r : r = Recovered(s)
    OBVIOUS
  <1>2. Matched(r) /\ Ended(r.log) /\ DOMAIN r = DOMAIN Empty
    BY <1>1, RecoveredMatched
  <1>3. PICK m : m = User(0) /\ m.type = "user"
    BY MessageFacts
  <1>4. t = Add(r, <<m>>)
    BY <1>1, <1>3 DEF Opening
  <1> QED
    BY <1>2, <1>3, <1>4, PlainMatched

(* Steering becomes messages of the user. *)
LEMMA SteeredMatched ==
  ASSUME NEW s, DOMAIN s = DOMAIN Empty, Matched(s), Ended(s.log), Listed(s.steering), NEW t, t = Steered(s)
  PROVE  Matched(t) /\ Ended(t.log)
  <1>1. PICK ms : ms = [i \in 1..Len(s.steering) |-> User(s.steering[i])]
    OBVIOUS
  <1>2. ms = [i \in 1..Len(s.steering) |-> ms[i]] /\ \A i \in 1..Len(s.steering) : ms[i] = User(s.steering[i])
    BY <1>1
  <1>3. Listed(ms) /\ DOMAIN ms = 1..Len(s.steering)
    BY <1>2, TableListed, ListFacts
  <1>4. Plain(ms)
    BY <1>2, <1>3, MessageFacts DEF Plain
  <1>5. PICK r : r = Add(s, ms)
    OBVIOUS
  <1>6. r.log = s.log \o ms /\ r.cut = s.cut /\ DOMAIN r = DOMAIN Empty
    BY <1>5, AddFields, AddDomain
  <1>7. t = [r EXCEPT !.steering = <<>>]
    BY <1>1, <1>5 DEF Steered
  <1>8. t.log = r.log /\ t.cut = r.cut
    BY <1>6, <1>7 DEF Empty
  <1>9. Matched(r) /\ Ended(r.log)
    BY <1>4, <1>6, PlainsMatched
  <1> QED
    BY <1>8, <1>9, SameLog

(* A control request leaves the log alone. *)
LEMMA ControlledMatched ==
  ASSUME NEW s, DOMAIN s = DOMAIN Empty, Matched(s), NEW note, NEW t, t = Controlled(s, note)
  PROVE  Matched(t) /\ t.log = s.log /\ t.cut = s.cut
  <1>1. t.log = s.log /\ t.cut = s.cut
    BY DEF Controlled, Empty
  <1> QED
    BY <1>1, SameLog
-----------------------------------------------------------------------------
(* The invariant of the pairing, step by step.                             *)

(* From the end of one batch to the request of the next. *)
Ready == {"loop", "refresh", "streaming", "retrying", "replied", "results", "ending"}

(* The log ends with the request of batch b. *)
EndsWith(L, b) == Len(L) > 0 /\ L[Len(L)] = Request(b)

(* Every session there is, saved or not, is paired. *)
AllMatched == Matched(session) /\ Matched(saved) /\ \A i \in DOMAIN writes : Matched(writes[i].session)

(* The session of the turn ends as the place of the turn says. *)
LastIs ==
  /\ pc \in Ready \/ (pc = "saving" /\ after \in Ready) => Ended(session.log)
  /\ pc \in Working \/ Deciding => EndsWith(session.log, batch)

(* A session over the threshold was compacted for its request. *)
Short == FreshIds /\ pc = "streaming" /\ request.over => Len(session.log) - session.cut <= Least + 1

(* The invariant that Paired and PromptBounded need. *)
Pairs == AllMatched /\ LastIs /\ Short

(* The empty session is paired. *)
LEMMA EmptyMatched == Matched(Empty)
  <1>1. Empty.log = <<>> /\ Empty.cut = 0
    BY DEF Empty
  <1>2. Listed(<<>>) /\ Len(<<>>) = 0 /\ DOMAIN <<>> = {}
    BY EmptyListed
  <1> QED
    BY <1>1, <1>2 DEF Matched, PairedLog, CutWell

(* Pairs holds at the start. *)
LEMMA InitPairs == Init => Pairs
  <1>1. DOMAIN <<>> = {}
    OBVIOUS
  <1> QED
    BY <1>1, EmptyMatched DEF Init, Pairs, AllMatched, LastIs, Short, Working, Deciding, Ready

(* Sessions are records with a list of steering. *)
LEMMA SessionParts ==
  ASSUME IInv
  PROVE  /\ DOMAIN session = DOMAIN Empty /\ Listed(session.steering)
         /\ DOMAIN saved = DOMAIN Empty /\ Listed(writes)
  BY DEF IInv, Sessions, Fine, Upto, Queue, Chain

(* One more write. *)
LEMMA MatchedAppend ==
  ASSUME NEW ws, Listed(ws), \A i \in DOMAIN ws : Matched(ws[i].session),
         NEW w, Matched(w.session), NEW vs, vs = Append(ws, w)
  PROVE  \A i \in DOMAIN vs : Matched(vs[i].session)
  <1>1. /\ Listed(vs) /\ Len(vs) = Len(ws) + 1 /\ vs[Len(ws) + 1] = w
        /\ \A i \in 1..Len(ws) : vs[i] = ws[i]
    BY ListedAppend
  <1>2. Len(ws) \in Nat /\ DOMAIN ws = 1..Len(ws) /\ DOMAIN vs = 1..(Len(ws) + 1)
    BY <1>1, ListFacts
  <1> QED
    BY <1>1, <1>2

(* One write less. *)
LEMMA MatchedTail ==
  ASSUME NEW ws, Listed(ws), ws # <<>>, \A i \in DOMAIN ws : Matched(ws[i].session), NEW vs, vs = Tail(ws)
  PROVE  Listed(vs) /\ \A i \in DOMAIN vs : Matched(vs[i].session)
  <1>1. /\ Listed(vs) /\ Len(vs) = Len(ws) - 1 /\ Len(ws) > 0
        /\ \A i \in 1..(Len(ws) - 1) : vs[i] = ws[i + 1]
    BY ListedTail
  <1>2. Len(ws) \in Nat /\ DOMAIN ws = 1..Len(ws) /\ DOMAIN vs = 1..(Len(ws) - 1)
    BY <1>1, ListFacts
  <1>3. \A i \in 1..(Len(ws) - 1) : i + 1 \in 1..Len(ws)
    BY <1>2
  <1> QED
    BY <1>1, <1>2, <1>3

(* A checkpoint of a matched session. *)
LEMMA PairsCheckpoint ==
  ASSUME IInv, Pairs, NEW s, Matched(s), NEW next, Checkpoint(s, next), saved' = saved,
         next \in Ready => Ended(s.log), next = "deciding" => EndsWith(s.log, batch')
  PROVE  Pairs'
  <1>1. session' = s /\ pc' = "saving" /\ after' = next
        /\ writes' = Append(writes, [by |-> "turn", session |-> s])
    BY DEF Checkpoint, Save
  <1>2. \A i \in DOMAIN writes' : Matched(writes'[i].session)
    <2>1. PICK w : w = [by |-> "turn", session |-> s]
      OBVIOUS
    <2>2. w.session = s
      BY <2>1
    <2>3. Listed(writes) /\ \A i \in DOMAIN writes : Matched(writes[i].session)
      BY SessionParts DEF Pairs, AllMatched
    <2> QED
      BY <1>1, <2>1, <2>2, <2>3, MatchedAppend
  <1>3. AllMatched'
    BY <1>1, <1>2 DEF Pairs, AllMatched
  <1>4. LastIs' /\ Short'
    BY <1>1 DEF LastIs, Short, Ready, Working, Deciding
  <1> QED
    BY <1>3, <1>4 DEF Pairs

(* Nothing is saved, and the turn goes on with a matched session. *)
LEMMA PairsMove ==
  ASSUME Pairs, Matched(session'), saved' = saved, writes' = writes, LastIs', Short'
  PROVE  Pairs'
  BY DEF Pairs, AllMatched

(* What the session ends with, at the places of a turn. *)
LEMMA PairsNow ==
  ASSUME Pairs
  PROVE  /\ Matched(session) /\ Matched(saved)
         /\ pc \in Ready => Ended(session.log)
         /\ pc \in Working => EndsWith(session.log, batch)
  BY DEF Pairs, AllMatched, LastIs

(* A checkpoint after which nothing is decided. *)
LEMMA PairsFinish ==
  ASSUME IInv, Pairs, NEW s, Matched(s), NEW next, next \in {"idle", "refresh", "ending", "replied", "results"},
         next # "idle" => Ended(s.log), Checkpoint(s, next), saved' = saved
  PROVE  Pairs'
  <1>1. next # "deciding" /\ (next \in Ready => Ended(s.log))
    BY DEF Ready
  <1> QED
    BY <1>1, PairsCheckpoint

(* BeginTurn keeps Pairs: what was interrupted is recovered before the
   message of the user is added. *)
LEMMA PairsBeginTurn == ASSUME IInv, Pairs, BeginTurn PROVE Pairs'
  <1>1. PICK s \in {session, saved} : Checkpoint(Opening(s), "loop") /\ saved' = saved
    BY DEF BeginTurn
  <1>2. PICK t : t = Opening(s)
    OBVIOUS
  <1>3. Matched(t) /\ Ended(t.log)
    BY <1>2, OpeningMatched, SessionParts, PairsNow
  <1>4. Checkpoint(t, "loop")
    BY <1>1, <1>2
  <1> QED
    BY <1>1, <1>3, <1>4, PairsCheckpoint

(* Loop keeps Pairs. *)
LEMMA PairsLoop == ASSUME IInv, Pairs, Loop PROVE Pairs'
  <1>1. pc = "loop" /\ saved' = saved /\ Matched(session) /\ Ended(session.log)
    BY PairsNow DEF Loop, Ready
  <1>2. CASE session.steering # <<>>
    <2>1. PICK t : t = Steered(session)
      OBVIOUS
    <2>2. Matched(t) /\ Ended(t.log)
      BY <1>1, <2>1, SteeredMatched, SessionParts
    <2>3. Checkpoint(t, "refresh")
      BY <1>2, <2>1 DEF Loop
    <2> QED
      BY <1>1, <2>2, <2>3, PairsFinish
  <1>3. CASE session.steering = <<>>
    <2>1. pc' = "refresh" /\ session' = session /\ writes' = writes
      BY <1>3 DEF Loop
    <2>2. LastIs' /\ Short'
      BY <1>1, <2>1 DEF LastIs, Short, Working, Deciding
    <2> QED
      BY <1>1, <2>1, <2>2, PairsMove
  <1> QED
    BY <1>2, <1>3

(* A request to a provider. *)
LEMMA PairsAsk ==
  ASSUME IInv, Pairs, pc \in Ready, NEW provider, NEW attempt, Ask(provider, attempt), saved' = saved
  PROVE  Pairs'
  <1>1. Matched(session) /\ Ended(session.log)
    BY PairsNow
  <1>2. PICK over : over = (Len(Messages(session)) >= Threshold)
    OBVIOUS
  <1>6. /\ request' = [provider |-> provider, attempt |-> attempt, heard |-> {}, over |-> over]
        /\ session' = IF over THEN Compacted(session) ELSE session
    BY <1>2, Zenon DEF Ask
  <1>7. request'.over = over
    BY <1>6
  <1>3. pc' = "streaming" /\ writes' = writes
    BY DEF Ask
  <1>4. CASE over
    <2>1. PICK t : t = Compacted(session) /\ session' = t
      BY <1>4, <1>6, Zenon
    <2>2. /\ t.log = session.log /\ Matched(t)
          /\ FreshIds => Len(t.log) - t.cut <= Least + 1
      BY <1>1, <2>1, CompactedMatched, SessionParts
    <2>3. LastIs'
      BY <1>1, <1>3, <2>1, <2>2 DEF LastIs, Working, Deciding
    <2>4. Short'
      BY <2>1, <2>2 DEF Short
    <2> QED
      BY <1>3, <2>1, <2>2, <2>3, <2>4, PairsMove
  <1>5. CASE ~over
    <2>1. session' = session
      BY <1>5, <1>6, Zenon
    <2>2. LastIs'
      BY <1>1, <1>3, <2>1 DEF LastIs, Working, Deciding
    <2>3. Short'
      BY <1>5, <1>7, Zenon DEF Short
    <2> QED
      BY <1>1, <1>3, <2>1, <2>2, <2>3, PairsMove
  <1> QED
    BY <1>4, <1>5

(* Refreshed keeps Pairs. *)
LEMMA PairsRefreshed == ASSUME IInv, Pairs, Refreshed PROVE Pairs'
  <1>1. pc \in Ready /\ saved' = saved /\ Matched(session)
    BY PairsNow DEF Refreshed, Ready
  <1>2. Checkpoint(session, "idle") \/ \E provider \in 1..Providers : Ask(provider, 0)
    BY DEF Refreshed, Finish
  <1>3. ASSUME Checkpoint(session, "idle") PROVE Pairs'
    <2>1. PICK s : s = session
      OBVIOUS
    <2> QED
      BY <1>1, <1>3, <2>1, PairsFinish
  <1> QED
    BY <1>1, <1>2, <1>3, PairsAsk

(* Retry keeps Pairs. *)
LEMMA PairsRetry == ASSUME IInv, Pairs, Retry PROVE Pairs'
  <1>1. pc \in Ready /\ saved' = saved /\ Ask(request.provider, request.attempt)
    BY DEF Retry, Ready
  <1> QED
    BY <1>1, PairsAsk

(* What the provider has said is saved after the end of a batch. *)
LEMMA SpokenMatched ==
  ASSUME IInv, Pairs, pc = "streaming", NEW t, t = Spoken
  PROVE  Matched(t) /\ Ended(t.log)
  <1>1. Matched(session) /\ Ended(session.log)
    BY PairsNow DEF Ready
  <1>2. PICK m : m = Text /\ m.type = "text"
    BY MessageFacts
  <1>3. Matched(Add(session, <<m>>)) /\ Ended(Add(session, <<m>>).log)
    BY <1>1, <1>2, PlainMatched, SessionParts
  <1>4. t = session \/ t = Add(session, <<m>>)
    BY <1>2 DEF Spoken
  <1> QED
    BY <1>1, <1>3, <1>4

(* The checkpoint of what it has said. *)
LEMMA PairsSpoken ==
  ASSUME IInv, Pairs, pc = "streaming", NEW next \in {"idle", "replied"}, Checkpoint(Spoken, next), saved' = saved
  PROVE  Pairs'
  <1>1. PICK t : t = Spoken
    OBVIOUS
  <1>2. Matched(t) /\ Ended(t.log) /\ Checkpoint(t, next)
    BY <1>1, SpokenMatched
  <1> QED
    BY <1>2, PairsFinish

(* The session ends the turn as it is. *)
LEMMA PairsEnd ==
  ASSUME IInv, Pairs, Finish(session), saved' = saved
  PROVE  Pairs'
  <1>1. PICK s : s = session
    OBVIOUS
  <1> QED
    BY <1>1, PairsFinish, PairsNow DEF Finish

(* Replied keeps Pairs. *)
LEMMA PairsReplied == ASSUME IInv, Pairs, Replied PROVE Pairs'
  <1>1. pc = "replied" /\ saved' = saved /\ Matched(session) /\ Ended(session.log)
    BY PairsNow DEF Replied, Ready
  <1>2. CASE Finish(session)
    BY <1>1, <1>2, PairsEnd
  <1>3. CASE pc' = "loop" /\ session' = session /\ writes' = writes
    <2>1. LastIs' /\ Short'
      BY <1>1, <1>3 DEF LastIs, Short, Working, Deciding
    <2> QED
      BY <1>1, <1>3, <2>1, PairsMove
  <1> QED
    BY <1>2, <1>3 DEF Replied

(* StreamFails keeps Pairs. *)
LEMMA PairsStreamFails == ASSUME IInv, Pairs, StreamFails PROVE Pairs'
  <1>1. pc = "streaming" /\ saved' = saved /\ Matched(session) /\ Ended(session.log) /\ pc \in Ready
    BY PairsNow DEF StreamFails, Ready
  <1>2. CASE Finish(Spoken)
    BY <1>1, <1>2, PairsSpoken DEF Finish
  <1>3. CASE pc' = "retrying" /\ session' = session /\ writes' = writes
    <2>1. LastIs' /\ Short'
      BY <1>1, <1>3 DEF LastIs, Short, Working, Deciding
    <2> QED
      BY <1>1, <1>3, <2>1, PairsMove
  <1>4. CASE Ask(request.provider + 1, 0)
    BY <1>1, <1>4, PairsAsk
  <1> QED
    BY <1>2, <1>3, <1>4 DEF StreamFails

(* The calls of a batch, numbered at the end of the session. *)
LEMMA CallsFormed ==
  ASSUME NEW b \in Batch, NEW cs, cs = Calls(b), NEW m, m = Request(cs)
  PROVE  Formed(m, Len(session.log) + 1)
  <1>1. Listed(b) /\ b # <<>> /\ Len(b) \in Nat
    BY AgentTurnAssumption, ListedIn, ListFacts
  <1>2. Len(b) > 0
    BY <1>1, ListedTail
  <1>3. /\ cs = [i \in 1..Len(b) |-> cs[i]]
        /\ \A i \in 1..Len(b) : /\ cs[i].n = <<Len(session.log) + 1, i>>
                                /\ cs[i].id = <<IF FreshIds THEN Len(session.log) + 1 ELSE 0, i>>
    BY DEF Calls
  <1>4. Listed(cs) /\ Len(cs) = Len(b) /\ DOMAIN cs = 1..Len(b)
    BY <1>1, <1>3, TableListed
  <1>5. cs # <<>>
    BY <1>2, <1>4
  <1>6. m.calls = cs
    BY MessageFacts
  <1> QED
    BY <1>3, <1>4, <1>5, <1>6 DEF Formed

(* StreamEnds keeps Pairs: the request of the batch follows the end of the
   last one. *)
LEMMA PairsStreamEnds == ASSUME IInv, Pairs, StreamEnds PROVE Pairs'
  <1>1. pc = "streaming" /\ saved' = saved /\ Matched(session) /\ Ended(session.log)
    BY PairsNow DEF StreamEnds, Ready
  <1>2. PICK b \in Batch :
          \/ Finish(session)
          \/ batch' = Calls(b) /\ Checkpoint(Add(session, <<Request(batch')>>), "deciding")
    BY DEF StreamEnds
  <1>3. CASE Finish(session)
    BY <1>1, <1>3, PairsEnd
  <1>4. CASE batch' = Calls(b) /\ Checkpoint(Add(session, <<Request(batch')>>), "deciding")
    <2>1. PICK cs : cs = Calls(b) /\ batch' = cs
      BY <1>4
    <2>2. Formed(Request(cs), Len(session.log) + 1)
      BY <2>1, CallsFormed
    <2>3. PICK t : t = Add(session, <<Request(cs)>>)
      OBVIOUS
    <2>4. Matched(t) /\ Len(t.log) > 0 /\ t.log[Len(t.log)] = Request(cs)
      BY <1>1, <2>2, <2>3, RequestMatched, SessionParts
    <2>5. Checkpoint(t, "deciding") /\ EndsWith(t.log, batch') /\ "deciding" \notin Ready
      BY <1>4, <2>1, <2>3, <2>4 DEF EndsWith, Ready
    <2> QED
      BY <1>1, <2>4, <2>5, PairsCheckpoint
  <1> QED
    BY <1>2, <1>3, <1>4

(* The batch is decided and executed: the session stays. *)
LEMMA PairsWork ==
  ASSUME Pairs, pc \in Working, pc' \in Working, UNCHANGED <<session, saved, writes, batch>>
  PROVE  Pairs'
  <1>1. Matched(session) /\ EndsWith(session.log, batch)
    BY PairsNow
  <1>2. LastIs' /\ Short'
    BY <1>1 DEF LastIs, Short, Working, Ready
  <1> QED
    BY <1>1, <1>2, PairsMove

(* Neither session nor place change. *)
LEMMA PairsStay ==
  ASSUME Pairs, UNCHANGED <<session, saved, writes, batch, pc, after>>, request'.over = request.over
  PROVE  Pairs'
  <1>1. LastIs' /\ Short'
    BY DEF Pairs, LastIs, Short, Deciding
  <1> QED
    BY <1>1, PairsMove, PairsNow

(* The results of the batch match the request the log ends with. *)
LEMMA ResultsMatch ==
  ASSUME NEW L, NEW as, EndsWith(L, batch), PairedLog(L), as = [i \in DOMAIN batch |-> Result(i)]
  PROVE  L[Len(L)].type = "calls" /\ Matches(as, L[Len(L)].calls)
  <1>1. PICK m : m = L[Len(L)]
    OBVIOUS
  <1>2. m.type = "calls" /\ m.calls = batch
    BY <1>1, MessageFacts DEF EndsWith
  <1>3. Len(L) \in DOMAIN L
    BY ListFacts DEF EndsWith, PairedLog
  <1>4. Listed(batch)
    BY <1>1, <1>2, <1>3 DEF PairedLog, Formed
  <1>5. Len(batch) \in Nat /\ DOMAIN batch = 1..Len(batch)
    BY <1>4, ListFacts
  <1>6. /\ as = [i \in 1..Len(batch) |-> as[i]]
        /\ \A i \in 1..Len(batch) : as[i].n = batch[i].n /\ as[i].id = batch[i].id
    BY <1>5 DEF Result
  <1>7. Listed(as) /\ Len(as) = Len(batch)
    BY <1>5, <1>6, TableListed
  <1> QED
    BY <1>1, <1>2, <1>5, <1>6, <1>7 DEF Matches

(* ResultsReady keeps Pairs. *)
LEMMA PairsResultsReady == ASSUME IInv, Pairs, ResultsReady PROVE Pairs'
  <1>1. pc = "executing" /\ saved' = saved /\ Matched(session) /\ EndsWith(session.log, batch)
    BY PairsNow DEF ResultsReady, Working
  <1>2. PICK as : as = [i \in DOMAIN batch |-> Result(i)]
    OBVIOUS
  <1>3. PICK t : t = Add(session, <<Results(as)>>)
    OBVIOUS
  <1>4. session.log[Len(session.log)].type = "calls" /\ Matches(as, session.log[Len(session.log)].calls)
    BY <1>1, <1>2, ResultsMatch DEF Matched
  <1>5. Matched(t) /\ Ended(t.log)
    BY <1>1, <1>3, <1>4, ResultsMatched, SessionParts DEF EndsWith
  <1>6. Checkpoint(t, "results")
    BY <1>2, <1>3 DEF ResultsReady
  <1> QED
    BY <1>1, <1>5, <1>6, PairsFinish

(* AfterResults keeps Pairs: a plugin adds its context after the results. *)
LEMMA PairsAfterResults == ASSUME IInv, Pairs, AfterResults PROVE Pairs'
  <1>1. pc = "results" /\ saved' = saved /\ Matched(session) /\ Ended(session.log)
    BY PairsNow DEF AfterResults, Ready
  <1>2. CASE pc' = "loop" /\ writes' = writes /\ session' = session
    <2>1. LastIs' /\ Short'
      BY <1>1, <1>2 DEF LastIs, Short, Working, Deciding
    <2> QED
      BY <1>1, <1>2, <2>1, PairsMove
  <1>3. CASE session' = Add(session, <<User(0)>>) /\ pc' = "loop" /\ writes' = writes
    <2>1. PICK m : m = User(0) /\ m.type = "user"
      BY MessageFacts
    <2>2. PICK t : t = Add(session, <<m>>) /\ session' = t
      BY <1>3, <2>1
    <2>3. Matched(t) /\ Ended(t.log)
      BY <1>1, <2>1, <2>2, PlainMatched, SessionParts
    <2>4. LastIs' /\ Short'
      BY <1>3, <2>2, <2>3 DEF LastIs, Short, Working, Deciding
    <2> QED
      BY <1>1, <1>3, <2>2, <2>3, <2>4, PairsMove
  <1>4. CASE Checkpoint(session, "ending")
    <2>1. PICK s : s = session
      OBVIOUS
    <2> QED
      BY <1>1, <1>4, <2>1, PairsFinish
  <1> QED
    BY <1>2, <1>3, <1>4 DEF AfterResults

(* Written keeps Pairs: the turn goes on where its checkpoint said. *)
LEMMA PairsWritten == ASSUME IInv, Places, Pairs, Written PROVE Pairs'
  <1>1. /\ writes # <<>> /\ saved' = Head(writes).session /\ writes' = Tail(writes)
        /\ session' = session /\ after' = after /\ batch' = batch /\ request' = request
        /\ IF Head(writes).by = "turn" THEN pc' = after ELSE pc' = pc
    BY DEF Written, batchVars
  <1>2. Matched(saved')
    BY <1>1, WriteDone DEF Pairs, AllMatched
  <1>3. \A i \in DOMAIN writes' : Matched(writes'[i].session)
    BY <1>1, MatchedTail, SessionParts DEF Pairs, AllMatched
  <1>4. AllMatched'
    BY <1>1, <1>2, <1>3 DEF Pairs, AllMatched
  <1>5. CASE pc' = pc
    BY <1>1, <1>4, <1>5 DEF Pairs, LastIs, Short, Deciding
  <1>6. CASE pc' = after /\ Head(writes).by = "turn"
    <2>1. pc = "saving"
      BY <1>1, <1>6, WriteDone DEF IInv, Roles
    <2>2. after \in {"idle", "loop", "refresh", "replied", "results", "ending", "deciding"}
      BY DEF Places, Goals
    <2>3. LastIs'
      BY <1>1, <1>6, <2>1, <2>2 DEF Pairs, LastIs, Ready, Working, Deciding
    <2>4. Short'
      BY <1>6, <2>2 DEF Short
    <2> QED
      BY <1>4, <2>3, <2>4 DEF Pairs
  <1> QED
    BY <1>1, <1>5, <1>6

(* The turn is over, or stops: nothing is said of the end of its session. *)
LEMMA PairsOver ==
  ASSUME AllMatched', pc' \in {"idle", "stopping"} \/ (pc' = "saving" /\ after' = "idle")
  PROVE  Pairs'
  BY DEF Pairs, LastIs, Short, Ready, Working, Deciding

(* WriteFails keeps Pairs. *)
LEMMA PairsWriteFails == ASSUME IInv, Pairs, WriteFails PROVE Pairs'
  <1>1. /\ writes # <<>> /\ saved' = saved /\ session' = session /\ batch' = batch /\ request' = request
        /\ \/ pc' = "idle" /\ writes' = Tail(writes)
           \/ /\ pc' = "saving" /\ after' = "idle"
              /\ writes' = Append(Tail(writes), [by |-> "turn", session |-> session])
           \/ pc' = pc /\ after' = after /\ writes' = Tail(writes)
    BY DEF WriteFails, batchVars
  <1>2. PICK ws : ws = Tail(writes)
    OBVIOUS
  <1>3. Listed(ws) /\ \A i \in DOMAIN ws : Matched(ws[i].session)
    BY <1>1, <1>2, MatchedTail, SessionParts DEF Pairs, AllMatched
  <1>4. CASE writes' = Tail(writes)
    <2>1. AllMatched'
      BY <1>1, <1>2, <1>3, <1>4 DEF Pairs, AllMatched
    <2>2. CASE pc' = pc /\ after' = after
      BY <1>1, <2>1, <2>2 DEF Pairs, LastIs, Short, Deciding
    <2>3. CASE pc' = "idle" \/ (pc' = "saving" /\ after' = "idle")
      BY <2>1, <2>3, PairsOver
    <2> QED
      BY <1>1, <2>2, <2>3
  <1>5. CASE pc' = "saving" /\ after' = "idle" /\ writes' = Append(Tail(writes), [by |-> "turn", session |-> session])
    <2>1. PICK w : w = [by |-> "turn", session |-> session]
      OBVIOUS
    <2>2. w.session = session
      BY <2>1
    <2>3. Matched(w.session) /\ writes' = Append(ws, w)
      BY <1>2, <1>5, <2>1, <2>2, PairsNow
    <2>4. \A i \in DOMAIN writes' : Matched(writes'[i].session)
      BY <1>3, <2>3, MatchedAppend
    <2>5. AllMatched'
      BY <1>1, <2>4 DEF Pairs, AllMatched
    <2> QED
      BY <1>5, <2>5, PairsOver
  <1> QED
    BY <1>1, <1>4, <1>5

(* Stop keeps Pairs, with a batch that has its request and no results. *)
LEMMA PairsStop == ASSUME IInv, Pairs, Stop PROVE Pairs'
  <1>1. PICK ws : ws = Others(writes)
    OBVIOUS
  <1>2. Listed(ws) /\ \A i \in DOMAIN ws : Matched(ws[i].session)
    <2>1. Chain(saved, ws) /\ \A i \in DOMAIN ws : \E j \in DOMAIN writes : ws[i] = writes[j]
      BY <1>1, OthersLeft
    <2> QED
      BY <2>1 DEF Chain, Pairs, AllMatched
  <1>3. session' = session /\ Matched(session) /\ Matched(saved')
    BY DEF Stop, Pairs, AllMatched
  <1>4. /\ pc' \in {"idle", "stopping"} \/ (pc' = "saving" /\ after' = "idle")
        /\ \/ writes' = ws \/ writes' = writes
           \/ writes' = Append(ws, [by |-> "turn", session |-> session])
    BY <1>1 DEF Stop
  <1>5. CASE writes' = ws \/ writes' = writes
    BY <1>2, <1>3, <1>4, <1>5, PairsOver DEF Pairs, AllMatched
  <1>6. CASE writes' = Append(ws, [by |-> "turn", session |-> session])
    <2>1. PICK w : w = [by |-> "turn", session |-> session]
      OBVIOUS
    <2>2. w.session = session
      BY <2>1
    <2>3. \A i \in DOMAIN writes' : Matched(writes'[i].session)
      BY <1>2, <1>3, <1>6, <2>1, <2>2, MatchedAppend
    <2>4. AllMatched'
      BY <1>3, <2>3 DEF AllMatched
    <2> QED
      BY <1>4, <2>4, PairsOver
  <1> QED
    BY <1>4, <1>5, <1>6

(* Crash keeps Pairs: whatever is in the file is paired. *)
LEMMA PairsCrash == ASSUME IInv, Pairs, Crash PROVE Pairs'
  <1>1. session' = saved' /\ Matched(saved') /\ writes' = <<>> /\ pc' = "idle"
    BY DEF Crash, Pairs, AllMatched
  <1>2. DOMAIN <<>> = {}
    OBVIOUS
  <1>3. AllMatched'
    BY <1>1, <1>2 DEF AllMatched
  <1> QED
    BY <1>1, <1>3, PairsOver

(* A write of a control request. *)
LEMMA ControlMatched ==
  ASSUME IInv, Pairs, NEW s, Matched(s), Save("control", s)
  PROVE  \A i \in DOMAIN writes' : Matched(writes'[i].session)
  <1>1. PICK w : w = [by |-> "control", session |-> s]
    OBVIOUS
  <1>2. w.session = s
    BY <1>1
  <1>3. writes' = Append(writes, w)
    BY <1>1 DEF Save
  <1> QED
    BY <1>2, <1>3, MatchedAppend, SessionParts DEF Pairs, AllMatched

(* Control keeps Pairs, at any place of the turn. *)
LEMMA PairsControl == ASSUME IInv, Pairs, Control PROVE Pairs'
  <1>1. /\ saved' = saved /\ pc' = pc /\ after' = after /\ batch' = batch /\ request' = request
        /\ Save("control", session') /\ \E note \in {0, Note} : session' = Controlled(session, note)
    BY DEF Control, turnVars, batchVars
  <1>2. PICK note, t : t = Controlled(session, note) /\ session' = t
    BY <1>1
  <1>3. Matched(t) /\ t.log = session.log /\ t.cut = session.cut
    BY <1>2, ControlledMatched, SessionParts, PairsNow
  <1>4. \A i \in DOMAIN writes' : Matched(writes'[i].session)
    BY <1>1, <1>2, <1>3, ControlMatched
  <1>5. AllMatched'
    BY <1>1, <1>2, <1>3, <1>4 DEF Pairs, AllMatched
  <1>6. LastIs' /\ Short'
    BY <1>1, <1>2, <1>3 DEF Pairs, LastIs, Short, Deciding
  <1> QED
    BY <1>5, <1>6 DEF Pairs

(* ControlSaves keeps Pairs. *)
LEMMA PairsControlSaves == ASSUME IInv, Pairs, ControlSaves PROVE Pairs'
  <1>1. /\ UNCHANGED <<session, saved, pc, after, batch, request>>
        /\ Save("control", Controlled(handler.session, handler.note)) /\ handler.session = saved
    BY DEF ControlSaves, turnVars, batchVars, IInv, Handled
  <1>2. PICK t : t = Controlled(saved, handler.note)
    OBVIOUS
  <1>3. Matched(t) /\ Save("control", t)
    BY <1>1, <1>2, ControlledMatched, SessionParts, PairsNow
  <1>4. \A i \in DOMAIN writes' : Matched(writes'[i].session)
    BY <1>3, ControlMatched
  <1>5. AllMatched'
    BY <1>1, <1>4 DEF Pairs, AllMatched
  <1>6. LastIs' /\ Short'
    BY <1>1 DEF Pairs, LastIs, Short, Deciding
  <1> QED
    BY <1>5, <1>6 DEF Pairs

(* The steps of a tool keep Pairs. *)
LEMMA PairsTools ==
  ASSUME IInv, Pairs, NEW i \in DOMAIN stage, Checked(i) \/ Drained(i) \/ CallEnds(i)
  PROVE  Pairs'
  <1>1. UNCHANGED <<session, saved, writes, batch, pc, after, request>>
    BY DEF Checked, Drained, CallEnds, sessionVars
  <1> QED
    BY <1>1, PairsStay

(* Every step keeps Pairs. *)
LEMMA PairsStep == ASSUME IInv, Places, Ranges, Pairs, [Next]_vars PROVE Pairs'
  <1>1. CASE UNCHANGED vars \/ Leave \/ TimePasses \/ ControlLoads
    <2>1. UNCHANGED <<session, saved, writes, batch, pc, after, request>>
      BY <1>1 DEF vars, sessionVars, turnVars, batchVars, Leave, TimePasses, ControlLoads
    <2> QED
      BY <2>1, PairsStay
  <1>2. CASE Hear
    <2>1. UNCHANGED <<session, saved, writes, batch, pc, after>> /\ \E h : request' = [request EXCEPT !.heard = h]
      BY <1>2 DEF Hear, sessionVars, batchVars
    <2>2. request'.over = request.over
      BY <2>1 DEF Ranges, NoRequest
    <2> QED
      BY <2>1, <2>2, PairsStay
  <1>3. CASE Decide \/ Resolve \/ Prepared \/ StartGroup \/ GroupDeadline
    <2>1. UNCHANGED <<session, saved, writes, batch>> /\ pc \in Working /\ pc' \in Working
      BY <1>3 DEF Decide, Resolve, Prepared, StartGroup, GroupDeadline, Working, sessionVars, batchVars
    <2> QED
      BY <2>1, PairsWork
  <1>4. CASE AskDeadline \/ Ending \/ Stopped
    <2>1. Finish(session) /\ saved' = saved
      BY <1>4 DEF AskDeadline, Ending, Stopped
    <2> QED
      BY <2>1, PairsEnd
  <1>5. CASE Reply \/ StreamDeadline
    <2>1. /\ pc = "streaming" /\ saved' = saved
          /\ Checkpoint(Spoken, "idle") \/ Checkpoint(Spoken, "replied")
      BY <1>5 DEF Reply, StreamDeadline, Finish
    <2> QED
      BY <2>1, PairsSpoken
  <1>6. CASE Turn
    BY <1>3, <1>4, <1>5, <1>6, PairsLoop, PairsRefreshed, PairsRetry, PairsReplied, PairsTools,
       PairsResultsReady, PairsAfterResults DEF Turn, Tools
  <1>7. CASE Next /\ ~Turn
    BY <1>1, <1>2, <1>3, <1>5, <1>7, PairsBeginTurn, PairsStreamFails, PairsStreamEnds, PairsTools, PairsWritten,
       PairsWriteFails, PairsStop, PairsCrash, PairsControl, PairsControlSaves DEF Next
  <1> QED
    BY <1>1, <1>6, <1>7

(* Pairs holds of every reachable state. *)
LEMMA AlwaysPairs == Spec => [](IInv /\ Pairs)
  <1>1. Init => IInv /\ Places /\ Ranges /\ Pairs
    BY InitIInv, InitPlaces, InitRanges, InitPairs
  <1>2. IInv /\ Places /\ Ranges /\ Pairs /\ [Next]_vars => (IInv /\ Places /\ Ranges /\ Pairs)'
    BY IInvStep, PlacesStep, RangesStep, PairsStep
  <1> QED
    BY <1>1, <1>2, PTL DEF Spec
-----------------------------------------------------------------------------
(* The theorems.                                                           *)

(* Type correctness: a session, saved or not, has its cut within its log and
   one of the two modes; the turn, its calls and its request to a provider
   stay within their ranges; turn and handler await one write each at most. *)
THEOREM TypeCorrect == Spec => []TypeOK
  <1>1. ASSUME IInv, Ranges PROVE TypeOK
    <2>1. \A s : Fine(s, ran, Used) => SessionOK(s)
      BY DEF Fine, GoodLog, Good, SessionOK
    <2>2. \A s \in {session, saved} \cup {writes[i].session : i \in DOMAIN writes} : Fine(s, ran, Used)
      BY <1>1 DEF IInv, Sessions, AllFine
    <2>3. \A i, j \in DOMAIN writes : writes[i].by = writes[j].by => i = j
      BY <1>1 DEF IInv, Queue, Chain
    <2> QED
      BY <1>1, <2>1, <2>2, <2>3 DEF TypeOK, Ranges, PcNames, StageNames
  <1> QED
    BY <1>1, AlwaysIInv, PTL

(* EffectsSaved: the file a crash leaves has the request of every call that
   was ever executed, so that recover_interrupted_tools of the next turn can
   tell of it (the checkpoint before the calls are decided in _run_turn, and
   the order of the writes that save_session leaves to its lock). *)
THEOREM EffectsSavedAlways == Spec => []EffectsSaved
  <1>1. IInv => EffectsSaved
    BY DEF IInv, Kept, HasCall, EffectsSaved
  <1> QED
    BY <1>1, AlwaysIInv, PTL

(* ResultsTell: no result says "not executed" of a call that was executed,
   or "executed" of one that was not, through refusals, holds, deadlines and
   cancellations (execute_one and execute_group of _execute_tools). *)
THEOREM ResultsTellAlways == Spec => []ResultsTell
  <1>1. ASSUME IInv PROVE ResultsTell
    <2>1. \A i \in DOMAIN session.log : Good(session.log[i], i, ran)
      BY <1>1 DEF IInv, Sessions, Fine, GoodLog
    <2> QED
      BY <2>1 DEF Good, ResultsTell
  <1> QED
    BY <1>1, AlwaysIInv, PTL

(* SteeringKept: steering that control_run confirmed stands exactly once in
   session.json and, in a turn, in its session: as steering that waits or as
   a message, never both and never neither, also after stops, failed writes
   and crashes. *)
THEOREM SteeringKeptAlways == Spec => []SteeringKept
  <1>1. ASSUME IInv PROVE SteeringKept
    <2> SUFFICES ASSUME NEW note \in accepted PROVE Holds(saved, note) /\ (active => Holds(session, note))
      BY DEF SteeringKept
    <2>1. note \in Notes /\ Given(saved, note)
      BY <1>1, UsedNat DEF IInv, Kept, Notes
    <2>2. Fine(saved, ran, Used) /\ Fine(session, ran, Used) /\ Used \in Nat
      BY <1>1, UsedNat DEF IInv, Sessions
    <2>3. active => Given(session, note)
      BY <1>1, <2>1 DEF IInv, Queue, Below, Under
    <2> QED
      BY <2>1, <2>2, <2>3, HoldsOnce
  <1> QED
    BY <1>1, AlwaysIInv, PTL

(* Paired: whatever was stopped, steered, crashed, recovered or compacted away,
   a request to a provider carries no call without its results and no result
   without its call (recover_interrupted_tools, _compact and the order in which
   _run_turn adds messages). *)
THEOREM PairedAlways == Spec => []Paired
  <1>1. ASSUME Pairs PROVE Paired
    <2>1. SUFFICES ASSUME pc = "streaming" PROVE Paired
      BY DEF Paired
    <2>2. PICK ms : ms = Messages(session)
      OBVIOUS
    <2>3. PICK L, c : L = session.log /\ c = session.cut
      OBVIOUS
    <2>4. Matched(session) /\ Ended(L)
      BY <1>1, <2>1, <2>3, PairsNow DEF Ready
    <2>5. /\ Listed(ms) /\ Len(ms) \in Nat /\ Len(ms) = Len(L) - c
          /\ \A i \in 1..Len(ms) : ms[i] = L[c + i] /\ c + i \in DOMAIN L
      BY <2>2, <2>3, <2>4, MessagesAre
    <2>6. /\ PairedLog(L) /\ Len(L) \in Nat /\ DOMAIN L = 1..Len(L) /\ c \in Nat
          /\ c + 1 \in DOMAIN L => L[c + 1].type # "results"
      BY <2>3, <2>4, ListFacts DEF Matched, PairedLog, CutWell
    <2>7. ASSUME NEW i \in 1..Len(ms), ms[i].type = "calls"
          PROVE  i < Len(ms) /\ ms[i + 1].type = "results"
      <3>1. PICK p : p = c + i
        OBVIOUS
      <3>2. p \in DOMAIN L /\ L[p].type = "calls"
        BY <2>5, <2>7, <3>1
      <3>3. p # Len(L)
        BY <2>4, <2>6, <3>2 DEF Ended
      <3>4. i < Len(ms) /\ p < Len(L)
        <4>1. p \in 1..Len(L) /\ Len(L) \in Nat /\ c \in Nat /\ Len(ms) = Len(L) - c
          BY <2>5, <2>6, <3>2
        <4> QED
          BY <3>1, <3>3, <4>1
      <3>5. L[p + 1].type = "results"
        BY <2>6, <3>2, <3>4 DEF PairedLog, Asked
      <3>6. i + 1 \in 1..Len(ms) /\ c + (i + 1) = p + 1
        BY <2>5, <2>6, <3>1, <3>4
      <3> QED
        BY <2>5, <3>4, <3>5, <3>6
    <2>8. ASSUME NEW i \in 1..Len(ms), ms[i].type = "results"
          PROVE  /\ i > 1 /\ ms[i - 1].type = "calls"
                 /\ [k \in 1..Len(ms[i].answers) |-> ms[i].answers[k].n]
                      = [k \in 1..Len(ms[i - 1].calls) |-> ms[i - 1].calls[k].n]
      <3>1. PICK p : p = c + i
        OBVIOUS
      <3>2. p \in DOMAIN L /\ L[p].type = "results" /\ L[p] = ms[i]
        BY <2>5, <2>8, <3>1
      <3>3. i > 1
        <4>1. p # c + 1
          BY <2>6, <3>2
        <4> QED
          BY <2>5, <2>6, <3>1, <4>1
      <3>4. p > 1 /\ L[p - 1].type = "calls" /\ Matches(L[p].answers, L[p - 1].calls)
        BY <2>6, <3>2 DEF PairedLog, Told
      <3>5. i - 1 \in 1..Len(ms) /\ c + (i - 1) = p - 1
        BY <2>5, <2>6, <3>1, <3>3
      <3>6. ms[i - 1] = L[p - 1] /\ p - 1 \in DOMAIN L
        BY <2>5, <3>5
      <3>7. PICK as, cs : as = ms[i].answers /\ cs = ms[i - 1].calls
        OBVIOUS
      <3>8. Matches(as, cs) /\ Listed(cs)
        BY <2>6, <3>2, <3>4, <3>6, <3>7 DEF PairedLog, Formed
      <3>9. Len(as) = Len(cs) /\ \A k \in 1..Len(cs) : as[k].n = cs[k].n
        BY <3>8, ListFacts DEF Matches
      <3>10. [k \in 1..Len(as) |-> as[k].n] = [k \in 1..Len(cs) |-> cs[k].n]
        BY <3>9
      <3> QED
        BY <3>3, <3>4, <3>6, <3>7, <3>10
    <2> QED
      BY <2>2, <2>7, <2>8 DEF Paired
  <1> QED
    BY <1>1, AlwaysPairs, PTL

(* PromptBounded, where no two calls have the same id: a request made over the
   threshold goes out with the messages to keep, and one more at most
   (compact of session.py).  With ids that a provider repeats it is false: the
   run of MCAgentTurnIds.cfg shows how. *)
THEOREM PromptStaysBounded == ASSUME FreshIds PROVE Spec => []PromptBounded
  <1>1. ASSUME Pairs PROVE PromptBounded
    <2>1. Len(Messages(session)) = Len(session.log) - session.cut
      BY <1>1, MessagesAre DEF Pairs, AllMatched
    <2> QED
      BY <1>1, <2>1 DEF Pairs, Short, Least, PromptBounded
  <1> QED
    BY <1>1, AlwaysPairs, PTL
=============================================================================
