--------------------------- MODULE FollowupQueue ---------------------------
(***************************************************************************)
(* What the follow-up queue of a run promises, whoever uses it from        *)
(* whatever process: a message is accepted, claimed oldest first, then     *)
(* either run or returned; a claim may be lost, but it never comes back    *)
(* after its turn ran.  Every operation is one step.                       *)
(***************************************************************************)
EXTENDS Integers, FiniteSets

CONSTANT Limit   \* follow-ups the queue accepts

VARIABLES
  accepted,  \* how many follow-ups were accepted; they are numbered from 1
  pending,   \* those waiting
  owned,     \* those claimed and not yet run
  executed   \* those run as a turn

vars == <<accepted, pending, owned, executed>>

Init == accepted = 0 /\ pending = {} /\ owned = {} /\ executed = {}

Enqueue ==
  /\ Cardinality(pending) < Limit
  /\ accepted' = accepted + 1
  /\ pending' = pending \cup {accepted'}
  /\ UNCHANGED <<owned, executed>>

Claim ==
  /\ \E i \in pending :
       /\ \A n \in pending : i <= n
       /\ pending' = pending \ {i}
       /\ owned' = owned \cup {i}
  /\ UNCHANGED <<accepted, executed>>

Return ==
  /\ \E i \in owned :
       /\ owned' = owned \ {i}
       /\ pending' = pending \cup {i}
  /\ UNCHANGED <<accepted, executed>>

Execute ==
  /\ \E i \in owned :
       /\ owned' = owned \ {i}
       /\ executed' = executed \cup {i}
  /\ UNCHANGED <<accepted, pending>>

(* A crash, a failed write or a cancellation loses claims, never executes  *)
(* or re-queues them.                                                      *)
Abandon ==
  /\ \E S \in SUBSET owned : owned' = owned \ S
  /\ UNCHANGED <<accepted, pending, executed>>

Next == Enqueue \/ Claim \/ Return \/ Execute \/ Abandon

Spec == Init /\ [][Next]_vars
=============================================================================
