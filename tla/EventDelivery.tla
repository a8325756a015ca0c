--------------------------- MODULE EventDelivery ---------------------------
(***************************************************************************)
(* What the gateway's transactional outbox promises about one event,       *)
(* without rows, relays, claims or crashes.                                *)
(*                                                                         *)
(* An accepted event is tried a bounded number of times, and a try begins  *)
(* one delivery at most; a delivery once begun may leave copies on any of  *)
(* the clusters the topic is published to, then or later.  The event may   *)
(* be recorded as sent only once every one of its clusters holds a copy,   *)
(* and given up only once the tries are exhausted.                         *)
(***************************************************************************)
EXTENDS Naturals

CONSTANTS
  Events,       (* the events the application enqueues                     *)
  Cluster,      (* the Kafka clusters                                      *)
  Route,        (* Route[e]: the clusters the topic of e is published to   *)
  MaxTries      (* tries before the event is given up                      *)

VARIABLES
  recorded,     (* what the outbox says of the event                       *)
  tries,        (* tries[e]: how often e was taken up                      *)
  begun,        (* begun[e]: how often a delivery of e was begun           *)
  landed        (* landed[e]: the clusters that hold a copy of e           *)

vars == <<recorded, tries, begun, landed>>

Recorded == {"none", "pending", "sent", "dead"}

Init ==
  /\ recorded = [e \in Events |-> "none"]
  /\ tries    = [e \in Events |-> 0]
  /\ begun    = [e \in Events |-> 0]
  /\ landed   = [e \in Events |-> {}]

Accept(e) ==
  /\ recorded[e] = "none"
  /\ recorded' = [recorded EXCEPT ![e] = "pending"]
  /\ UNCHANGED <<tries, begun, landed>>

\* A batch of pending events begins a try each.
StartTries(batch) ==
  /\ \A e \in batch : recorded[e] = "pending" /\ tries[e] < MaxTries
  /\ tries' = [e \in Events |-> IF e \in batch THEN tries[e] + 1 ELSE tries[e]]
  /\ UNCHANGED <<recorded, begun, landed>>

\* Only an event that is still pending is sent out, and once per try.
Begin(e) ==
  /\ recorded[e] = "pending" /\ begun[e] < tries[e]
  /\ begun' = [begun EXCEPT ![e] = @ + 1]
  /\ UNCHANGED <<recorded, tries, landed>>

\* A copy lands: only of a delivery that was begun, but no matter how late.
Land(e, c) ==
  /\ begun[e] > 0 /\ c \in Route[e]
  /\ landed' = [landed EXCEPT ![e] = @ \cup {c}]
  /\ UNCHANGED <<recorded, tries, begun>>

RecordSent(e) ==
  /\ recorded[e] = "pending" /\ Route[e] \subseteq landed[e]
  /\ recorded' = [recorded EXCEPT ![e] = "sent"]
  /\ UNCHANGED <<tries, begun, landed>>

\* The record was written but its writer was told it failed: the event is
\* pending again, or given up when that was its last try.
Reopen(e) ==
  /\ recorded[e] = "sent"
  /\ \/ recorded' = [recorded EXCEPT ![e] = "pending"]
     \/ tries[e] = MaxTries /\ recorded' = [recorded EXCEPT ![e] = "dead"]
  /\ UNCHANGED <<tries, begun, landed>>

GiveUp(e) ==
  /\ recorded[e] = "pending" /\ tries[e] = MaxTries
  /\ recorded' = [recorded EXCEPT ![e] = "dead"]
  /\ UNCHANGED <<tries, begun, landed>>

Next ==
  \/ \E e \in Events :
        \/ Accept(e) \/ Begin(e) \/ RecordSent(e) \/ Reopen(e) \/ GiveUp(e)
        \/ \E c \in Cluster : Land(e, c)
  \/ \E batch \in SUBSET Events : StartTries(batch)

Spec == Init /\ [][Next]_vars
=============================================================================
