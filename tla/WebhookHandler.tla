--------------------------- MODULE WebhookHandler ---------------------------
(***************************************************************************)
(* The webhook handler (services/webhook-handler): a consumer group on the *)
(* kafka-events topics that claims a Redis key per message, runs the       *)
(* topic's handler, counts failures in memory and dead-letters a message   *)
(* after WEBHOOK_MAX_ATTEMPTS.                                             *)
(*                                                                         *)
(* Kafka and kafkajs are external: a partition is processed in order by    *)
(* its owner, a handler that throws gets its message again, offsets are    *)
(* committed some time after they are resolved, and a rebalance does not   *)
(* stop the handler the old owner is running.                              *)
(***************************************************************************)
EXTENDS Naturals, Sequences, FiniteSets, FiniteSetsExt

CONSTANTS
  Consumers,        (* processes of the group                               *)
  Partitions,
  NumMsgs,          (* messages, numbered in the order they were produced   *)
  PartOf,           (* the partition of a message: one per complaint        *)
  TopicOf,
  Poison,           (* messages whose handler always throws                 *)
  MaxAttempts,      (* WEBHOOK_MAX_ATTEMPTS                                 *)
  DlqFails,         (* whether the DLQ producer may fail                    *)
  MaxErrors,        (* bound on other failures of a handler                 *)
  MaxRedisErrors,   (* bound on failed Redis calls                          *)
  MaxCrashes,       (* bound on process deaths                              *)
  MaxMoves          (* bound on partitions reassigned by a rebalance        *)

Msgs == 1..NumMsgs
Topics == {"complaint-submitted", "complaint-anchored", "complaint-status-changed",
           "notification-send", "authority-action"}

ASSUME WebhookAssumption ==
  /\ Consumers # {} /\ IsFiniteSet(Consumers) /\ NumMsgs \in Nat
  /\ PartOf \in [Msgs -> Partitions] /\ TopicOf \in [Msgs -> Topics]
  /\ Poison \subseteq Msgs /\ MaxAttempts \in Nat \ {0} /\ DlqFails \in BOOLEAN
  /\ MaxErrors \in Nat /\ MaxRedisErrors \in Nat /\ MaxCrashes \in Nat /\ MaxMoves \in Nat

VARIABLES
  owner,        (* owner[p]: the consumer partition p is assigned to        *)
  pos,          (* pos[p]: last message its owner has resolved              *)
  committed,    (* committed[p]: the group's offset                         *)
  run,          (* run[c][p]: the eachMessage call of c on p                *)
  claims,       (* messages whose idempotency key exists in Redis           *)
  attempts,     (* attempts[c][m]: handlerAttempts of process c             *)
  completions,  (* completions[m]: times a handler ran m to its end         *)
  rows,         (* rows[m]: log and notification rows written for m         *)
  column,       (* column[p]: the event that last wrote complaints.status   *)
  dlq,          (* messages on dlq-events                                   *)
  errors, redisErrors, crashes, moves

groupVars == <<owner, pos, committed>>
storeVars == <<completions, rows, column, dlq>>
faultVars == <<errors, redisErrors, crashes, moves>>
vars == <<groupVars, run, claims, attempts, storeVars, faultVars>>

\* The writes of each topic's handler, in order.
StepsOf(topic) ==
  CASE topic = "complaint-submitted"      -> <<"update", "append">>
    [] topic = "complaint-anchored"       -> <<"update", "notify">>
    [] topic = "complaint-status-changed" -> <<"update", "notify">>
    [] topic = "notification-send"        -> <<"append">>
    [] topic = "authority-action"         -> <<"append", "update", "notify">>

Idle == [at |-> "idle", msg |-> 0, step |-> 0]
Calls == [at : {"idle", "claim", "work", "release", "deadLetter"},
          msg : 0..NumMsgs, step : 0..3]

TypeOK ==
  /\ owner \in [Partitions -> Consumers]
  /\ pos \in [Partitions -> 0..NumMsgs] /\ committed \in [Partitions -> 0..NumMsgs]
  /\ \A p \in Partitions : committed[p] <= pos[p]
  /\ run \in [Consumers -> [Partitions -> Calls]]
  /\ claims \subseteq Msgs /\ dlq \subseteq Msgs
  /\ attempts \in [Consumers -> [Msgs -> 0..MaxAttempts]]
  /\ completions \in [Msgs -> Nat] /\ rows \in [Msgs -> Nat]
  /\ column \in [Partitions -> 0..NumMsgs]
  /\ errors \in 0..MaxErrors /\ redisErrors \in 0..MaxRedisErrors
  /\ crashes \in 0..MaxCrashes /\ moves \in 0..MaxMoves

Init ==
  /\ owner \in [Partitions -> Consumers]
  /\ pos = [p \in Partitions |-> 0] /\ committed = [p \in Partitions |-> 0]
  /\ run = [c \in Consumers |-> [p \in Partitions |-> Idle]]
  /\ claims = {} /\ attempts = [c \in Consumers |-> [m \in Msgs |-> 0]]
  /\ completions = [m \in Msgs |-> 0] /\ rows = [m \in Msgs |-> 0]
  /\ column = [p \in Partitions |-> 0] /\ dlq = {}
  /\ errors = 0 /\ redisErrors = 0 /\ crashes = 0 /\ moves = 0

Goto(c, p, place, n) == run' = [run EXCEPT ![c][p].at = place, ![c][p].step = n]
Return(c, p) == run' = [run EXCEPT ![c][p] = Idle]

Forget(c, m) == attempts' = [attempts EXCEPT ![c][m] = 0]

\* eachMessage returned: the message is resolved, if the partition is still ours.
Resolve(c, p) ==
  /\ Return(c, p)
  /\ pos' = IF owner[p] = c THEN [pos EXCEPT ![p] = run[c][p].msg] ELSE pos
  /\ UNCHANGED <<owner, committed>>

HandlerError == errors < MaxErrors /\ errors' = errors + 1 /\ UNCHANGED <<redisErrors, crashes, moves>>
RedisError == redisErrors < MaxRedisErrors /\ redisErrors' = redisErrors + 1 /\ UNCHANGED <<errors, crashes, moves>>

-----------------------------------------------------------------------------
(* handleWithDedupe and processMessage, for the call of c on p.            *)

Deliver(c, p) ==
  /\ owner[p] = c /\ run[c][p] = Idle
  /\ LET ahead == {m \in Msgs : PartOf[m] = p /\ m > pos[p]}
     IN /\ ahead # {}
        /\ run' = [run EXCEPT ![c][p] = [at |-> "claim", msg |-> Min(ahead), step |-> 0]]
  /\ UNCHANGED <<groupVars, claims, attempts, storeVars, faultVars>>

ClaimMutant(c, p) ==      \* whether the key was there is not looked at
  /\ run[c][p].at = "claim"
  /\ claims' = claims \cup {run[c][p].msg}
  /\ Goto(c, p, "work", 1)
  /\ UNCHANGED <<groupVars, attempts, storeVars, faultVars>>

\* SET NX on the message's key: claimed, or skipped as a duplicate.
Claim(c, p) ==
  /\ run[c][p].at = "claim"
  /\ IF run[c][p].msg \in claims
       THEN Resolve(c, p) /\ UNCHANGED claims
       ELSE /\ claims' = claims \cup {run[c][p].msg}
            /\ Goto(c, p, "work", 1) /\ UNCHANGED groupVars
  /\ UNCHANGED <<attempts, storeVars, faultVars>>

\* Redis fails: the handler runs all the same, the key set or not.
ClaimError(c, p) ==
  /\ run[c][p].at = "claim" /\ RedisError
  /\ claims' \in {claims, claims \cup {run[c][p].msg}}
  /\ Goto(c, p, "work", 1)
  /\ UNCHANGED <<groupVars, attempts, storeVars>>

\* The rows one write may leave: a notification the gateway created although its
\* answer came too late is written again locally.
RowsOf(write) == CASE write = "update" -> {0} [] write = "append" -> {1} [] write = "notify" -> {1, 2}

Write(p, m, n) ==
  LET write == StepsOf(TopicOf[m])[n]
  IN /\ \E k \in RowsOf(write) : rows' = [rows EXCEPT ![m] = @ + k]
     /\ column' = IF write = "update" /\ TopicOf[m] = "complaint-status-changed"
                    THEN [column EXCEPT ![p] = m] ELSE column

Work(c, p) ==
  /\ run[c][p].at = "work"
  /\ LET m == run[c][p].msg  n == run[c][p].step
     IN /\ m \notin Poison
        /\ Write(p, m, n)
        /\ IF n < Len(StepsOf(TopicOf[m]))
             THEN Goto(c, p, "work", n + 1) /\ UNCHANGED <<groupVars, attempts, completions>>
             ELSE /\ completions' = [completions EXCEPT ![m] = @ + 1]
                  /\ Forget(c, m) /\ Resolve(c, p)
  /\ UNCHANGED <<claims, dlq, faultVars>>

\* The handler throws: at the limit the message is dead-lettered, below it the
\* claim is released and the error rethrown.
ExhaustedMutant(n) == n > MaxAttempts
Exhausted(n) == n >= MaxAttempts

Throw(c, p) ==
  LET m == run[c][p].msg  n == attempts[c][m] + 1
  IN /\ attempts' = [attempts EXCEPT ![c][m] = n]
     /\ Goto(c, p, IF Exhausted(n) THEN "deadLetter" ELSE "release", run[c][p].step)

\* A write fails, before or after it took effect; a poison message throws first.
WorkFails(c, p) ==
  /\ run[c][p].at = "work"
  /\ LET m == run[c][p].msg
     IN \/ m \in Poison /\ UNCHANGED <<rows, column, faultVars>>
        \/ m \notin Poison /\ HandlerError
           /\ (UNCHANGED <<rows, column>> \/ Write(p, m, run[c][p].step))
  /\ Throw(c, p)
  /\ UNCHANGED <<groupVars, claims, completions, dlq>>

\* publishWebhookDlq swallows its own failure; the message counts as handled.
DeadLetter(c, p) ==
  /\ run[c][p].at = "deadLetter"
  /\ dlq' \in {dlq \cup {run[c][p].msg}} \cup (IF DlqFails THEN {dlq} ELSE {})
  /\ Forget(c, run[c][p].msg) /\ Resolve(c, p)
  /\ UNCHANGED <<claims, completions, rows, column, faultVars>>

ReleaseMutant(c, p) ==      \* the claim is kept when processing fails
  /\ run[c][p].at = "release"
  /\ Return(c, p)
  /\ UNCHANGED <<groupVars, claims, attempts, storeVars, faultVars>>

\* The claim is deleted and the error rethrown: kafkajs delivers again.
Release(c, p) ==
  /\ run[c][p].at = "release"
  /\ claims' = claims \ {run[c][p].msg}
  /\ Return(c, p)
  /\ UNCHANGED <<groupVars, attempts, storeVars, faultVars>>

\* A failed DEL is ignored.
ReleaseError(c, p) ==
  /\ run[c][p].at = "release" /\ RedisError
  /\ claims' \in {claims, claims \ {run[c][p].msg}}
  /\ Return(c, p)
  /\ UNCHANGED <<groupVars, attempts, storeVars>>

Step(c, p) ==
  \/ Deliver(c, p) \/ Claim(c, p) \/ Work(c, p)
  \/ DeadLetter(c, p) \/ Release(c, p)

\* The call goes on: also when its message is poison and the handler throws.
GoesOn(c, p) == Step(c, p) \/ (run[c][p].msg \in Poison /\ WorkFails(c, p))

-----------------------------------------------------------------------------
(* Kafka and the process.                                                  *)

AutoCommit(p) ==
  /\ committed[p] # pos[p]
  /\ committed' = [committed EXCEPT ![p] = pos[p]]
  /\ UNCHANGED <<owner, pos, run, claims, attempts, storeVars, faultVars>>

\* A rebalance hands p to c, which starts at the committed offset.
Rebalance(c, p) ==
  /\ owner[p] # c /\ run[c][p] = Idle
  /\ moves < MaxMoves /\ moves' = moves + 1
  /\ owner' = [owner EXCEPT ![p] = c]
  /\ pos' = [pos EXCEPT ![p] = committed[p]]
  /\ UNCHANGED <<committed, run, claims, attempts, storeVars, errors, redisErrors, crashes>>

\* The process dies and is started again.
Crash(c) ==
  /\ crashes < MaxCrashes /\ crashes' = crashes + 1
  /\ run' = [run EXCEPT ![c] = [p \in Partitions |-> Idle]]
  /\ attempts' = [attempts EXCEPT ![c] = [m \in Msgs |-> 0]]
  /\ pos' = [p \in Partitions |-> IF owner[p] = c THEN committed[p] ELSE pos[p]]
  /\ UNCHANGED <<owner, committed, claims, storeVars, errors, redisErrors, moves>>

Next ==
  \/ \E c \in Consumers, p \in Partitions :
       \/ Step(c, p) \/ ClaimError(c, p) \/ WorkFails(c, p) \/ ReleaseError(c, p)
       \/ Rebalance(c, p)
  \/ \E p \in Partitions : AutoCommit(p)
  \/ \E c \in Consumers : Crash(c)

Spec == Init /\ [][Next]_vars

\* kafkajs keeps polling and committing, awaited calls settle.
Fairness ==
  /\ \A c \in Consumers, p \in Partitions : WF_vars(GoesOn(c, p))
  /\ \A p \in Partitions : WF_vars(AutoCommit(p))

FairSpec == Spec /\ Fairness

-----------------------------------------------------------------------------
(* Properties.                                                             *)

Handled(m) == completions[m] > 0 \/ m \in dlq

\* "Process one message at most once": across redeliveries, restarts and
\* rebalances a handler completes at most once for a message, and not at all
\* for one that was dead-lettered.  As the handler runs although Redis fails,
\* each Redis failure may cost one repetition, and nothing else may.
AtMostOnce ==
  \A m \in Msgs : completions[m] + (IF m \in dlq THEN 1 ELSE 0) <= 1 + redisErrors

\* A handler that throws gets its message again: no message is committed past
\* that was neither handled nor dead-lettered.
CommittedIsHandled == \A m \in Msgs : m <= committed[PartOf[m]] => Handled(m)

\* Redeliveries after a restart do not set complaints.status back to an earlier
\* event of the complaint.  A rebalance can, as the old owner's handler still
\* writes after the new owner has gone on, and so can a failed Redis call, as
\* the handler then runs again: the promise ends with the first of either.
StatusNeverRegresses ==
  [][moves' = 0 /\ redisErrors' = 0 =>
       \A p \in Partitions : column'[p] >= column[p]]_vars

\* The handlers insert unconditionally: a retry repeats the rows of the attempt
\* before.  The repetitions stay within the attempts of each life of a
\* process, and of each owner the partition has had.
RowsPerAttempt(topic) ==
  CASE topic = "authority-action" -> 3
    [] topic \in {"complaint-anchored", "complaint-status-changed"} -> 2
    [] OTHER -> 1

RowsWithinAttempts ==
  \A m \in Msgs : rows[m] <= MaxAttempts * (1 + crashes + moves) * RowsPerAttempt(TopicOf[m])

\* Counts of attempts end at MaxAttempts, and repeated rows with them.
WebhookInvariant == TypeOK /\ RowsWithinAttempts

\* A poison message does not block its partition: every message is handled or
\* dead-lettered in the end.
AllHandled == \A m \in Msgs : Handled(m)
EventuallyHandled == <>AllHandled
=============================================================================
