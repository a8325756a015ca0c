---------------------------- MODULE KafkaOutbox ----------------------------
(***************************************************************************)
(* The gateway's kafka_event_outbox table and the relays that drain it     *)
(* (apps/gateway-api/src/kafka/outbox.ts, packages/kafka).                 *)
(*                                                                         *)
(* Every gateway replica runs one relay.  A relay claims the oldest due    *)
(* rows in one transaction, publishes them one by one to the clusters of   *)
(* their topic and records each outcome with an UPDATE of its own; a       *)
(* process may die between any two of these steps.  A relay between two    *)
(* batches of a tick and a relay between two ticks are both "idle": the    *)
(* timer lets either claim next.                                           *)
(*                                                                         *)
(* A publish is one send() per cluster.  kafkajs repeats a send whose      *)
(* answer stays out, and the producer is not idempotent, so one send may   *)
(* append several copies.  Promise.all rejects at the first error and      *)
(* leaves the other send running: its copies land whenever they do, also   *)
(* after the row was settled or the process died.                          *)
(***************************************************************************)
EXTENDS Naturals, FiniteSets

CONSTANTS
  NumEvents,    (* rows ever enqueued; row e has the e-th created_at       *)
  Dual,         (* the rows whose topic is published to both clusters      *)
  Relays,       (* gateway replicas                                        *)
  BatchSize,    (* KAFKA_OUTBOX_BATCH_SIZE                                 *)
  SendTries,    (* requests one send() may make: kafkajs's retries and one *)
  MaxAttempts,  (* OUTBOX_MAX_ATTEMPTS_BEFORE_DEAD                         *)
  MaxCrashes,   (* bound on process deaths                                 *)
  MaxUnheard,   (* bound on copies that land unheard                       *)
  MaxDbErrors   (* bound on failed or unacknowledged database calls        *)

Events  == 1..NumEvents
Cluster == {"hlf", "events"}
Status  == {"ABSENT", "PENDING", "IN_FLIGHT", "FAILED", "SENT", "DEAD"}
Phase   == {"idle", "claiming", "publish", "sending", "markSent", "markFailed",
            "deadLetter"}

ASSUME OutboxAssumption ==
  /\ NumEvents \in Nat
  /\ Dual \subseteq Events
  /\ BatchSize \in Nat \ {0}
  /\ SendTries \in Nat \ {0}
  /\ MaxAttempts \in Nat \ {0}
  /\ MaxCrashes \in Nat
  /\ MaxUnheard \in Nat
  /\ MaxDbErrors \in Nat

VARIABLES
  status,       (* status[e]: the row's status column                      *)
  attempts,     (* attempts[e]: the row's attempts column                  *)
  due,          (* due[e]: available_at <= NOW()                           *)
  sends,        (* sends[e]: publishes of e ever begun                     *)
  copies,       (* copies[e][c]: messages carrying e in cluster c          *)
  lettered,     (* the rows a dead letter was asked for                    *)
  dlq,          (* the rows that have a dlq-events entry in some cluster   *)
  phase,        (* phase[r]: where relay r is in drainKafkaEventOutbox     *)
  held,         (* held[r]: rows r has locked or claimed and not finished  *)
  cur,          (* cur[r]: the row r is working on (0: none)               *)
  waiting,      (* waiting[r]: clusters whose send has not answered r yet  *)
  rowAttempts,  (* rowAttempts[r][e]: row.attempts as RETURNed to r        *)
  crashes, dbErrors, unheard  (* counters of the bounds above             *)

rowVars    == <<status, attempts, due>>
brokerVars == <<sends, copies, lettered, dlq>>
relayVars  == <<phase, held, cur, waiting, rowAttempts>>
bounds     == <<crashes, dbErrors, unheard>>
vars       == <<rowVars, brokerVars, relayVars, bounds>>

ClustersOf(e) == IF e \in Dual THEN Cluster ELSE {"events"}

TypeOK ==
  /\ status \in [Events -> Status]
  /\ attempts \in [Events -> Nat]
  /\ due \in [Events -> BOOLEAN]
  /\ sends \in [Events -> Nat]
  /\ copies \in [Events -> [Cluster -> Nat]]
  /\ lettered \subseteq Events
  /\ dlq \subseteq Events
  /\ phase \in [Relays -> Phase]
  /\ held \in [Relays -> SUBSET Events]
  /\ cur \in [Relays -> Events \cup {0}]
  /\ \A r \in Relays : phase[r] \in {"idle", "claiming", "publish"} \/ cur[r] \in Events
  /\ waiting \in [Relays -> SUBSET Cluster]
  /\ rowAttempts \in [Relays -> [Events -> Nat]]
  /\ crashes \in Nat
  /\ dbErrors \in Nat
  /\ unheard \in Nat

Init ==
  /\ status = [e \in Events |-> "ABSENT"]
  /\ attempts = [e \in Events |-> 0]
  /\ due = [e \in Events |-> FALSE]
  /\ sends = [e \in Events |-> 0]
  /\ copies = [e \in Events |-> [c \in Cluster |-> 0]]
  /\ lettered = {}
  /\ dlq = {}
  /\ phase = [r \in Relays |-> "idle"]
  /\ held = [r \in Relays |-> {}]
  /\ cur = [r \in Relays |-> 0]
  /\ waiting = [r \in Relays |-> {}]
  /\ rowAttempts = [r \in Relays |-> [e \in Events |-> 0]]
  /\ crashes = 0
  /\ dbErrors = 0
  /\ unheard = 0

-----------------------------------------------------------------------------
(* Rows.                                                                   *)

\* enqueueKafkaEvent: the INSERT becomes visible with its transaction.
Enqueue(e) ==
  /\ status[e] = "ABSENT"
  /\ status' = [status EXCEPT ![e] = "PENDING"]
  /\ due' = [due EXCEPT ![e] = TRUE]
  /\ UNCHANGED <<attempts, brokerVars, relayVars, bounds>>

\* The retry delay of a FAILED row runs out.
BecomeDue(e) ==
  /\ status[e] = "FAILED" /\ ~due[e]
  /\ due' = [due EXCEPT ![e] = TRUE]
  /\ UNCHANGED <<status, attempts, brokerVars, relayVars, bounds>>

LockedMutant == {}      \* FOR UPDATE SKIP LOCKED dropped from the claim

\* Rows locked FOR UPDATE by a claim that has not committed yet.
Locked == UNION {held[r] : r \in {q \in Relays : phase[q] = "claiming"}}

ClaimableMutant(e) ==   \* IN_FLIGHT rows are claimed too
  status[e] \in {"PENDING", "FAILED", "IN_FLIGHT"} /\ due[e] /\ e \notin Locked

ClaimablePendingOnly(e) ==   \* FAILED rows are never picked up again
  status[e] = "PENDING" /\ due[e] /\ e \notin Locked

Claimable(e) ==
  status[e] \in {"PENDING", "FAILED"} /\ due[e] /\ e \notin Locked

\* ORDER BY created_at LIMIT: the members of S with fewer than n elders in S.
Oldest(S, n) == {e \in S : Cardinality({f \in S : f < e}) < n}

-----------------------------------------------------------------------------
(* claimPendingEvents.                                                     *)

ClaimSelect(r) ==
  LET rows == Oldest({e \in Events : Claimable(e)}, BatchSize)
  IN /\ phase[r] = "idle" /\ rows # {}
     /\ held' = [held EXCEPT ![r] = rows]
     /\ phase' = [phase EXCEPT ![r] = "claiming"]
     /\ UNCHANGED <<rowVars, brokerVars, cur, waiting, rowAttempts, bounds>>

TakeRowsMutant(r) ==    \* attempts = attempts + 1 dropped from the UPDATE
  /\ phase[r] = "claiming"
  /\ status' = [e \in Events |-> IF e \in held[r] THEN "IN_FLIGHT" ELSE status[e]]
  /\ UNCHANGED <<attempts, due>>

\* The UPDATE of the claimed rows, as of the commit.
TakeRows(r) ==
  /\ phase[r] = "claiming"
  /\ status' = [e \in Events |-> IF e \in held[r] THEN "IN_FLIGHT" ELSE status[e]]
  /\ attempts' = [e \in Events |-> IF e \in held[r] THEN attempts[e] + 1 ELSE attempts[e]]
  /\ UNCHANGED due

ClaimCommit(r) ==
  /\ TakeRows(r)
  /\ phase' = [phase EXCEPT ![r] = "publish"]
  /\ rowAttempts' = [rowAttempts EXCEPT ![r] =
        [e \in Events |-> IF e \in held[r] THEN attempts'[e] ELSE 0]]
  /\ UNCHANGED <<brokerVars, held, cur, waiting, bounds>>

DbError == dbErrors < MaxDbErrors /\ dbErrors' = dbErrors + 1

\* Relay r gives up its tick; what it held in memory is gone.
AbandonTick(r) ==
  /\ phase' = [phase EXCEPT ![r] = "idle"]
  /\ held' = [held EXCEPT ![r] = {}]
  /\ cur' = [cur EXCEPT ![r] = 0]
  /\ waiting' = [waiting EXCEPT ![r] = {}]
  /\ rowAttempts' = [rowAttempts EXCEPT ![r] = [e \in Events |-> 0]]

\* The claim throws: rolled back, or committed without the answer arriving.
ClaimError(r) ==
  /\ DbError /\ phase[r] = "claiming"
  /\ AbandonTick(r)
  /\ TakeRows(r) \/ UNCHANGED rowVars
  /\ UNCHANGED <<brokerVars, crashes, unheard>>

-----------------------------------------------------------------------------
(* The loop over the claimed rows.                                         *)

\* The row is done: go on with the batch, or end the drain.
NextRow(r) ==
  /\ held' = [held EXCEPT ![r] = @ \ {cur[r]}]
  /\ cur' = [cur EXCEPT ![r] = 0]
  /\ phase' = [phase EXCEPT ![r] = IF held[r] \subseteq {cur[r]} THEN "idle" ELSE "publish"]
  /\ UNCHANGED <<waiting, rowAttempts>>

\* A request of a publish of e may still arrive at c: the answered send, one
\* that is repeated, or a straggler of a send nobody waits for any more.
MayLand(e, c) == c \in ClustersOf(e) /\ copies[e][c] < SendTries * sends[e]

AppendCopy(e, c) == copies' = [copies EXCEPT ![e][c] = @ + 1]

\* producer.publish starts a send() per cluster of the topic.  The order of
\* RETURNING is unspecified, so any row of the batch may be next.
StartPublish(r, e) ==
  /\ phase[r] = "publish" /\ e \in held[r]
  /\ sends' = [sends EXCEPT ![e] = @ + 1]
  /\ cur' = [cur EXCEPT ![r] = e]
  /\ waiting' = [waiting EXCEPT ![r] = ClustersOf(e)]
  /\ phase' = [phase EXCEPT ![r] = "sending"]
  /\ UNCHANGED <<rowVars, copies, lettered, dlq, held, rowAttempts, bounds>>

\* Cluster c appends a copy of e and no relay hears of it, or not yet: its
\* answer is lost, or its send was abandoned.
Append(e, c) ==
  /\ unheard < MaxUnheard /\ unheard' = unheard + 1
  /\ MayLand(e, c)
  /\ AppendCopy(e, c)
  /\ UNCHANGED <<rowVars, sends, lettered, dlq, relayVars, crashes, dbErrors>>

AckMutant(r, c) ==      \* the first cluster's answer is taken for all
  /\ phase[r] = "sending" /\ c \in waiting[r] /\ MayLand(cur[r], c)
  /\ AppendCopy(cur[r], c)
  /\ waiting' = [waiting EXCEPT ![r] = {}]
  /\ phase' = [phase EXCEPT ![r] = "markSent"]
  /\ UNCHANGED <<rowVars, sends, lettered, dlq, held, cur, rowAttempts, bounds>>

\* Cluster c appends a copy and its acknowledgement arrives; with the last one
\* Promise.all resolves.
Ack(r, c) ==
  /\ phase[r] = "sending" /\ c \in waiting[r] /\ MayLand(cur[r], c)
  /\ AppendCopy(cur[r], c)
  /\ waiting' = [waiting EXCEPT ![r] = @ \ {c}]
  /\ phase' = [phase EXCEPT ![r] = IF waiting[r] = {c} THEN "markSent" ELSE "sending"]
  /\ UNCHANGED <<rowVars, sends, lettered, dlq, held, cur, rowAttempts, bounds>>

\* One send throws (not connected, or its retries are spent) and Promise.all
\* rejects at once; what is still on its way goes on through Append.
Reject(r) ==
  /\ phase[r] = "sending"
  /\ waiting' = [waiting EXCEPT ![r] = {}]
  /\ phase' = [phase EXCEPT ![r] = "markFailed"]
  /\ UNCHANGED <<rowVars, brokerVars, held, cur, rowAttempts, bounds>>

SetSentMutant(e) ==     \* a status literal no query knows
  /\ status' = [status EXCEPT ![e] = "PUBLISHED"]
  /\ UNCHANGED <<attempts, due>>

SetSent(e) ==
  /\ status' = [status EXCEPT ![e] = "SENT"]
  /\ UNCHANGED <<attempts, due>>

MarkSent(r) ==
  /\ phase[r] = "markSent"
  /\ SetSent(cur[r])
  /\ NextRow(r)
  /\ UNCHANGED <<brokerVars, bounds>>

\* markSent throws inside the try block, so the row is marked failed next.
MarkSentError(r) ==
  /\ DbError /\ phase[r] = "markSent"
  /\ SetSent(cur[r]) \/ UNCHANGED rowVars
  /\ phase' = [phase EXCEPT ![r] = "markFailed"]
  /\ UNCHANGED <<brokerVars, held, cur, waiting, rowAttempts, crashes, unheard>>

SetFailedMutant(e, n) ==  \* an exhausted row is retried for ever
  /\ status' = [status EXCEPT ![e] = "FAILED"]
  /\ due' = [due EXCEPT ![e] = FALSE]
  /\ attempts' = [attempts EXCEPT ![e] = n]

SetFailedOffByOne(e, n) ==  \* given up one attempt early
  LET dead == n >= MaxAttempts - 1
  IN /\ status' = [status EXCEPT ![e] = IF dead THEN "DEAD" ELSE "FAILED"]
     /\ due' = IF dead THEN due ELSE [due EXCEPT ![e] = FALSE]
     /\ attempts' = [attempts EXCEPT ![e] = n]

\* The two UPDATEs of markFailed.
SetFailed(e, n) ==
  LET dead == n >= MaxAttempts
  IN /\ status' = [status EXCEPT ![e] = IF dead THEN "DEAD" ELSE "FAILED"]
     /\ due' = IF dead THEN due ELSE [due EXCEPT ![e] = FALSE]
     /\ attempts' = [attempts EXCEPT ![e] = n]

\* A row given up asks for its dead letter next.
MarkFailed(r) ==
  LET dead == rowAttempts[r][cur[r]] >= MaxAttempts
  IN /\ phase[r] = "markFailed"
     /\ SetFailed(cur[r], rowAttempts[r][cur[r]])
     /\ IF dead
          THEN /\ phase' = [phase EXCEPT ![r] = "deadLetter"]
               /\ lettered' = lettered \cup {cur[r]}
               /\ UNCHANGED <<held, cur, waiting, rowAttempts>>
          ELSE NextRow(r) /\ UNCHANGED lettered
     /\ UNCHANGED <<sends, copies, dlq, bounds>>

\* markFailed throws out of the loop: the rest of the batch is dropped.
MarkFailedError(r) ==
  /\ DbError /\ phase[r] = "markFailed"
  /\ SetFailed(cur[r], rowAttempts[r][cur[r]]) \/ UNCHANGED rowVars
  /\ AbandonTick(r)
  /\ UNCHANGED <<brokerVars, crashes, unheard>>

\* The dead letter of e lands, if ever: it goes through the producer that just
\* failed, and like any send it may arrive after its caller gave up.
LetterLands(e) ==
  /\ e \in lettered \ dlq
  /\ dlq' = dlq \cup {e}
  /\ UNCHANGED <<rowVars, sends, copies, lettered, relayVars, bounds>>

\* publishOutboxDeadLetter returns: it swallows its own failure.
DeadLetter(r) ==
  /\ phase[r] = "deadLetter"
  /\ NextRow(r)
  /\ UNCHANGED <<rowVars, brokerVars, bounds>>

\* The process dies: SIGKILL, or exit(0) at the end of a graceful shutdown,
\* whose worker callback clears the timer without waiting for the tick.
\* An open claim is rolled back; what left for a cluster may still land there.
Crash(r) ==
  /\ crashes < MaxCrashes /\ crashes' = crashes + 1
  /\ AbandonTick(r)
  /\ UNCHANGED <<rowVars, brokerVars, dbErrors, unheard>>

-----------------------------------------------------------------------------
RelayStep(r) ==
  \/ ClaimSelect(r) \/ ClaimCommit(r)
  \/ \E e \in Events : StartPublish(r, e)
  \/ \E c \in Cluster : Ack(r, c)
  \/ Reject(r) \/ MarkSent(r) \/ MarkFailed(r) \/ DeadLetter(r)

Fault(r) == ClaimError(r) \/ MarkSentError(r) \/ MarkFailedError(r) \/ Crash(r)

Next ==
  \/ \E e \in Events : Enqueue(e) \/ BecomeDue(e) \/ LetterLands(e)
  \/ \E e \in Events, c \in Cluster : Append(e, c)
  \/ \E r \in Relays : RelayStep(r) \/ Fault(r)

Spec == Init /\ [][Next]_vars

\* setInterval calls every live relay again, every awaited call settles, and
\* delays run out.  Nothing makes a broker answer, a fault happen or an event
\* arrive.
Fairness ==
  /\ \A r \in Relays : WF_vars(RelayStep(r))
  /\ \A e \in Events : WF_vars(BecomeDue(e))

FairSpec == Spec /\ Fairness

-----------------------------------------------------------------------------
(* Properties.                                                             *)

\* No two relays work on one row, not even while one of them still waits for
\* its claim to commit: FOR UPDATE SKIP LOCKED and the IN_FLIGHT status
\* together keep an event from being published by two replicas at once.
ClaimExclusive ==
  \A q, r \in Relays : q # r => held[q] \cap held[r] = {}

\* What the operator reads off the table agrees with the brokers: a SENT row's
\* event is in every cluster of its topic, although one publish of two clusters
\* may land in one only.
SentIsOnEveryCluster ==
  \A e \in Events : status[e] = "SENT" =>
    \A c \in ClustersOf(e) : copies[e][c] > 0

\* Duplicates are bounded by the retries: whatever fails, is repeated or lands
\* late, a cluster never holds more copies of an event than the requests its
\* attempts allow, and the attempts end at OUTBOX_MAX_ATTEMPTS_BEFORE_DEAD.
CopiesWithinAttempts ==
  \A e \in Events : \A c \in Cluster :
    copies[e][c] <= SendTries * attempts[e] /\ attempts[e] <= MaxAttempts

\* A row is given up, and its event dead-lettered, only after the full number
\* of attempts (docs/operations/dlq.md: after >= 10 publish attempts).
DeadIsExhausted ==
  \A e \in Events :
    /\ status[e] = "DEAD" => attempts[e] = MaxAttempts
    /\ e \in dlq => status[e] = "DEAD"

\* Why they hold: what relay r may count on about the rows it holds.  Until the
\* claim commits they are still waiting; afterwards they are IN_FLIGHT with the
\* attempts it was told, and not yet sent in this attempt, except for the one
\* row it works on; of that one the clusters that answered hold a copy.
RelayKnows(r) ==
  /\ phase[r] = "idle" => held[r] = {}
  /\ phase[r] \in {"idle", "claiming", "publish"} <=> cur[r] = 0
  /\ cur[r] # 0 => cur[r] \in held[r]
  /\ phase[r] = "sending" => waiting[r] \subseteq ClustersOf(cur[r])
  /\ phase[r] # "sending" => waiting[r] = {}
  /\ \A e \in held[r] :
       /\ phase[r] = "claiming" => status[e] \in {"PENDING", "FAILED"}
       /\ phase[r] # "claiming" => rowAttempts[r][e] = attempts[e]
       /\ phase[r] # "claiming" /\ e # cur[r] =>
            status[e] = "IN_FLIGHT" /\ sends[e] < attempts[e]
       /\ e = cur[r] => status[e] \in
            CASE phase[r] \in {"sending", "markSent"} -> {"IN_FLIGHT"}
              [] phase[r] = "markFailed"              -> {"IN_FLIGHT", "SENT"}
              [] OTHER                                -> {"DEAD"}
       /\ phase[r] \in {"sending", "markSent"} /\ e = cur[r] =>
            \A c \in ClustersOf(e) \ waiting[r] : copies[e][c] > 0

\* No more publishes than claims, and of each send no more copies than requests.
SendsWithinAttempts ==
  \A e \in Events :
    /\ sends[e] <= attempts[e]
    /\ \A c \in Cluster : copies[e][c] <= SendTries * sends[e]

LettersAreOfTheDead ==
  dlq \subseteq lettered /\ \A e \in lettered : status[e] = "DEAD"

RetriesLeft ==
  \A e \in Events :
    status[e] \in {"ABSENT", "PENDING", "FAILED"} => attempts[e] < MaxAttempts

\* The inductive invariant behind the four properties above.
OutboxInvariant ==
  /\ ClaimExclusive
  /\ SentIsOnEveryCluster
  /\ CopiesWithinAttempts
  /\ DeadIsExhausted
  /\ RetriesLeft
  /\ SendsWithinAttempts
  /\ LettersAreOfTheDead
  /\ \A r \in Relays : RelayKnows(r)

\* Nobody publishes a row that is settled or waits for its retry delay: a
\* publish begins only while the row is IN_FLIGHT.  (Its copies may land later.)
PublishOnlyWhileClaimed ==
  [][\A e \in Events : sends'[e] # sends[e] => status[e] = "IN_FLIGHT"]_vars

\* The relays implement the delivery promise of EventDelivery.
StatusPromise(e) ==
  CASE status[e] = "ABSENT" -> "none"
    [] status[e] = "SENT"   -> "sent"
    [] status[e] = "DEAD"   -> "dead"
    [] OTHER                -> "pending"

Delivery == INSTANCE EventDelivery WITH
  Events   <- Events,
  Cluster  <- Cluster,
  Route    <- [e \in Events |-> ClustersOf(e)],
  MaxTries <- MaxAttempts,
  recorded <- [e \in Events |-> StatusPromise(e)],
  tries    <- attempts,
  begun    <- sends,
  landed   <- [e \in Events |-> {c \in Cluster : copies[e][c] > 0}]

ImplementsDelivery == Delivery!Spec

\* Every accepted event is eventually settled - sent, or dead after its attempts,
\* even if the brokers refuse every message - unless a crash or a failed update
\* left its row IN_FLIGHT with no relay to finish it.
Orphaned(e) == status[e] = "IN_FLIGHT" /\ \A r \in Relays : e \notin held[r]

EventuallySettled ==
  \A e \in Events : status[e] = "PENDING" ~>
    (status[e] \in {"SENT", "DEAD"} \/ Orphaned(e))

\* docs/architecture/event-pipeline.md: the outbox "guarantees at-least-once
\* delivery without losing events on API crashes".  An event that is neither in
\* the brokers nor given up after a crash must still be delivered.
DeliveredDespiteCrashes ==
  \A e \in Events : status[e] = "PENDING" ~>
    (status[e] = "DEAD" \/ \A c \in ClustersOf(e) : copies[e][c] > 0)
=============================================================================
