--------------------------- MODULE AnchorConsumer ---------------------------
(***************************************************************************)
(* The Fabric anchoring consumer (services/fabric-anchor-consumer):        *)
(* one instance reading one partition of kafka-hlf.                        *)
(*                                                                         *)
(* Two activities share the in-memory batch: the main loop, which drains   *)
(* the poll queue into it and flushes it when it is full, and a timer that *)
(* flushes it when it is old - also while the main loop waits inside       *)
(* consume().  Every await of either is a step, so they interleave.        *)
(* SIGTERM ends in the crash modelled here, after one more flush.          *)
(***************************************************************************)
EXTENDS Naturals, FiniteSets, FiniteSetsExt

CONSTANTS
  LogLength,      (* messages of the partition, by offset                  *)
  KeyOf,          (* KeyOf[p]: the idempotency key of message p            *)
  Malformed,      (* messages whose payload does not parse                 *)
  Submitted,      (* complaint-submitted; the others change a status       *)
  Refused,        (* messages Fabric refuses every time                    *)
  BatchLimit,     (* FABRIC_ANCHOR_BATCH_SIZE                              *)
  FailureLimit,   (* failures before a message is dead-lettered (3)        *)
  PauseAfter,     (* FABRIC_ANCHOR_PAUSE_AFTER_FAILURES                    *)
  TimerOn,        (* whether FABRIC_ANCHOR_FLUSH_INTERVAL_MS can elapse    *)
  MaxCallErrors,  (* bound on failed database, Kafka and Fabric calls      *)
  MaxRestarts     (* bound on process deaths                               *)

AnchorMsgs == 1..LogLength
Keys == {KeyOf[p] : p \in AnchorMsgs}

ASSUME AnchorAssumption ==
  /\ LogLength \in Nat /\ DOMAIN KeyOf = AnchorMsgs
  /\ Malformed \subseteq AnchorMsgs /\ Submitted \subseteq AnchorMsgs
  /\ Refused \subseteq AnchorMsgs
  /\ BatchLimit \in Nat \ {0} /\ FailureLimit \in Nat \ {0}
  /\ PauseAfter \in Nat \ {0} /\ TimerOn \in BOOLEAN
  /\ MaxCallErrors \in Nat /\ MaxRestarts \in Nat

VARIABLES
  groupOffset,    (* the group's committed offset: where a restart reads   *)
  fetched,        (* last message kafkajs pushed on the poll queue         *)
  drained,        (* last message consume() took off the queue             *)
  parsed,         (* last message the main loop has looked at              *)
  pending,        (* pendingCommitOffsets (0: empty map)                   *)
  batch,          (* the messages in the batch array                       *)
  main,           (* where the main loop waits                             *)
  mainSent,       (* the offset its commit carries                         *)
  added,          (* addedToBatch > 0 in this round                        *)
  stage,          (* where the running flush waits ("off": not flushing)   *)
  flushOwner,     (* who awaits the flush: the main loop or the timer      *)
  at,             (* last message visited by the flush's loop over batch   *)
  unique,         (* messages collected by that loop                       *)
  todo,           (* members of unique the current stage still handles     *)
  flushSent,      (* the offset the flush's commit carries                 *)
  paused, flushFailures,
  processed,      (* processed_events: keys                                *)
  failures,       (* event_failures: failure_count by key                  *)
  ledger,         (* messages whose chaincode transaction committed        *)
  rooted,         (* messages under a Merkle root the ledger accepted      *)
  announced,      (* messages with a proof row and a complaint-anchored    *)
  deadLetters,    (* dead-lettered messages                                *)
  callErrors, restarts

queueVars == <<fetched, drained, parsed, pending>>
mainVars  == <<main, mainSent, added>>
flushVars == <<stage, flushOwner, at, unique, todo, flushSent>>
paceVars  == <<paused, flushFailures>>
anchorStoreVars == <<processed, failures, ledger, rooted, announced, deadLetters>>
anchorFaultVars == <<callErrors, restarts>>
anchorVars == <<groupOffset, queueVars, batch, mainVars, flushVars, paceVars,
                anchorStoreVars, anchorFaultVars>>

AnchorTypeOK ==
  /\ groupOffset \in 1..LogLength + 1
  /\ fetched \in 0..LogLength /\ drained \in 0..fetched /\ parsed \in 0..drained
  /\ pending \in 0..drained /\ mainSent \in 0..drained /\ flushSent \in 0..drained
  /\ batch \subseteq 1..parsed /\ unique \subseteq AnchorMsgs /\ todo \subseteq unique
  /\ at \in 0..LogLength /\ flushOwner \in {"main", "timer"}
  /\ main \in {"loop", "pause", "consume", "parse", "commit", "flush", "dead"}
  /\ stage \in {"off", "scan", "apply", "root", "proofs", "mark", "commit",
                "record", "alert", "recheck", "commitDlq"}
  /\ added \in BOOLEAN /\ paused \in BOOLEAN /\ flushFailures \in 0..PauseAfter
  /\ processed \subseteq Keys /\ failures \in [Keys -> 0..FailureLimit]
  /\ ledger \subseteq AnchorMsgs /\ rooted \subseteq AnchorMsgs /\ announced \subseteq AnchorMsgs
  /\ deadLetters \subseteq AnchorMsgs

AnchorInit ==
  /\ groupOffset = 1 /\ fetched = 0 /\ drained = 0 /\ parsed = 0 /\ pending = 0
  /\ batch = {} /\ main = "loop" /\ mainSent = 0 /\ added = FALSE
  /\ stage = "off" /\ flushOwner = "main" /\ at = 0 /\ unique = {} /\ todo = {}
  /\ flushSent = 0 /\ paused = FALSE /\ flushFailures = 0
  /\ processed = {} /\ failures = [k \in Keys |-> 0]
  /\ ledger = {} /\ rooted = {} /\ announced = {} /\ deadLetters = {}
  /\ callErrors = 0 /\ restarts = 0

Flushing == stage # "off"

\* A call fails that would not fail every time.
Error == callErrors < MaxCallErrors /\ callErrors' = callErrors + 1 /\ UNCHANGED restarts

\* What commitOffsets does with the offset the caller read before the await:
\* commit() then clears the map, whatever consume() put there meanwhile.
Sent(offset) == IF offset = 0 THEN groupOffset ELSE offset + 1

CommitReturns(offset) ==
  /\ groupOffset' = Sent(offset)
  /\ pending' = IF offset = 0 THEN pending ELSE 0

-----------------------------------------------------------------------------
(* flush: entry and exit.                                                  *)

StartFlush(who) ==
  /\ stage' = "scan" /\ flushOwner' = who /\ at' = 0
  /\ unique' = {} /\ todo' = {} /\ flushSent' = 0

EndFlush(mainNext) ==
  /\ stage' = "off" /\ at' = 0 /\ unique' = {} /\ todo' = {} /\ flushSent' = 0
  /\ main' = IF flushOwner = "main" THEN mainNext ELSE main
  /\ UNCHANGED <<flushOwner, mainSent, added>>

-----------------------------------------------------------------------------
(* The poll queue and the main loop.                                       *)

\* eachMessage pushes the next message on the queue.
Fetch ==
  /\ fetched < LogLength
  /\ fetched' = fetched + 1
  /\ UNCHANGED <<groupOffset, drained, parsed, pending, batch, mainVars, flushVars,
                 paceVars, anchorStoreVars, anchorFaultVars>>

Pause ==
  /\ main = "loop" /\ paused
  /\ main' = "pause"
  /\ UNCHANGED <<groupOffset, queueVars, batch, mainSent, added, flushVars, paceVars,
                 anchorStoreVars, anchorFaultVars>>

PauseElapses ==
  /\ main = "pause"
  /\ main' = "loop" /\ paused' = FALSE /\ flushFailures' = 0
  /\ UNCHANGED <<groupOffset, queueVars, batch, mainSent, added, flushVars, anchorStoreVars,
                 anchorFaultVars>>

Consume ==
  /\ main = "loop" /\ ~paused /\ ~Flushing
  /\ main' = "consume"
  /\ UNCHANGED <<groupOffset, queueVars, batch, mainSent, added, flushVars, paceVars,
                 anchorStoreVars, anchorFaultVars>>

\* After the last message of a round, nothing left to await: flush('size') when
\* the batch is full (it returns at once when the timer is flushing).
SizeCheck ==
  IF Cardinality(batch') >= BatchLimit /\ ~Flushing
    THEN main' = "flush" /\ StartFlush("main")
    ELSE main' = "loop" /\ UNCHANGED flushVars

\* The main loop appends well-formed messages from first on, up to the next
\* malformed one, at which it awaits, or to the end of the round.
PushFrom(first, last, wasAdded) ==
  LET bad  == {p \in Malformed : p >= first /\ p <= last}
      stop == IF bad = {} THEN last ELSE Min(bad) - 1
  IN /\ parsed' = stop
     /\ batch' = batch \cup first..stop
     /\ added' = (wasAdded \/ first <= stop)
     /\ IF stop < last THEN main' = "parse" /\ UNCHANGED <<mainSent, flushVars>>
        ELSE SizeCheck /\ UNCHANGED mainSent

\* The offset of the last message drained, for commit() to add one to.
LastOffsetMutant == IF fetched > drained THEN fetched + 1 ELSE 0

LastOffset == IF fetched > drained THEN fetched ELSE 0

\* consume() resolves with the queue's content, or empty after its timeout, and
\* replaces the pending offsets by those of this round.
Drain ==
  /\ main = "consume"
  /\ drained' = fetched
  /\ pending' = LastOffset
  /\ PushFrom(drained + 1, fetched, FALSE)
  /\ UNCHANGED <<groupOffset, fetched, paceVars, anchorStoreVars, anchorFaultVars>>

\* The message at parsed + 1 is malformed: dead-lettered under a random key.
\* A round of malformed messages only is committed at its end.
ParseMalformed ==
  /\ main = "parse"
  /\ deadLetters' = deadLetters \cup {parsed + 1}
  /\ IF parsed + 1 = drained /\ ~added
       THEN /\ parsed' = drained /\ main' = "commit" /\ mainSent' = pending
            /\ UNCHANGED <<batch, added, flushVars>>
       ELSE PushFrom(parsed + 2, drained, added)
  /\ UNCHANGED <<groupOffset, fetched, drained, pending, paceVars, processed, failures,
                 ledger, rooted, announced, anchorFaultVars>>

CommitMalformed ==
  /\ main = "commit"
  /\ CommitReturns(mainSent)
  /\ mainSent' = 0
  /\ UNCHANGED batch /\ SizeCheck
  /\ UNCHANGED <<fetched, drained, parsed, added, paceVars, anchorStoreVars,
                 anchorFaultVars>>

\* Nothing catches what these awaits throw: main() rejects and the loop is over,
\* while the timer and the Kafka client keep the process alive.
MainThrows ==
  /\ Error /\ main \in {"parse", "commit"}
  /\ main' = "dead"
  /\ IF main = "parse"
       THEN deadLetters' \in {deadLetters, deadLetters \cup {parsed + 1}} /\ UNCHANGED groupOffset
       ELSE groupOffset' \in {groupOffset, Sent(mainSent)} /\ UNCHANGED deadLetters
  /\ UNCHANGED <<queueVars, batch, mainSent, added, flushVars, paceVars,
                 processed, failures, ledger, rooted, announced>>

MainStep == Pause \/ PauseElapses \/ Consume \/ Drain \/ ParseMalformed \/ CommitMalformed

TimerFlush ==
  /\ TimerOn /\ ~Flushing /\ batch # {}
  /\ StartFlush("timer")
  /\ UNCHANGED <<groupOffset, queueVars, batch, mainVars, paceVars, anchorStoreVars,
                 anchorFaultVars>>

-----------------------------------------------------------------------------
(* flush: the try block.                                                   *)

\* The loops over batch are live: they also visit what is pushed meanwhile.
Ahead == {p \in batch : p > at}

Enter(next, work) ==
  /\ stage' = next /\ at' = 0 /\ todo' = work
  /\ flushSent' = IF next \in {"commit", "commitDlq"} THEN pending ELSE 0

ScanMutant ==      \* isProcessed is not asked
  /\ stage = "scan"
  /\ LET p == Min(Ahead)
     IN /\ unique' = unique \cup {p}
        /\ IF Ahead # {p} THEN at' = p /\ UNCHANGED <<stage, todo, flushSent>>
           ELSE Enter("apply", unique')
  /\ UNCHANGED <<groupOffset, queueVars, batch, mainVars, flushOwner, paceVars,
                 anchorStoreVars, anchorFaultVars>>

Scan ==
  /\ stage = "scan"
  /\ LET p == Min(Ahead)
     IN /\ unique' = IF KeyOf[p] \in processed THEN unique ELSE unique \cup {p}
        /\ IF Ahead # {p} THEN at' = p /\ UNCHANGED <<stage, todo, flushSent>>
           ELSE IF unique' = {} THEN Enter("commit", {})
           ELSE Enter("apply", unique')
  /\ UNCHANGED <<groupOffset, queueVars, batch, mainVars, flushOwner, paceVars,
                 anchorStoreVars, anchorFaultVars>>

\* createComplaint for the submitted events first, then updateComplaintStatus.
NextApply == IF todo \cap Submitted # {} THEN Min(todo \cap Submitted) ELSE Min(todo)

\* The current stage has handled p: on to the next message, or stage.
ItemHandled(p, next, work) ==
  /\ IF todo # {p} THEN todo' = todo \ {p} /\ UNCHANGED <<stage, at, flushSent>>
     ELSE Enter(next, work)
  /\ UNCHANGED <<flushOwner, unique>>

Apply ==
  /\ stage = "apply" /\ NextApply \notin Refused
  /\ ledger' = ledger \cup {NextApply}
  /\ IF unique \cap Submitted # {} THEN ItemHandled(NextApply, "root", {})
     ELSE ItemHandled(NextApply, "mark", unique)
  /\ UNCHANGED <<groupOffset, queueVars, batch, mainVars, paceVars, processed, failures,
                 rooted, announced, deadLetters, anchorFaultVars>>

SubmitRootMutant ==   \* the commit status is discarded
  /\ stage = "root"
  /\ rooted' \in {rooted, rooted \cup (unique \cap Submitted)}
  /\ Enter("proofs", unique \cap Submitted) /\ UNCHANGED <<flushOwner, unique>>
  /\ UNCHANGED <<groupOffset, queueVars, batch, mainVars, paceVars, processed, failures,
                 ledger, announced, deadLetters, anchorFaultVars>>

\* SubmitMerkleRoot over the submitted events; its commit status is checked.
SubmitRoot ==
  /\ stage = "root"
  /\ rooted' = rooted \cup (unique \cap Submitted)
  /\ Enter("proofs", unique \cap Submitted) /\ UNCHANGED <<flushOwner, unique>>
  /\ UNCHANGED <<groupOffset, queueVars, batch, mainVars, paceVars, processed, failures,
                 ledger, announced, deadLetters, anchorFaultVars>>

\* Both proof rows are written and complaint-anchored is published.
WriteProof ==
  /\ stage = "proofs"
  /\ announced' = announced \cup {Min(todo)}
  /\ ItemHandled(Min(todo), "mark", unique)
  /\ UNCHANGED <<groupOffset, queueVars, batch, mainVars, paceVars, processed, failures,
                 ledger, rooted, deadLetters, anchorFaultVars>>

MarkProcessed ==
  /\ stage = "mark"
  /\ processed' = processed \cup {KeyOf[Min(todo)]}
  /\ ItemHandled(Min(todo), "commit", {})
  /\ UNCHANGED <<groupOffset, queueVars, batch, mainVars, paceVars, failures, ledger,
                 rooted, announced, deadLetters, anchorFaultVars>>

\* commit() returns: the whole batch array is emptied.
Commit ==
  /\ stage = "commit"
  /\ CommitReturns(flushSent)
  /\ batch' = {}
  /\ IF unique = {} THEN UNCHANGED paceVars ELSE paused' = FALSE /\ flushFailures' = 0
  /\ EndFlush("loop")
  /\ UNCHANGED <<fetched, drained, parsed, anchorStoreVars, anchorFaultVars>>

-----------------------------------------------------------------------------
(* flush: an await of the try block throws, and the catch block.           *)

Fail ==
  /\ Enter("record", {}) /\ unique' = {} /\ UNCHANGED flushOwner
  /\ flushFailures' = IF flushFailures < PauseAfter THEN flushFailures + 1 ELSE PauseAfter

\* Fabric rejects, or its answer is lost after the transaction committed.  The
\* failure may also open the circuit, which pauses consumption.
FabricError ==
  /\ stage \in {"apply", "root"}
  /\ \/ stage = "apply" /\ NextApply \in Refused /\ UNCHANGED <<ledger, rooted,
                                                                anchorFaultVars>>
     \/ stage = "apply" /\ Error /\ UNCHANGED rooted
        /\ ledger' \in {ledger, ledger \cup ({NextApply} \ Refused)}
     \/ stage = "root" /\ Error /\ UNCHANGED ledger
        /\ rooted' \in {rooted, rooted \cup (unique \cap Submitted)}
  /\ Fail /\ paused' \in {paused, TRUE}
  /\ UNCHANGED <<groupOffset, queueVars, batch, mainVars, processed, failures,
                 announced, deadLetters>>

\* A database or Kafka call throws, before or after it took effect.
StoreError ==
  /\ Error /\ stage \in {"scan", "proofs", "mark", "commit"}
  /\ CASE stage = "proofs" -> announced' \in {announced, announced \cup {Min(todo)}}
                              /\ UNCHANGED <<processed, groupOffset>>
       [] stage = "mark"   -> processed' \in {processed, processed \cup {KeyOf[Min(todo)]}}
                              /\ UNCHANGED <<announced, groupOffset>>
       [] stage = "commit" -> groupOffset' \in {groupOffset, Sent(flushSent)}
                              /\ UNCHANGED <<announced, processed>>
       [] OTHER            -> UNCHANGED <<announced, processed, groupOffset>>
  /\ Fail /\ UNCHANGED paused
  /\ UNCHANGED <<queueVars, batch, mainVars, failures, ledger, rooted, deadLetters>>

\* recordFailure's count saturates at the limit it is compared with.
Count(k) == Min({failures[k] + 1, FailureLimit})

SpentEarly(k) == failures[k] + 2 >= FailureLimit
SpentNever(k) == FALSE
Spent(k) == Count(k) >= FailureLimit

DeadLetteredMutant(p) == deadLetters      \* markProcessed without sendDlq
DeadLettered(p) == IF Spent(KeyOf[p]) THEN deadLetters \cup {p} ELSE deadLetters

\* recordFailure for every message of the batch; out of retries, it is
\* dead-lettered and marked processed.
Record ==
  /\ stage = "record"
  /\ LET p == Min(Ahead)  k == KeyOf[p]
     IN /\ failures' = [failures EXCEPT ![k] = Count(k)]
        /\ deadLetters' = DeadLettered(p)
        /\ processed' = IF Spent(k) THEN processed \cup {k} ELSE processed
        /\ IF Ahead # {p} THEN at' = p /\ UNCHANGED <<stage, todo, flushSent>>
           ELSE Enter("alert", {})
  /\ UNCHANGED <<groupOffset, queueVars, batch, mainVars, flushOwner, unique, paceVars, ledger,
                 rooted, announced, anchorFaultVars>>

AlertOps ==
  /\ stage = "alert"
  /\ Enter("recheck", {}) /\ UNCHANGED <<flushOwner, unique>>
  /\ UNCHANGED <<groupOffset, queueVars, batch, mainVars, paceVars, anchorStoreVars,
                 anchorFaultVars>>

PauseCheck == paused' = (paused \/ flushFailures >= PauseAfter) /\ UNCHANGED flushFailures

RecheckMutant ==      \* commits without asking whether messages remain
  /\ stage = "recheck"
  /\ Enter("commitDlq", {}) /\ UNCHANGED <<flushOwner, unique, mainVars, paceVars>>
  /\ UNCHANGED <<groupOffset, queueVars, batch, anchorStoreVars, anchorFaultVars>>

\* Which messages of the batch are still unprocessed; none left: commit.
Recheck ==
  /\ stage = "recheck"
  /\ LET p == Min(Ahead)
         remaining == IF KeyOf[p] \in processed THEN unique ELSE unique \cup {p}
     IN IF Ahead # {p}
          THEN /\ at' = p /\ unique' = remaining
               /\ UNCHANGED <<stage, flushOwner, todo, flushSent, mainVars, paceVars>>
          ELSE IF remaining = {}
          THEN Enter("commitDlq", {}) /\ UNCHANGED <<flushOwner, unique, mainVars,
                                                     paceVars>>
          ELSE PauseCheck /\ EndFlush("loop")
  /\ UNCHANGED <<groupOffset, queueVars, batch, anchorStoreVars, anchorFaultVars>>

CommitDlq ==
  /\ stage = "commitDlq"
  /\ CommitReturns(flushSent)
  /\ batch' = {}
  /\ PauseCheck /\ EndFlush("loop")
  /\ UNCHANGED <<fetched, drained, parsed, anchorStoreVars, anchorFaultVars>>

\* An await of the catch block throws: flush rejects.  The timer's flush only
\* logs it; awaited by the main loop, it ends the loop.
FlushThrows ==
  /\ Error /\ stage \in {"record", "alert", "recheck", "commitDlq"}
  /\ IF stage = "record"
       THEN LET p == Min(Ahead)  k == KeyOf[p]
            IN \/ UNCHANGED <<failures, deadLetters, processed>>
               \/ /\ failures' = [failures EXCEPT ![k] = Count(k)]
                  /\ deadLetters' \in {deadLetters, DeadLettered(p)}
                  /\ processed' \in {processed,
                       IF deadLetters' # deadLetters THEN processed \cup {k} ELSE processed}
       ELSE UNCHANGED <<failures, deadLetters, processed>>
  /\ groupOffset' \in {groupOffset, IF stage = "commitDlq" THEN Sent(flushSent) ELSE groupOffset}
  /\ EndFlush("dead")
  /\ UNCHANGED <<queueVars, batch, paceVars, ledger, rooted, announced>>

FlushStep ==
  \/ Scan \/ Apply \/ SubmitRoot \/ WriteProof \/ MarkProcessed \/ Commit
  \/ Record \/ AlertOps \/ Recheck \/ CommitDlq

\* The process dies and a new one reads on from the committed offset.
AnchorCrash ==
  /\ restarts < MaxRestarts /\ restarts' = restarts + 1 /\ UNCHANGED callErrors
  /\ fetched' = groupOffset - 1 /\ drained' = groupOffset - 1 /\ parsed' = groupOffset - 1
  /\ pending' = 0 /\ batch' = {} /\ main' = "loop" /\ mainSent' = 0 /\ added' = FALSE
  /\ stage' = "off" /\ flushOwner' = "main" /\ at' = 0 /\ unique' = {} /\ todo' = {}
  /\ flushSent' = 0 /\ paused' = FALSE /\ flushFailures' = 0
  /\ UNCHANGED <<groupOffset, anchorStoreVars>>

AnchorNext ==
  \/ Fetch \/ MainStep \/ TimerFlush \/ FlushStep
  \/ MainThrows \/ FabricError \/ StoreError \/ FlushThrows \/ AnchorCrash

AnchorSpec == AnchorInit /\ [][AnchorNext]_anchorVars

\* The flush goes on: also when Fabric refuses a message, as it always does poison.
FlushGoesOn == FlushStep \/ (stage = "apply" /\ NextApply \in Refused /\ FabricError)

\* kafkajs delivers, sleeps and intervals elapse, awaited calls settle.
AnchorFairness ==
  /\ WF_anchorVars(Fetch) /\ WF_anchorVars(MainStep)
  /\ WF_anchorVars(TimerFlush) /\ WF_anchorVars(FlushGoesOn)

FairAnchorSpec == AnchorSpec /\ AnchorFairness

-----------------------------------------------------------------------------
(* Properties.                                                             *)

WellFormed == AnchorMsgs \ Malformed

\* flush says "Commit only after Fabric confirms + DB writes complete" (or after
\* the dead letter): a committed message is never read again, so it must be
\* anchored or dead-lettered by then.
Settled(p) == IF p \in Malformed THEN p \in deadLetters ELSE KeyOf[p] \in processed

CommittedIsSettled == \A p \in AnchorMsgs : p < groupOffset => Settled(p)

\* A key enters processed_events, and is skipped for ever after, only when some
\* message with that key went the whole way - ledger, root, proof rows and
\* announcement - or was dead-lettered.
ProcessedIsAccounted ==
  \A k \in processed : \E p \in WellFormed :
    /\ KeyOf[p] = k
    /\ \/ p \in deadLetters
       \/ p \in ledger /\ (p \in Submitted => p \in announced)

\* complaint-anchored is never published, and no proof row written, for a root
\* the ledger did not accept.
AnnouncedIsRooted == announced \subseteq rooted /\ rooted \subseteq ledger

\* Only a malformed message, or one with FailureLimit recorded failures, is
\* dead-lettered - across crashes too, as the count is kept in Postgres.
DeadLetterIsEarned ==
  \A p \in deadLetters : p \in Malformed \/ failures[KeyOf[p]] >= FailureLimit

\* Counters and offsets stay in range, and nothing is dead-lettered early.
AnchorInvariant == AnchorTypeOK /\ DeadLetterIsEarned

\* What the flush's next call hands on: the message createComplaint or
\* updateComplaintStatus is called for, the leaves of the root, the message whose
\* proof rows and announcement are written.
HandedOn ==
  CASE stage = "apply"  -> {NextApply}
    [] stage = "root"   -> unique \cap Submitted
    [] stage = "proofs" -> {Min(todo)}
    [] OTHER            -> {}

\* A redelivered message whose key is in processed_events is not submitted to
\* Fabric again, made a leaf of another root, given other proof rows or announced
\* again - by a call that returns or by one that fails, and also when the ledger
\* holds the message already.
NoAnchorAfterProcessed ==
  [][(Apply \/ SubmitRoot \/ WriteProof \/ FabricError \/ StoreError)
       => \A p \in HandedOn : KeyOf[p] \notin processed]_anchorVars

\* Every message is eventually anchored or dead-lettered, poison included,
\* whatever fails in between, unless the main loop has ended (see MainThrows).
AllSettled == \A p \in AnchorMsgs : Settled(p)
EventuallySettled == <>(AllSettled \/ main = "dead")
=============================================================================
