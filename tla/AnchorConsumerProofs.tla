------------------------ MODULE AnchorConsumerProofs ------------------------
(***************************************************************************)
(* Proofs about AnchorConsumer for any log of messages, any limits, with   *)
(* and without the timer, and any number of failed calls and deaths.       *)
(***************************************************************************)
EXTENDS AnchorConsumer, FiniteSetTheorems, WellFoundedInduction, TLAPS

-----------------------------------------------------------------------------
(* What a step must know for the properties to be inductive.               *)

\* Nothing malformed is pushed, and the main loop parses the message it waits at.
MainKnows ==
  /\ batch \subseteq WellFormed
  /\ main = "parse" => parsed < drained /\ parsed + 1 \in Malformed

\* How far each stage of a flush has carried the messages it collected.
Carried ==
  /\ stage = "apply" => unique \ todo \subseteq ledger
  /\ stage \in {"root", "proofs", "mark"} => unique \subseteq ledger
  /\ stage = "proofs" => /\ todo \subseteq Submitted
                         /\ unique \cap Submitted \subseteq rooted
                         /\ (unique \cap Submitted) \ todo \subseteq announced
  /\ stage = "mark" => unique \cap Submitted \subseteq announced

\* No loop of a flush is over an empty rest.
WorkIsLeft ==
  /\ Flushing => batch # {}
  /\ stage \in {"scan", "record", "recheck"} => Ahead # {}
  /\ stage \in {"apply", "proofs", "mark"} => todo # {}
  /\ stage = "root" => unique \cap Submitted # {}

StageKnows ==
  /\ unique \subseteq WellFormed
  /\ Carried
  /\ WorkIsLeft
  /\ stage \in {"scan", "apply", "root", "proofs"} => \A p \in unique : KeyOf[p] \notin processed

AInv ==
  /\ AnchorTypeOK /\ DeadLetterIsEarned /\ ProcessedIsAccounted /\ AnnouncedIsRooted
  /\ MainKnows /\ StageKnows

-----------------------------------------------------------------------------
(* The operators the steps are built from.                                 *)

\* A set of natural numbers that is not empty has a minimum, and Min is it.
LEMMA MinIsLeast ==
  ASSUME NEW S \in SUBSET Nat, S # {} PROVE Min(S) \in S /\ \A y \in S : Min(S) <= y
<1>1. \E x \in S : \A y \in S : ~ (<<y, x>> \in OpToRel(<, Nat))
  BY NatLessThanWellFounded, WFMin
<1>2. PICK m \in S : \A y \in S : ~ (<<y, m>> \in OpToRel(<, Nat))
  BY <1>1
<1>3. ASSUME NEW y \in S PROVE m =< y
  <2>1. y < m <=> <<y, m>> \in OpToRel(<, Nat)
    <3>1. <<y, m>> \in Nat \X Nat /\ <<y, m>>[1] = y /\ <<y, m>>[2] = m
      OBVIOUS
    <3> QED BY <3>1, Zenon DEF OpToRel
  <2>2. ~ (y < m)
    BY <1>2, <2>1, Zenon
  <2> QED BY <2>2
<1> QED BY <1>3 DEF Min

\* A count of failures grows by one, up to the limit.
LEMMA CountGrows ==
  ASSUME AnchorTypeOK, NEW k \in Keys
  PROVE  /\ Count(k) \in 0..FailureLimit
         /\ failures[k] \in 0..FailureLimit /\ failures[k] <= Count(k)
<1>1. failures[k] \in 0..FailureLimit /\ FailureLimit \in Nat
  BY AnchorAssumption DEF AnchorTypeOK
<1>2. Count(k) \in {failures[k] + 1, FailureLimit}
      /\ \A y \in {failures[k] + 1, FailureLimit} : Count(k) <= y
  <2>1. {failures[k] + 1, FailureLimit} \in SUBSET Nat /\ {failures[k] + 1, FailureLimit} # {}
    BY <1>1
  <2> QED BY <2>1, MinIsLeast DEF Count
<1> QED BY <1>1, <1>2

LEMMA Limits ==
  /\ LogLength \in Nat /\ 0 \in 0..LogLength
  /\ PauseAfter \in Nat /\ 0 \in 0..PauseAfter /\ FailureLimit \in Nat /\ 0 \in 0..FailureLimit
BY AnchorAssumption

LEMMA KeysOfMsgs == \A p \in AnchorMsgs : KeyOf[p] \in Keys /\ p \in Nat /\ p > 0 /\ p <= LogLength
BY AnchorAssumption DEF AnchorMsgs, Keys

\* The next message of a loop over the batch is one of it.
LEMMA NextOfBatch ==
  ASSUME AnchorTypeOK, MainKnows, Ahead # {}
  PROVE  Min(Ahead) \in batch /\ Min(Ahead) > at /\ Min(Ahead) \in WellFormed
         /\ Min(Ahead) \in AnchorMsgs /\ \A p \in batch : p > at => Min(Ahead) <= p
<1>1. batch \subseteq AnchorMsgs /\ batch \subseteq Nat
  BY KeysOfMsgs DEF MainKnows, WellFormed
<1>2. Min(Ahead) \in Ahead /\ \A p \in Ahead : Min(Ahead) <= p
  BY <1>1, MinIsLeast DEF Ahead
<1> QED BY <1>1, <1>2 DEF Ahead, MainKnows

\* The next message of a stage is one it still handles.
LEMMA NextOfTodo ==
  ASSUME AnchorTypeOK, StageKnows, todo # {}
  PROVE  /\ Min(todo) \in todo /\ NextApply \in todo
         /\ \A p \in todo : p \in unique /\ p \in WellFormed /\ p \in AnchorMsgs
<1>1. todo \subseteq unique /\ todo \subseteq AnchorMsgs /\ todo \subseteq WellFormed
  BY DEF AnchorTypeOK, StageKnows
<1>2. todo \in SUBSET Nat /\ todo \cap Submitted \in SUBSET Nat
  BY <1>1, KeysOfMsgs
<1>3. Min(todo) \in todo
  BY <1>2, MinIsLeast
<1>4. NextApply \in todo
  BY <1>2, <1>3, MinIsLeast DEF NextApply
<1> QED BY <1>1, <1>3, <1>4

\* The main loop pushes well-formed messages only, and stops at a malformed one.
LEMMA PushIsWellFormed ==
  ASSUME AnchorTypeOK, MainKnows, NEW first \in Nat \ {0}, NEW last \in Nat, last <= LogLength,
         parsed < first, first <= last + 1, NEW wasAdded \in BOOLEAN,
         PushFrom(first, last, wasAdded)
  PROVE  /\ parsed' \in Nat /\ parsed <= parsed' /\ first <= parsed' + 1 /\ parsed' <= last
         /\ batch' = batch \cup first..parsed'
         /\ batch' \subseteq 1..parsed' /\ batch' \subseteq WellFormed
         /\ main' = "parse" => parsed' < last /\ parsed' + 1 \in Malformed
         /\ added' \in BOOLEAN /\ mainSent' = mainSent
         /\ \/ UNCHANGED flushVars /\ main' \in {"parse", "loop"}
            \/ main' = "flush" /\ StartFlush("main") /\ ~ Flushing /\ batch' # {}
<1> DEFINE bad  == {p \in Malformed : p >= first /\ p <= last}
           stop == IF bad = {} THEN last ELSE Min(bad) - 1
<1>1. bad \subseteq Nat /\ \A p \in bad : first <= p /\ p <= last
  BY AnchorAssumption, KeysOfMsgs
<1>2. bad # {} => Min(bad) \in bad /\ \A p \in bad : Min(bad) <= p
  BY <1>1, MinIsLeast
<1>3. /\ stop \in Nat /\ first <= stop + 1 /\ stop <= last
      /\ \A p \in Malformed : ~ (first <= p /\ p <= stop)
      /\ stop < last => stop + 1 \in Malformed
  <2>1. CASE bad = {}
    BY <2>1
  <2>2. CASE bad # {}
    <3>1. Min(bad) \in Nat /\ first <= Min(bad) /\ Min(bad) <= last /\ Min(bad) \in Malformed
      BY <1>1, <1>2, <2>2
    <3>2. stop = Min(bad) - 1
      BY <2>2
    <3>3. \A p \in Malformed : p \in Nat
      BY AnchorAssumption, KeysOfMsgs
    <3>4. ASSUME NEW p \in Malformed, first <= p, p <= stop PROVE FALSE
      <4>1. p \in bad
        BY <3>1, <3>2, <3>3, <3>4
      <4>2. Min(bad) <= p
        BY <1>2, <2>2, <4>1
      <4> HIDE DEF bad
      <4> QED BY <3>1, <3>2, <3>3, <3>4, <4>2
    <3> HIDE DEF bad, stop
    <3> QED BY <3>1, <3>2, <3>4
  <2> QED BY <2>1, <2>2
<1>4. /\ parsed' = stop /\ batch' = batch \cup first..stop
      /\ added' = (wasAdded \/ first <= stop)
      /\ IF stop < last THEN main' = "parse" /\ UNCHANGED <<mainSent, flushVars>>
         ELSE SizeCheck /\ UNCHANGED mainSent
  BY DEF PushFrom
<1> HIDE DEF bad, stop
<1>5. first..stop \subseteq WellFormed
  BY <1>3, AnchorAssumption DEF WellFormed, AnchorMsgs
<1>6. parsed \in Nat /\ batch \subseteq 1..parsed
  BY DEF AnchorTypeOK
<1>7. batch' \subseteq 1..parsed'
  BY <1>3, <1>4, <1>6
<1>8. CASE stop < last
  BY <1>3, <1>4, <1>5, <1>6, <1>7, <1>8 DEF MainKnows
<1>9. CASE ~ (stop < last)
  <2>1. \/ UNCHANGED flushVars /\ main' = "loop"
        \/ /\ main' = "flush" /\ StartFlush("main") /\ ~ Flushing
           /\ Cardinality(batch') >= BatchLimit
    BY <1>4, <1>9 DEF SizeCheck
  <2>2. Cardinality(batch') >= BatchLimit => batch' # {}
    BY AnchorAssumption, FS_EmptySet
  <2> QED BY <1>3, <1>4, <1>5, <1>6, <1>7, <1>9, <2>1, <2>2 DEF MainKnows
<1> QED BY <1>8, <1>9

-----------------------------------------------------------------------------
(* Types, split into parts that a step changes as a whole.                 *)

QueueTypes ==
  /\ groupOffset \in 1..LogLength + 1
  /\ fetched \in 0..LogLength /\ drained \in 0..fetched /\ parsed \in 0..drained
  /\ pending \in 0..drained /\ mainSent \in 0..drained /\ flushSent \in 0..drained

MainTypes ==
  /\ batch \subseteq 1..parsed /\ added \in BOOLEAN
  /\ main \in {"loop", "pause", "consume", "parse", "commit", "flush", "dead"}

FlushTypes ==
  /\ unique \subseteq AnchorMsgs /\ todo \subseteq unique
  /\ at \in 0..LogLength /\ flushOwner \in {"main", "timer"}
  /\ stage \in {"off", "scan", "apply", "root", "proofs", "mark", "commit",
                "record", "alert", "recheck", "commitDlq"}

PaceTypes == paused \in BOOLEAN /\ flushFailures \in 0..PauseAfter

StoreTypes ==
  /\ processed \subseteq Keys /\ failures \in [Keys -> 0..FailureLimit]
  /\ ledger \subseteq AnchorMsgs /\ rooted \subseteq AnchorMsgs /\ announced \subseteq AnchorMsgs
  /\ deadLetters \subseteq AnchorMsgs

LEMMA TypesSplit == AnchorTypeOK <=> QueueTypes /\ MainTypes /\ FlushTypes /\ PaceTypes /\ StoreTypes
BY DEF AnchorTypeOK, QueueTypes, MainTypes, FlushTypes, PaceTypes, StoreTypes

LEMMA TypesSplitNext ==
  AnchorTypeOK' <=> QueueTypes' /\ MainTypes' /\ FlushTypes' /\ PaceTypes' /\ StoreTypes'
BY DEF AnchorTypeOK, QueueTypes, MainTypes, FlushTypes, PaceTypes, StoreTypes

\* What flush() sends as an offset is one that was drained.
LEMMA EnterTypes ==
  ASSUME AnchorTypeOK, NEW next, NEW work, Enter(next, work), UNCHANGED drained
  PROVE  stage' = next /\ at' = 0 /\ at' \in 0..LogLength /\ todo' = work /\ flushSent' \in 0..drained
BY AnchorAssumption DEF AnchorTypeOK, Enter

LEMMA SentTypes ==
  ASSUME AnchorTypeOK, NEW offset \in 0..drained
  PROVE  Sent(offset) \in 1..LogLength + 1 /\ (CommitReturns(offset) => pending' \in 0..drained)
BY AnchorAssumption DEF AnchorTypeOK, Sent, CommitReturns

-----------------------------------------------------------------------------
(* What keeps the parts of the invariant.                                  *)

\* The flush does not move, and the batch only grows.
LEMMA FlushKept ==
  ASSUME StageKnows, UNCHANGED <<flushVars, processed, ledger, rooted, announced>>,
         batch \subseteq batch'
  PROVE  StageKnows'
<1>1. Carried' /\ \A p \in unique : KeyOf[p] \notin processed <=> KeyOf[p] \notin processed'
  BY DEF StageKnows, Carried, flushVars
<1>2. WorkIsLeft'
  <2>1. Ahead \subseteq Ahead'
    BY DEF Ahead, flushVars
  <2> QED BY <2>1 DEF StageKnows, WorkIsLeft, Flushing, flushVars
<1> QED BY <1>1, <1>2 DEF StageKnows, flushVars

\* A flush starts at the head of a batch that is not empty, or is over.
LEMMA FlushStarts ==
  ASSUME NEW who, StartFlush(who), batch' # {}, batch' \subseteq 1..parsed', parsed' \in Nat
  PROVE  StageKnows'
<1>1. Ahead' # {}
  <2>0. \A p \in 1..parsed' : p > 0
    OBVIOUS
  <2>1. PICK p \in batch' : p > 0
    BY <2>0
  <2>2. p \in Ahead'
    BY <2>1 DEF StartFlush, Ahead
  <2> QED BY <2>2
<1> QED BY <1>1 DEF StartFlush, StageKnows, Carried, WorkIsLeft, Flushing

LEMMA FlushEnds ==
  ASSUME NEW next, EndFlush(next) PROVE StageKnows'
BY DEF EndFlush, StageKnows, Carried, WorkIsLeft, Flushing

LEMMA AccountsKept ==
  ASSUME ProcessedIsAccounted, processed' \subseteq processed,
         deadLetters \subseteq deadLetters', ledger \subseteq ledger', announced \subseteq announced'
  PROVE  ProcessedIsAccounted'
<1> SUFFICES ASSUME NEW k \in processed'
             PROVE  \E p \in WellFormed : /\ KeyOf[p] = k
                                          /\ \/ p \in deadLetters'
                                             \/ p \in ledger' /\ (p \in Submitted => p \in announced')
  BY DEF ProcessedIsAccounted
<1>1. PICK p \in WellFormed : /\ KeyOf[p] = k
                              /\ \/ p \in deadLetters
                                 \/ p \in ledger /\ (p \in Submitted => p \in announced)
  BY DEF ProcessedIsAccounted
<1> QED BY <1>1

\* A key is marked for a message that went the whole way.
LEMMA AccountsGrow ==
  ASSUME ProcessedIsAccounted, NEW p \in WellFormed, processed' \subseteq processed \cup {KeyOf[p]},
         deadLetters \subseteq deadLetters', ledger \subseteq ledger', announced \subseteq announced',
         p \in deadLetters' \/ (p \in ledger' /\ (p \in Submitted => p \in announced'))
  PROVE  ProcessedIsAccounted'
<1> SUFFICES ASSUME NEW k \in processed'
             PROVE  \E q \in WellFormed : /\ KeyOf[q] = k
                                          /\ \/ q \in deadLetters'
                                             \/ q \in ledger' /\ (q \in Submitted => q \in announced')
  BY DEF ProcessedIsAccounted
<1>1. CASE k = KeyOf[p]
  BY <1>1
<1>2. CASE k \in processed
  <2>1. PICK q \in WellFormed : /\ KeyOf[q] = k
                                /\ \/ q \in deadLetters
                                   \/ q \in ledger /\ (q \in Submitted => q \in announced)
    BY <1>2 DEF ProcessedIsAccounted
  <2> QED BY <2>1
<1> QED BY <1>1, <1>2

LEMMA EarnedKept ==
  ASSUME DeadLetterIsEarned, UNCHANGED failures, deadLetters' \subseteq deadLetters \cup Malformed
  PROVE  DeadLetterIsEarned'
BY DEF DeadLetterIsEarned

-----------------------------------------------------------------------------
(* The steps of the main loop and of the timer.                            *)

LEMMA InitAInv == AnchorInit => AInv
<1> SUFFICES ASSUME AnchorInit PROVE AInv
  OBVIOUS
<1>1. AnchorTypeOK
  <2>1. QueueTypes
    BY AnchorAssumption DEF AnchorInit, QueueTypes
  <2>2. MainTypes /\ FlushTypes /\ PaceTypes
    BY Limits DEF AnchorInit, MainTypes, FlushTypes, PaceTypes
  <2>3. StoreTypes
    BY AnchorAssumption DEF AnchorInit, StoreTypes
  <2> QED BY <2>1, <2>2, <2>3, TypesSplit
<1> QED BY <1>1 DEF AnchorInit, AInv, DeadLetterIsEarned, ProcessedIsAccounted, AnnouncedIsRooted,
               MainKnows, StageKnows, Carried, WorkIsLeft, Flushing

\* The steps that touch neither batch, stores nor flush.
LEMMA LoopSteps ==
  ASSUME AInv, Fetch \/ Pause \/ PauseElapses \/ Consume \/ UNCHANGED anchorVars
  PROVE  AInv'
<1>1. UNCHANGED <<groupOffset, drained, parsed, pending, mainSent, added, batch, flushVars, anchorStoreVars>>
  BY DEF Fetch, Pause, PauseElapses, Consume, anchorVars, queueVars, mainVars
<1>2. AnchorTypeOK'
  <2>1. fetched' \in 0..LogLength /\ drained \in 0..fetched'
    BY AnchorAssumption DEF AInv, AnchorTypeOK, Fetch, Pause, PauseElapses, Consume, anchorVars, queueVars
  <2>2. QueueTypes'
    BY <1>1, <2>1, TypesSplit DEF AInv, QueueTypes, flushVars
  <2>3. MainTypes'
    BY <1>1, TypesSplit
    DEF AInv, MainTypes, Fetch, Pause, PauseElapses, Consume, anchorVars, mainVars
  <2>5. PaceTypes'
    <3>1. UNCHANGED paceVars \/ (paused' = FALSE /\ flushFailures' = 0)
      BY DEF Fetch, Pause, PauseElapses, Consume, anchorVars
    <3> QED BY <3>1, TypesSplit, Limits DEF AInv, PaceTypes, paceVars
  <2>4. FlushTypes' /\ StoreTypes'
    BY <1>1, TypesSplit DEF AInv, FlushTypes, StoreTypes, flushVars, anchorStoreVars
  <2> QED BY <2>2, <2>3, <2>4, <2>5, TypesSplitNext
<1>3. DeadLetterIsEarned' /\ ProcessedIsAccounted' /\ AnnouncedIsRooted'
  BY <1>1, EarnedKept, AccountsKept DEF AInv, anchorStoreVars, AnnouncedIsRooted
<1>4. MainKnows'
  BY <1>1 DEF AInv, MainKnows, Fetch, Pause, PauseElapses, Consume, anchorVars, mainVars
<1>5. StageKnows'
  BY <1>1, FlushKept DEF AInv, anchorStoreVars
<1> QED BY <1>2, <1>3, <1>4, <1>5 DEF AInv

\* What both the drain and the way past a malformed message do.
LEMMA PushKeeps ==
  ASSUME AInv, NEW first \in Nat \ {0}, NEW last \in Nat, parsed < first, first <= last + 1,
         drained' = last, drained <= last, last <= fetched, NEW wasAdded \in BOOLEAN,
         PushFrom(first, last, wasAdded), pending' \in 0..last, deadLetters' \subseteq deadLetters \cup Malformed,
         deadLetters \subseteq deadLetters',
         UNCHANGED <<groupOffset, fetched, paceVars, processed, failures, ledger, rooted, announced>>
  PROVE  AInv'
<1>0. AnchorTypeOK /\ MainKnows /\ StageKnows /\ last <= LogLength
  BY AnchorAssumption DEF AInv, AnchorTypeOK
<1>1. /\ parsed' \in Nat /\ parsed <= parsed' /\ first <= parsed' + 1 /\ parsed' <= last
      /\ batch' = batch \cup first..parsed'
      /\ batch' \subseteq 1..parsed' /\ batch' \subseteq WellFormed
      /\ main' = "parse" => parsed' < last /\ parsed' + 1 \in Malformed
      /\ added' \in BOOLEAN /\ mainSent' = mainSent
      /\ \/ UNCHANGED flushVars /\ main' \in {"parse", "loop"}
         \/ main' = "flush" /\ StartFlush("main") /\ ~ Flushing /\ batch' # {}
  <2> HIDE DEF AInv
  <2> QED BY <1>0, PushIsWellFormed
<1>2. AnchorTypeOK'
  <2>1. flushSent' \in 0..drained'
    BY <1>0, <1>1 DEF AnchorTypeOK, StartFlush, flushVars
  <2>2. QueueTypes'
    <3>1. drained' \in 0..fetched /\ parsed' \in 0..drained' /\ mainSent \in 0..drained'
      BY <1>0, <1>1 DEF AnchorTypeOK
    <3> QED BY <1>0, <1>1, <2>1, <3>1 DEF AnchorTypeOK, QueueTypes
  <2>3. FlushTypes'
    <3>1. CASE UNCHANGED flushVars
      BY <1>0, <3>1, TypesSplit DEF FlushTypes, flushVars
    <3>2. CASE StartFlush("main")
      BY <3>2, AnchorAssumption DEF FlushTypes, StartFlush
    <3> QED BY <1>1, <3>1, <3>2
  <2>4. MainTypes' /\ PaceTypes'
    BY <1>0, <1>1, TypesSplit DEF MainTypes, PaceTypes, paceVars
  <2>5. StoreTypes'
    BY <1>0, TypesSplit, AnchorAssumption DEF StoreTypes
  <2> QED BY <2>2, <2>3, <2>4, <2>5, TypesSplitNext
<1>3. DeadLetterIsEarned' /\ ProcessedIsAccounted' /\ AnnouncedIsRooted'
  BY EarnedKept, AccountsKept DEF AInv, AnnouncedIsRooted
<1>4. MainKnows'
  BY <1>1 DEF MainKnows
<1>5. StageKnows'
  <2>1. CASE UNCHANGED flushVars
    BY <1>0, <1>1, <2>1, FlushKept
  <2>2. CASE StartFlush("main") /\ batch' # {}
    BY <1>1, <2>2, FlushStarts
  <2> QED BY <1>1, <2>1, <2>2
<1> QED BY <1>2, <1>3, <1>4, <1>5 DEF AInv

LEMMA DrainStep == ASSUME AInv, Drain PROVE AInv'
<1>1. /\ drained \in Nat /\ parsed \in Nat /\ fetched \in Nat /\ parsed <= drained /\ drained <= fetched
      /\ drained + 1 \in Nat \ {0} /\ parsed < drained + 1 /\ drained + 1 <= fetched + 1
  BY AnchorAssumption DEF AInv, AnchorTypeOK
<1>2. drained' = fetched /\ pending' \in 0..fetched
  BY <1>1 DEF Drain, LastOffset
<1>3. PICK wasAdded \in BOOLEAN : PushFrom(drained + 1, fetched, wasAdded)
  BY Zenon DEF Drain
<1>4. UNCHANGED <<groupOffset, fetched, paceVars, processed, failures, ledger, rooted, announced,
                  deadLetters>>
  BY DEF Drain, anchorStoreVars
<1> QED BY <1>1, <1>2, <1>3, <1>4, PushKeeps

LEMMA MalformedSteps == ASSUME AInv, ParseMalformed \/ CommitMalformed \/ MainThrows PROVE AInv'
<1>0. /\ drained \in Nat /\ parsed \in Nat /\ fetched \in Nat /\ parsed <= drained /\ drained <= fetched
      /\ AnchorTypeOK /\ StageKnows /\ pending \in 0..drained /\ mainSent \in 0..drained
  BY AnchorAssumption DEF AInv, AnchorTypeOK
<1>1. CASE main = "parse"
  <2>1. parsed < drained /\ parsed + 1 \in Malformed /\ parsed + 1 \in AnchorMsgs
    BY <1>0, <1>1, AnchorAssumption DEF AInv, MainKnows
  <2>2. CASE ParseMalformed /\ PushFrom(parsed + 2, drained, added)
    <3>1. added \in BOOLEAN /\ drained' = drained /\ parsed + 2 \in Nat \ {0}
      BY <1>0, <2>2 DEF AnchorTypeOK, ParseMalformed
    <3> QED BY <1>0, <2>1, <2>2, <3>1, PushKeeps DEF ParseMalformed
  <2>3. CASE \/ /\ ParseMalformed /\ parsed' = drained /\ main' = "commit" /\ mainSent' = pending
                /\ UNCHANGED <<batch, added, flushVars>>
             \/ MainThrows
    <3>1. /\ UNCHANGED <<groupOffset, fetched, drained, pending, batch, added, flushVars, paceVars,
                         processed, failures, ledger, rooted, announced>>
          /\ parsed' \in {parsed, drained} /\ mainSent' \in {mainSent, pending}
          /\ main' \in {"commit", "dead"} /\ deadLetters' \subseteq deadLetters \cup {parsed + 1} /\ deadLetters \subseteq deadLetters'
      BY <1>1, <2>3 DEF ParseMalformed, MainThrows, queueVars
    <3>2. QueueTypes' /\ MainTypes'
      BY <1>0, <3>1, TypesSplit DEF QueueTypes, MainTypes, flushVars
    <3>3. FlushTypes' /\ PaceTypes' /\ StoreTypes'
      BY <1>0, <2>1, <3>1, TypesSplit DEF FlushTypes, PaceTypes, StoreTypes, flushVars, paceVars
    <3>4. DeadLetterIsEarned' /\ ProcessedIsAccounted' /\ AnnouncedIsRooted'
      BY <2>1, <3>1, EarnedKept, AccountsKept DEF AInv, AnnouncedIsRooted
    <3>5. MainKnows' /\ StageKnows'
      BY <1>0, <3>1, FlushKept DEF AInv, MainKnows
    <3> QED BY <3>2, <3>3, <3>4, <3>5, TypesSplitNext DEF AInv
  <2> QED BY <1>1, <2>2, <2>3 DEF ParseMalformed, CommitMalformed
<1>2. CASE main = "commit" /\ MainThrows
  <2>1. /\ UNCHANGED <<fetched, drained, parsed, pending, batch, mainSent, added, flushVars, paceVars,
                       anchorStoreVars>>
        /\ main' = "dead" /\ groupOffset' \in {groupOffset, Sent(mainSent)}
    BY <1>2 DEF MainThrows, queueVars, anchorStoreVars
  <2>2. QueueTypes' /\ MainTypes'
    BY <1>0, <2>1, TypesSplit, SentTypes DEF QueueTypes, MainTypes, flushVars
  <2>3. FlushTypes' /\ PaceTypes' /\ StoreTypes'
    BY <1>0, <2>1, TypesSplit DEF FlushTypes, PaceTypes, StoreTypes, flushVars, paceVars, anchorStoreVars
  <2>4. DeadLetterIsEarned' /\ ProcessedIsAccounted' /\ AnnouncedIsRooted'
    BY <2>1, EarnedKept, AccountsKept DEF AInv, AnnouncedIsRooted, anchorStoreVars
  <2>5. MainKnows' /\ StageKnows'
    BY <1>0, <2>1, FlushKept DEF AInv, MainKnows, anchorStoreVars
  <2> QED BY <2>2, <2>3, <2>4, <2>5, TypesSplitNext DEF AInv
<1>3. CASE CommitMalformed
  <2>1. /\ UNCHANGED <<fetched, drained, parsed, batch, added, paceVars, anchorStoreVars>>
        /\ mainSent' = 0 /\ CommitReturns(mainSent) /\ SizeCheck
    BY <1>3 DEF CommitMalformed
  <2>2. \/ UNCHANGED flushVars /\ main' = "loop"
        \/ /\ main' = "flush" /\ StartFlush("main") /\ batch' # {}
    BY <2>1, AnchorAssumption, FS_EmptySet DEF SizeCheck
  <2>3. QueueTypes' /\ MainTypes'
    <3>1. groupOffset' \in 1..LogLength + 1 /\ pending' \in 0..drained
      BY <1>0, <2>1, SentTypes DEF CommitReturns
    <3> QED BY <1>0, <2>1, <2>2, <3>1, TypesSplit DEF QueueTypes, MainTypes, StartFlush, flushVars
  <2>4. FlushTypes' /\ PaceTypes' /\ StoreTypes'
    BY <1>0, <2>1, <2>2, TypesSplit, AnchorAssumption
    DEF FlushTypes, PaceTypes, StoreTypes, StartFlush, flushVars, paceVars, anchorStoreVars
  <2>5. DeadLetterIsEarned' /\ ProcessedIsAccounted' /\ AnnouncedIsRooted'
    BY <2>1, EarnedKept, AccountsKept DEF AInv, AnnouncedIsRooted, anchorStoreVars
  <2>6. MainKnows'
    BY <2>1, <2>2 DEF AInv, MainKnows
  <2>7. StageKnows'
    <3>1. CASE UNCHANGED flushVars
      BY <1>0, <2>1, <3>1, FlushKept DEF anchorStoreVars
    <3>2. CASE StartFlush("main") /\ batch' # {}
      BY <1>0, <2>1, <3>2, FlushStarts DEF AnchorTypeOK
    <3> QED BY <2>2, <3>1, <3>2
  <2> QED BY <2>3, <2>4, <2>5, <2>6, <2>7, TypesSplitNext DEF AInv
<1> QED BY <1>1, <1>2, <1>3 DEF ParseMalformed, MainThrows

LEMMA TimerStep == ASSUME AInv, TimerFlush PROVE AInv'
<1>1. /\ UNCHANGED <<groupOffset, queueVars, batch, mainVars, paceVars, anchorStoreVars>>
      /\ StartFlush("timer") /\ batch' # {}
  BY DEF TimerFlush
<1>2. AnchorTypeOK'
  BY <1>1, AnchorAssumption
  DEF AInv, AnchorTypeOK, StartFlush, queueVars, mainVars, paceVars, anchorStoreVars
<1>3. DeadLetterIsEarned' /\ ProcessedIsAccounted' /\ AnnouncedIsRooted'
  BY <1>1, EarnedKept, AccountsKept DEF AInv, AnnouncedIsRooted, anchorStoreVars
<1>4. MainKnows'
  BY <1>1 DEF AInv, MainKnows, queueVars, mainVars
<1>5. StageKnows'
  BY <1>1, FlushStarts DEF AInv, AnchorTypeOK, queueVars
<1> QED BY <1>2, <1>3, <1>4, <1>5 DEF AInv

LEMMA CrashStep == ASSUME AInv, AnchorCrash PROVE AInv'
<1>1. AnchorTypeOK'
  <2>1. groupOffset - 1 \in 0..LogLength /\ groupOffset' = groupOffset /\ groupOffset \in 1..LogLength + 1
    BY AnchorAssumption DEF AInv, AnchorTypeOK, AnchorCrash
  <2>2. QueueTypes'
    BY <2>1 DEF QueueTypes, AnchorCrash
  <2>3. MainTypes' /\ FlushTypes' /\ PaceTypes'
    BY Limits DEF AnchorCrash, MainTypes, FlushTypes, PaceTypes
  <2>4. StoreTypes'
    BY TypesSplit DEF AInv, StoreTypes, AnchorCrash, anchorStoreVars
  <2> QED BY <2>2, <2>3, <2>4, TypesSplitNext
<1>2. UNCHANGED anchorStoreVars
  BY DEF AnchorCrash
<1>3. DeadLetterIsEarned' /\ ProcessedIsAccounted' /\ AnnouncedIsRooted'
  BY <1>2, EarnedKept, AccountsKept DEF AInv, AnnouncedIsRooted, anchorStoreVars
<1>4. MainKnows' /\ StageKnows'
  BY DEF AnchorCrash, MainKnows, StageKnows, Carried, WorkIsLeft, Flushing
<1> QED BY <1>1, <1>3, <1>4 DEF AInv

-----------------------------------------------------------------------------
(* The steps of a flush.                                                   *)

\* A flush step leaves the queue, the main loop and the batch alone.
LEMMA FlushFrame ==
  ASSUME AInv, UNCHANGED <<queueVars, batch, mainVars>>, groupOffset' \in 1..LogLength + 1,
         flushSent' \in 0..drained, FlushTypes', PaceTypes', StoreTypes'
  PROVE  AnchorTypeOK' /\ MainKnows'
<1>1. QueueTypes' /\ MainTypes'
  BY TypesSplit DEF AInv, QueueTypes, MainTypes, queueVars, mainVars
<1>2. MainKnows'
  BY DEF AInv, MainKnows, queueVars, mainVars
<1> QED BY <1>1, <1>2, TypesSplitNext

\* A loop over the batch has a next message when it starts and when it goes on.
LEMMA LoopStarts ==
  ASSUME AInv, batch # {}, UNCHANGED batch, at' = 0 PROVE Ahead' # {}
<1>1. \A p \in batch : p > 0
  BY KeysOfMsgs DEF AInv, MainKnows, WellFormed
<1> QED BY <1>1 DEF Ahead

LEMMA LoopGoesOn ==
  ASSUME AInv, Ahead # {}, Ahead # {Min(Ahead)}, UNCHANGED batch, at' = Min(Ahead)
  PROVE  Ahead' # {} /\ at' \in 0..LogLength
<1>1. /\ Min(Ahead) \in Ahead /\ Min(Ahead) \in AnchorMsgs /\ Min(Ahead) > at
      /\ \A p \in batch : p > at => Min(Ahead) <= p
  BY NextOfBatch DEF AInv, Ahead
<1>2. PICK q \in Ahead : q # Min(Ahead)
  BY <1>1
<1>3. q \in batch /\ q \in Nat /\ Min(Ahead) \in Nat /\ Min(Ahead) <= LogLength /\ Min(Ahead) <= q
  BY <1>1, <1>2, KeysOfMsgs DEF AInv, MainKnows, WellFormed, Ahead
<1>4. q > Min(Ahead)
  BY <1>2, <1>3
<1>5. q \in Ahead'
  BY <1>3, <1>4 DEF Ahead
<1> QED BY <1>3, <1>5, Limits

\* The stage goes on with what is left to do, or is done.
LEMMA HandledIs ==
  ASSUME AInv, NEW p \in todo, NEW next, NEW work, ItemHandled(p, next, work), UNCHANGED queueVars
  PROVE  /\ unique' = unique /\ flushOwner' = flushOwner /\ flushSent' \in 0..drained /\ at' \in 0..LogLength
         /\ \/ todo' = todo \ {p} /\ todo' # {} /\ stage' = stage
            \/ todo = {p} /\ todo' = work /\ stage' = next
<1>1. CASE todo # {p}
  BY <1>1 DEF ItemHandled, AInv, AnchorTypeOK
<1>2. CASE todo = {p}
  BY <1>2, EnterTypes DEF ItemHandled, AInv, queueVars
<1> QED BY <1>1, <1>2

\* The catch block is entered: what was collected is forgotten, the batch stays.
LEMMA FailKeeps ==
  ASSUME AInv, Flushing, Fail, UNCHANGED <<queueVars, batch>>, paused' \in BOOLEAN
  PROVE  StageKnows' /\ FlushTypes' /\ PaceTypes' /\ flushSent' \in 0..drained
<1>1. /\ stage' = "record" /\ at' = 0 /\ at' \in 0..LogLength /\ todo' = {} /\ unique' = {}
      /\ flushOwner' = flushOwner /\ flushSent' \in 0..drained
  BY EnterTypes DEF AInv, Fail, queueVars
<1>2. batch # {} /\ Ahead' # {}
  BY <1>1, LoopStarts DEF AInv, StageKnows, WorkIsLeft
<1>3. StageKnows'
  BY <1>1, <1>2 DEF StageKnows, Carried, WorkIsLeft
<1>4. FlushTypes'
  BY <1>1, TypesSplit DEF AInv, FlushTypes
<1>5. PaceTypes'
  BY Limits, TypesSplit DEF AInv, PaceTypes, Fail
<1> QED BY <1>1, <1>3, <1>4, <1>5

LEMMA ScanStep == ASSUME AInv, Scan PROVE AInv'
<1> DEFINE p == Min(Ahead)
<1>0. /\ UNCHANGED <<groupOffset, queueVars, batch, mainVars, flushOwner, paceVars, anchorStoreVars>>
      /\ stage = "scan" /\ Flushing /\ batch # {} /\ Ahead # {}
  BY DEF Scan, AInv, StageKnows, WorkIsLeft, Flushing
<1>1. p \in WellFormed /\ p \in AnchorMsgs
  BY <1>0, NextOfBatch DEF AInv
<1>2. /\ unique' \in {unique, unique \cup {p}}
      /\ p \in unique' => KeyOf[p] \notin processed \/ p \in unique
      /\ \/ Ahead # {p} /\ at' = p /\ UNCHANGED <<stage, todo, flushSent>>
         \/ Enter("commit", {})
         \/ unique' # {} /\ Enter("apply", unique')
  BY DEF Scan
<1> HIDE DEF p
<1>3. /\ unique' \subseteq WellFormed /\ unique' \subseteq AnchorMsgs /\ unique \subseteq unique'
      /\ \A q \in unique' : KeyOf[q] \notin processed'
  BY <1>0, <1>1, <1>2 DEF AInv, AnchorTypeOK, StageKnows, anchorStoreVars
<1>4. ASSUME Ahead # {p} /\ at' = p /\ UNCHANGED <<stage, todo, flushSent>>
      PROVE  StageKnows' /\ FlushTypes' /\ flushSent' \in 0..drained
  <2>1. Ahead' # {} /\ at' \in 0..LogLength
    BY <1>0, <1>4, LoopGoesOn DEF p
  <2>2. FlushTypes' /\ flushSent' \in 0..drained
    BY <1>0, <1>3, <1>4, <2>1, TypesSplit DEF AInv, FlushTypes, QueueTypes
  <2>3. StageKnows'
    BY <1>0, <1>3, <1>4, <2>1 DEF StageKnows, Carried, WorkIsLeft
  <2> QED BY <2>2, <2>3
<1>5. ASSUME Enter("commit", {}) \/ (unique' # {} /\ Enter("apply", unique'))
      PROVE  StageKnows' /\ FlushTypes' /\ flushSent' \in 0..drained
  <2>1. /\ at' \in 0..LogLength /\ flushSent' \in 0..drained
        /\ \/ stage' = "commit" /\ todo' = {}
           \/ stage' = "apply" /\ todo' = unique' /\ unique' # {}
    BY <1>0, <1>5, EnterTypes DEF AInv, queueVars
  <2>2. FlushTypes'
    BY <1>0, <1>3, <2>1, TypesSplit DEF AInv, FlushTypes
  <2>3. StageKnows'
    BY <1>0, <1>3, <2>1 DEF StageKnows, Carried, WorkIsLeft
  <2> QED BY <2>1, <2>2, <2>3
<1>6. StageKnows' /\ FlushTypes' /\ flushSent' \in 0..drained
  BY <1>2, <1>4, <1>5
<1>7. PaceTypes' /\ StoreTypes' /\ groupOffset' \in 1..LogLength + 1
  BY <1>0, TypesSplit DEF AInv, PaceTypes, StoreTypes, QueueTypes, paceVars, anchorStoreVars
<1>8. DeadLetterIsEarned' /\ ProcessedIsAccounted' /\ AnnouncedIsRooted'
  BY <1>0, EarnedKept, AccountsKept DEF AInv, AnnouncedIsRooted, anchorStoreVars
<1> QED BY <1>0, <1>6, <1>7, <1>8, FlushFrame DEF AInv

LEMMA ApplyStep == ASSUME AInv, Apply PROVE AInv'
<1> DEFINE p == NextApply
<1>0. /\ UNCHANGED <<groupOffset, queueVars, batch, mainVars, paceVars, processed, failures,
                     rooted, announced, deadLetters>>
      /\ stage = "apply" /\ batch # {} /\ todo # {} /\ unique \ todo \subseteq ledger
      /\ unique \subseteq WellFormed /\ unique \subseteq AnchorMsgs /\ todo \subseteq unique
      /\ \A q \in unique : KeyOf[q] \notin processed
  BY DEF Apply, AInv, AnchorTypeOK, StageKnows, Carried, WorkIsLeft, Flushing
<1>1. p \in todo /\ p \in AnchorMsgs
  BY <1>0, NextOfTodo DEF AInv
<1>2. /\ ledger' = ledger \cup {p}
      /\ \/ unique \cap Submitted # {} /\ ItemHandled(p, "root", {})
         \/ unique \cap Submitted = {} /\ ItemHandled(p, "mark", unique)
  BY DEF Apply
<1> HIDE DEF p
<1>3. /\ unique' = unique /\ flushOwner' = flushOwner /\ flushSent' \in 0..drained /\ at' \in 0..LogLength
      /\ \/ todo' = todo \ {p} /\ todo' # {} /\ stage' = stage
         \/ todo = {p} /\ todo' = {} /\ stage' = "root" /\ unique \cap Submitted # {}
         \/ todo = {p} /\ todo' = unique /\ stage' = "mark" /\ unique \cap Submitted = {}
  BY <1>0, <1>1, <1>2, HandledIs
<1>4. FlushTypes'
  BY <1>0, <1>3, TypesSplit DEF AInv, FlushTypes
<1>5. StageKnows'
  <2>1. Carried'
    BY <1>0, <1>1, <1>2, <1>3 DEF Carried
  <2>2. WorkIsLeft'
    BY <1>0, <1>1, <1>3 DEF WorkIsLeft
  <2> QED BY <1>0, <1>3, <2>1, <2>2 DEF StageKnows
<1>6. PaceTypes' /\ StoreTypes' /\ groupOffset' \in 1..LogLength + 1
  BY <1>0, <1>1, <1>2, TypesSplit DEF AInv, PaceTypes, StoreTypes, QueueTypes, paceVars
<1>7. DeadLetterIsEarned' /\ ProcessedIsAccounted' /\ AnnouncedIsRooted'
  BY <1>0, <1>2, EarnedKept, AccountsKept DEF AInv, AnnouncedIsRooted
<1> QED BY <1>0, <1>3, <1>4, <1>5, <1>6, <1>7, FlushFrame DEF AInv

LEMMA SubmitRootStep == ASSUME AInv, SubmitRoot PROVE AInv'
<1>0. /\ UNCHANGED <<groupOffset, queueVars, batch, mainVars, paceVars, processed, failures,
                     ledger, announced, deadLetters, flushOwner, unique>>
      /\ stage = "root" /\ batch # {} /\ unique \subseteq ledger /\ unique \cap Submitted # {}
      /\ unique \subseteq WellFormed /\ unique \subseteq AnchorMsgs
      /\ \A q \in unique : KeyOf[q] \notin processed
      /\ rooted' = rooted \cup (unique \cap Submitted)
  BY DEF SubmitRoot, AInv, AnchorTypeOK, StageKnows, Carried, WorkIsLeft, Flushing
<1>1. /\ stage' = "proofs" /\ at' \in 0..LogLength /\ todo' = unique \cap Submitted
      /\ flushSent' \in 0..drained
  BY <1>0, EnterTypes DEF SubmitRoot, AInv, queueVars
<1>2. FlushTypes'
  BY <1>0, <1>1, TypesSplit DEF AInv, FlushTypes
<1>3. StageKnows'
  BY <1>0, <1>1 DEF StageKnows, Carried, WorkIsLeft
<1>4. PaceTypes' /\ StoreTypes' /\ groupOffset' \in 1..LogLength + 1
  BY <1>0, TypesSplit DEF AInv, PaceTypes, StoreTypes, QueueTypes, paceVars
<1>5. DeadLetterIsEarned' /\ ProcessedIsAccounted' /\ AnnouncedIsRooted'
  BY <1>0, EarnedKept, AccountsKept DEF AInv, AnnouncedIsRooted
<1> QED BY <1>0, <1>1, <1>2, <1>3, <1>4, <1>5, FlushFrame DEF AInv

LEMMA WriteProofStep == ASSUME AInv, WriteProof PROVE AInv'
<1> DEFINE p == Min(todo)
<1>0. /\ UNCHANGED <<groupOffset, queueVars, batch, mainVars, paceVars, processed, failures,
                     ledger, rooted, deadLetters>>
      /\ stage = "proofs" /\ batch # {} /\ todo # {} /\ unique \subseteq ledger
      /\ unique \subseteq WellFormed /\ unique \subseteq AnchorMsgs /\ todo \subseteq unique
      /\ todo \subseteq Submitted /\ unique \cap Submitted \subseteq rooted
      /\ (unique \cap Submitted) \ todo \subseteq announced
      /\ \A q \in unique : KeyOf[q] \notin processed
  BY DEF WriteProof, AInv, AnchorTypeOK, StageKnows, Carried, WorkIsLeft, Flushing
<1>1. p \in todo /\ p \in AnchorMsgs
  BY <1>0, NextOfTodo DEF AInv
<1>2. announced' = announced \cup {p} /\ ItemHandled(p, "mark", unique)
  BY DEF WriteProof
<1> HIDE DEF p
<1>3. /\ unique' = unique /\ flushOwner' = flushOwner /\ flushSent' \in 0..drained /\ at' \in 0..LogLength
      /\ \/ todo' = todo \ {p} /\ todo' # {} /\ stage' = stage
         \/ todo = {p} /\ todo' = unique /\ stage' = "mark"
  BY <1>0, <1>1, <1>2, HandledIs
<1>4. FlushTypes'
  BY <1>0, <1>3, TypesSplit DEF AInv, FlushTypes
<1>5. StageKnows'
  <2>1. Carried'
    BY <1>0, <1>1, <1>2, <1>3 DEF Carried
  <2>2. WorkIsLeft'
    BY <1>0, <1>1, <1>3 DEF WorkIsLeft
  <2> QED BY <1>0, <1>3, <2>1, <2>2 DEF StageKnows
<1>6. PaceTypes' /\ StoreTypes' /\ groupOffset' \in 1..LogLength + 1
  BY <1>0, <1>1, <1>2, TypesSplit DEF AInv, PaceTypes, StoreTypes, QueueTypes, paceVars
<1>7. DeadLetterIsEarned' /\ ProcessedIsAccounted'
  BY <1>0, <1>2, EarnedKept, AccountsKept DEF AInv
<1>8. AnnouncedIsRooted'
  BY <1>0, <1>1, <1>2 DEF AInv, AnnouncedIsRooted
<1> QED BY <1>0, <1>3, <1>4, <1>5, <1>6, <1>7, <1>8, FlushFrame DEF AInv

LEMMA MarkStep == ASSUME AInv, MarkProcessed PROVE AInv'
<1> DEFINE p == Min(todo)
<1>0. /\ UNCHANGED <<groupOffset, queueVars, batch, mainVars, paceVars, failures,
                     ledger, rooted, announced, deadLetters>>
      /\ stage = "mark" /\ batch # {} /\ todo # {} /\ unique \subseteq ledger
      /\ unique \subseteq WellFormed /\ unique \subseteq AnchorMsgs /\ todo \subseteq unique
      /\ unique \cap Submitted \subseteq announced
  BY DEF MarkProcessed, AInv, AnchorTypeOK, StageKnows, Carried, WorkIsLeft, Flushing
<1>1. p \in todo /\ p \in AnchorMsgs /\ KeyOf[p] \in Keys
  BY <1>0, NextOfTodo, KeysOfMsgs DEF AInv
<1>2. processed' = processed \cup {KeyOf[p]} /\ ItemHandled(p, "commit", {})
  BY DEF MarkProcessed
<1> HIDE DEF p
<1>3. /\ unique' = unique /\ flushOwner' = flushOwner /\ flushSent' \in 0..drained /\ at' \in 0..LogLength
      /\ \/ todo' = todo \ {p} /\ todo' # {} /\ stage' = stage
         \/ todo = {p} /\ todo' = {} /\ stage' = "commit"
  BY <1>0, <1>1, <1>2, HandledIs
<1>4. FlushTypes'
  BY <1>0, <1>3, TypesSplit DEF AInv, FlushTypes
<1>5. StageKnows'
  BY <1>0, <1>3 DEF StageKnows, Carried, WorkIsLeft
<1>6. PaceTypes' /\ StoreTypes' /\ groupOffset' \in 1..LogLength + 1
  BY <1>0, <1>1, <1>2, TypesSplit DEF AInv, PaceTypes, StoreTypes, QueueTypes, paceVars
<1>7. DeadLetterIsEarned' /\ AnnouncedIsRooted'
  BY <1>0, EarnedKept DEF AInv, AnnouncedIsRooted
<1>8. ProcessedIsAccounted'
  BY <1>0, <1>1, <1>2, AccountsGrow DEF AInv
<1> QED BY <1>0, <1>3, <1>4, <1>5, <1>6, <1>7, <1>8, FlushFrame DEF AInv

\* commit() returns: the flush is over, the array is emptied.
LEMMA CommitSteps == ASSUME AInv, Commit \/ CommitDlq PROVE AInv'
<1>0. /\ UNCHANGED <<fetched, drained, parsed, mainSent, added, flushOwner, anchorStoreVars>>
      /\ batch' = {} /\ CommitReturns(flushSent) /\ EndFlush("loop")
      /\ UNCHANGED paceVars \/ (paused' = FALSE /\ flushFailures' = 0)
         \/ (paused' \in BOOLEAN /\ UNCHANGED flushFailures)
  BY DEF Commit, CommitDlq, EndFlush, PauseCheck
<1>1. groupOffset' \in 1..LogLength + 1 /\ pending' \in 0..drained
  BY <1>0, SentTypes DEF AInv, AnchorTypeOK, CommitReturns
<1>2. QueueTypes' /\ MainTypes' /\ FlushTypes'
  <2>1. 0 \in 0..drained /\ 0 \in 0..LogLength
    BY Limits, TypesSplit DEF AInv, QueueTypes
  <2>2. main' \in {main, "loop"} /\ stage' = "off" /\ at' = 0 /\ unique' = {} /\ todo' = {} /\ flushSent' = 0
    BY <1>0 DEF EndFlush
  <2>3. QueueTypes'
    BY <1>0, <1>1, <2>1, <2>2, TypesSplit DEF AInv, QueueTypes
  <2>4. MainTypes'
    BY <1>0, <2>2, TypesSplit DEF AInv, MainTypes
  <2>5. FlushTypes'
    BY <1>0, <2>1, <2>2, TypesSplit DEF AInv, FlushTypes
  <2> QED BY <2>3, <2>4, <2>5
<1>3. PaceTypes' /\ StoreTypes'
  BY <1>0, Limits, TypesSplit DEF AInv, PaceTypes, StoreTypes, paceVars, anchorStoreVars
<1>4. DeadLetterIsEarned' /\ ProcessedIsAccounted' /\ AnnouncedIsRooted'
  BY <1>0, EarnedKept, AccountsKept DEF AInv, AnnouncedIsRooted, anchorStoreVars
<1>5. MainKnows' /\ StageKnows'
  BY <1>0, FlushEnds DEF AInv, MainKnows, EndFlush
<1> QED BY <1>2, <1>3, <1>4, <1>5, TypesSplitNext DEF AInv

LEMMA FabricErrorStep == ASSUME AInv, FabricError PROVE AInv'
<1>0. /\ UNCHANGED <<groupOffset, queueVars, batch, mainVars, processed, failures, announced, deadLetters>>
      /\ Fail /\ paused' \in {paused, TRUE} /\ paused' \in BOOLEAN /\ Flushing
  BY DEF FabricError, AInv, AnchorTypeOK, Flushing
<1>1. /\ rooted \subseteq rooted' /\ ledger \subseteq ledger' /\ ledger' \subseteq AnchorMsgs
      /\ rooted' \subseteq ledger' /\ rooted' \subseteq AnchorMsgs
  <2>1. CASE stage = "apply"
    <3>1. NextApply \in AnchorMsgs
      BY <2>1, NextOfTodo DEF AInv, StageKnows, WorkIsLeft
    <3>2. ledger' \subseteq ledger \cup {NextApply} /\ ledger \subseteq ledger' /\ UNCHANGED rooted
      BY <2>1 DEF FabricError
    <3> QED BY <3>1, <3>2 DEF AInv, AnchorTypeOK, AnnouncedIsRooted
  <2>2. CASE stage = "root"
    <3>1. unique \subseteq ledger /\ unique \subseteq AnchorMsgs
      BY <2>2 DEF AInv, AnchorTypeOK, StageKnows, Carried
    <3>2. rooted' \subseteq rooted \cup (unique \cap Submitted) /\ rooted \subseteq rooted' /\ UNCHANGED ledger
      BY <2>2 DEF FabricError
    <3> QED BY <3>1, <3>2 DEF AInv, AnchorTypeOK, AnnouncedIsRooted
  <2> QED BY <2>1, <2>2 DEF FabricError
<1>2. StageKnows' /\ FlushTypes' /\ PaceTypes' /\ flushSent' \in 0..drained
  BY <1>0, FailKeeps
<1>3. StoreTypes' /\ groupOffset' \in 1..LogLength + 1
  BY <1>0, <1>1, TypesSplit DEF AInv, StoreTypes, QueueTypes
<1>4. DeadLetterIsEarned' /\ ProcessedIsAccounted' /\ AnnouncedIsRooted'
  BY <1>0, <1>1, EarnedKept, AccountsKept DEF AInv, AnnouncedIsRooted
<1> QED BY <1>0, <1>2, <1>3, <1>4, FlushFrame DEF AInv

LEMMA StoreErrorStep == ASSUME AInv, StoreError PROVE AInv'
<1>0. /\ UNCHANGED <<queueVars, batch, mainVars, failures, ledger, rooted, deadLetters>>
      /\ Fail /\ UNCHANGED paused /\ paused' \in BOOLEAN /\ Flushing
      /\ announced \subseteq announced'
  BY DEF StoreError, AInv, AnchorTypeOK, Flushing
<1>1. StageKnows' /\ FlushTypes' /\ PaceTypes' /\ flushSent' \in 0..drained
  BY <1>0, FailKeeps
<1>2. announced' \subseteq rooted /\ announced' \subseteq AnchorMsgs
  <2>1. CASE stage = "proofs"
    <3>1. Min(todo) \in rooted /\ Min(todo) \in AnchorMsgs
      BY <2>1, NextOfTodo DEF AInv, StageKnows, Carried, WorkIsLeft
    <3>2. announced' \subseteq announced \cup {Min(todo)}
      BY <2>1 DEF StoreError
    <3> QED BY <3>1, <3>2 DEF AInv, AnchorTypeOK, AnnouncedIsRooted
  <2>2. CASE stage # "proofs"
    <3>1. UNCHANGED announced
      BY <2>2 DEF StoreError
    <3> QED BY <3>1 DEF AInv, AnchorTypeOK, AnnouncedIsRooted
  <2> QED BY <2>1, <2>2
<1>3. ProcessedIsAccounted' /\ processed' \subseteq Keys
  <2>1. CASE stage = "mark"
    <3>1. Min(todo) \in unique /\ Min(todo) \in WellFormed /\ KeyOf[Min(todo)] \in Keys
      BY <2>1, NextOfTodo, KeysOfMsgs DEF AInv, StageKnows, WorkIsLeft
    <3>2. unique \subseteq ledger /\ unique \cap Submitted \subseteq announced
      BY <2>1 DEF AInv, StageKnows, Carried
    <3>3. processed' \subseteq processed \cup {KeyOf[Min(todo)]}
      BY <2>1 DEF StoreError
    <3>4. processed' \subseteq Keys
      BY <3>1, <3>3 DEF AInv, AnchorTypeOK
    <3> QED BY <1>0, <3>1, <3>2, <3>3, <3>4, AccountsGrow DEF AInv
  <2>2. CASE stage # "mark"
    <3>1. UNCHANGED processed
      BY <2>2 DEF StoreError
    <3> QED BY <1>0, <3>1, AccountsKept DEF AInv, AnchorTypeOK
  <2> QED BY <2>1, <2>2
<1>4. groupOffset' \in 1..LogLength + 1
  <2>1. groupOffset' \in {groupOffset, Sent(flushSent)}
    BY DEF StoreError
  <2> QED BY <2>1, SentTypes DEF AInv, AnchorTypeOK
<1>5. StoreTypes'
  BY <1>0, <1>2, <1>3, TypesSplit DEF AInv, StoreTypes
<1>6. DeadLetterIsEarned' /\ AnnouncedIsRooted'
  BY <1>0, <1>2, EarnedKept DEF AInv, AnnouncedIsRooted
<1> QED BY <1>0, <1>1, <1>3, <1>4, <1>5, <1>6, FlushFrame DEF AInv

\* Who is dead-lettered as its count is raised has failed often enough.
LEMMA CountsEarn ==
  ASSUME AInv, NEW p \in WellFormed,
         failures' = [failures EXCEPT ![KeyOf[p]] = Count(KeyOf[p])],
         deadLetters \subseteq deadLetters', deadLetters' \subseteq DeadLettered(p),
         processed \subseteq processed', processed' \subseteq processed \cup {KeyOf[p]},
         p \in deadLetters' \/ processed' = processed,
         UNCHANGED <<ledger, rooted, announced>>
  PROVE  StoreTypes' /\ DeadLetterIsEarned' /\ ProcessedIsAccounted' /\ AnnouncedIsRooted'
<1>0. p \in AnchorMsgs /\ KeyOf[p] \in Keys
  BY KeysOfMsgs DEF WellFormed
<1>1. /\ Count(KeyOf[p]) \in 0..FailureLimit /\ failures[KeyOf[p]] <= Count(KeyOf[p])
      /\ failures \in [Keys -> 0..FailureLimit]
  BY <1>0, CountGrows DEF AInv, AnchorTypeOK
<1>2. deadLetters' \subseteq deadLetters \cup {p} /\ (p \in deadLetters' => p \in deadLetters \/ Count(KeyOf[p]) >= FailureLimit)
  BY DEF DeadLettered, Spent
<1>3. failures' \in [Keys -> 0..FailureLimit] /\ failures'[KeyOf[p]] = Count(KeyOf[p])
      /\ \A k \in Keys : k # KeyOf[p] => failures'[k] = failures[k]
  BY <1>0, <1>1
<1>4. StoreTypes'
  BY <1>0, <1>2, <1>3, TypesSplit DEF AInv, StoreTypes
<1>5. DeadLetterIsEarned'
  <2> SUFFICES ASSUME NEW q \in deadLetters', q \notin Malformed PROVE failures'[KeyOf[q]] >= FailureLimit
    BY DEF DeadLetterIsEarned
  <2>1. q \in AnchorMsgs /\ KeyOf[q] \in Keys
    BY <1>4, KeysOfMsgs DEF StoreTypes
  <2>2. CASE q \in deadLetters
    <3>1. failures[KeyOf[q]] >= FailureLimit
      BY <2>2 DEF AInv, DeadLetterIsEarned
    <3>2. CASE KeyOf[q] = KeyOf[p]
      BY <1>1, <1>3, <3>1, <3>2, Limits
    <3>3. CASE KeyOf[q] # KeyOf[p]
      BY <1>3, <2>1, <3>1, <3>3
    <3> QED BY <3>2, <3>3
  <2>3. CASE q \notin deadLetters
    BY <1>2, <1>3, <2>3
  <2> QED BY <2>2, <2>3
<1>6. ProcessedIsAccounted'
  <2>1. CASE processed' = processed
    BY <2>1, AccountsKept DEF AInv
  <2>2. CASE p \in deadLetters'
    BY <2>2, AccountsGrow DEF AInv
  <2> QED BY <2>1, <2>2
<1>7. AnnouncedIsRooted'
  BY DEF AInv, AnnouncedIsRooted
<1> QED BY <1>4, <1>5, <1>6, <1>7

LEMMA RecordStep == ASSUME AInv, Record PROVE AInv'
<1> DEFINE p == Min(Ahead)
<1>0. /\ UNCHANGED <<groupOffset, queueVars, batch, mainVars, flushOwner, unique, paceVars, ledger, rooted,
                     announced>>
      /\ stage = "record" /\ batch # {} /\ Ahead # {}
      /\ unique \subseteq WellFormed
  BY DEF Record, AInv, StageKnows, WorkIsLeft, Flushing
<1>1. p \in WellFormed
  BY <1>0, NextOfBatch DEF AInv
<1>2. /\ failures' = [failures EXCEPT ![KeyOf[p]] = Count(KeyOf[p])]
      /\ deadLetters' = DeadLettered(p)
      /\ processed' = IF Spent(KeyOf[p]) THEN processed \cup {KeyOf[p]} ELSE processed
      /\ \/ Ahead # {p} /\ at' = p /\ UNCHANGED <<stage, todo, flushSent>>
         \/ Enter("alert", {})
  BY DEF Record
<1>3. StoreTypes' /\ DeadLetterIsEarned' /\ ProcessedIsAccounted' /\ AnnouncedIsRooted'
  <2>1. deadLetters \subseteq deadLetters' /\ (p \in deadLetters' \/ processed' = processed)
    BY <1>2 DEF DeadLettered
  <2>2. processed \subseteq processed' /\ processed' \subseteq processed \cup {KeyOf[p]}
    BY <1>2
  <2> HIDE DEF p
  <2> QED BY <1>0, <1>1, <1>2, <2>1, <2>2, CountsEarn
<1>4. ASSUME Ahead # {p}, at' = p, UNCHANGED <<stage, todo, flushSent>>
      PROVE  StageKnows' /\ FlushTypes' /\ flushSent' \in 0..drained
  <2>1. Ahead' # {} /\ at' \in 0..LogLength
    BY <1>0, <1>4, LoopGoesOn
  <2>2. FlushTypes' /\ flushSent' \in 0..drained
    BY <1>0, <1>4, <2>1, TypesSplit DEF AInv, FlushTypes, QueueTypes
  <2>3. StageKnows'
    BY <1>0, <1>4, <2>1 DEF StageKnows, Carried, WorkIsLeft
  <2> QED BY <2>2, <2>3
<1>5. ASSUME Enter("alert", {})
      PROVE  StageKnows' /\ FlushTypes' /\ flushSent' \in 0..drained
  <2>1. at' \in 0..LogLength /\ flushSent' \in 0..drained /\ stage' = "alert" /\ todo' = {}
    BY <1>0, <1>5, EnterTypes DEF AInv, queueVars
  <2>2. FlushTypes'
    BY <1>0, <2>1, TypesSplit DEF AInv, FlushTypes
  <2>3. StageKnows'
    BY <1>0, <2>1 DEF StageKnows, Carried, WorkIsLeft
  <2> QED BY <2>1, <2>2, <2>3
<1>6. PaceTypes' /\ groupOffset' \in 1..LogLength + 1
  BY <1>0, TypesSplit DEF AInv, PaceTypes, QueueTypes, paceVars
<1> HIDE DEF p
<1> QED BY <1>0, <1>2, <1>3, <1>4, <1>5, <1>6, FlushFrame DEF AInv

LEMMA AlertStep == ASSUME AInv, AlertOps PROVE AInv'
<1>0. /\ UNCHANGED <<groupOffset, queueVars, batch, mainVars, flushOwner, unique, paceVars, anchorStoreVars>>
      /\ batch # {} /\ unique \subseteq WellFormed
  BY DEF AlertOps, AInv, StageKnows, WorkIsLeft, Flushing
<1>1. /\ at' = 0 /\ at' \in 0..LogLength /\ flushSent' \in 0..drained /\ stage' = "recheck" /\ todo' = {}
  BY <1>0, EnterTypes DEF AInv, AlertOps, queueVars
<1>2. Ahead' # {}
  BY <1>0, <1>1, LoopStarts
<1>3. FlushTypes' /\ PaceTypes' /\ StoreTypes' /\ groupOffset' \in 1..LogLength + 1
  BY <1>0, <1>1, TypesSplit DEF AInv, FlushTypes, PaceTypes, StoreTypes, QueueTypes, paceVars, anchorStoreVars
<1>4. StageKnows'
  BY <1>0, <1>1, <1>2 DEF StageKnows, Carried, WorkIsLeft
<1>5. DeadLetterIsEarned' /\ ProcessedIsAccounted' /\ AnnouncedIsRooted'
  BY <1>0, EarnedKept, AccountsKept DEF AInv, AnnouncedIsRooted, anchorStoreVars
<1> QED BY <1>0, <1>1, <1>3, <1>4, <1>5, FlushFrame DEF AInv

\* A flush that stops without a commit leaves the batch.
LEMMA EndKeeps ==
  ASSUME AInv, NEW next \in {"loop", "dead"}, EndFlush(next), UNCHANGED <<queueVars, batch>>,
         groupOffset' \in 1..LogLength + 1
  PROVE  QueueTypes' /\ MainTypes' /\ FlushTypes' /\ MainKnows' /\ StageKnows'
<1>1. /\ main' \in {main, next} /\ stage' = "off" /\ at' = 0 /\ unique' = {} /\ todo' = {}
      /\ flushSent' = 0 /\ UNCHANGED <<flushOwner, mainSent, added>>
  BY DEF EndFlush
<1>2. 0 \in 0..drained /\ 0 \in 0..LogLength
  BY Limits, TypesSplit DEF AInv, QueueTypes
<1>3. QueueTypes' /\ MainTypes'
  BY <1>1, <1>2, TypesSplit DEF AInv, QueueTypes, MainTypes, queueVars
<1>4. FlushTypes'
  BY <1>1, <1>2, TypesSplit DEF AInv, FlushTypes
<1>5. MainKnows'
  BY <1>1 DEF AInv, MainKnows, queueVars
<1> QED BY <1>3, <1>4, <1>5, FlushEnds

LEMMA RecheckStep == ASSUME AInv, Recheck PROVE AInv'
<1> DEFINE p == Min(Ahead)
           remaining == IF KeyOf[p] \in processed THEN unique ELSE unique \cup {p}
<1>0. /\ UNCHANGED <<groupOffset, queueVars, batch, anchorStoreVars>>
      /\ stage = "recheck" /\ batch # {} /\ Ahead # {} /\ unique \subseteq WellFormed
      /\ unique \subseteq AnchorMsgs
  BY DEF Recheck, AInv, AnchorTypeOK, StageKnows, WorkIsLeft, Flushing
<1>1. p \in WellFormed /\ p \in AnchorMsgs
  BY <1>0, NextOfBatch DEF AInv
<1>2. remaining \subseteq WellFormed /\ remaining \subseteq AnchorMsgs
  BY <1>0, <1>1
<1>3. \/ /\ Ahead # {p} /\ at' = p /\ unique' = remaining
         /\ UNCHANGED <<stage, flushOwner, todo, flushSent, mainVars, paceVars>>
      \/ Enter("commitDlq", {}) /\ UNCHANGED <<flushOwner, unique, mainVars, paceVars>>
      \/ PauseCheck /\ EndFlush("loop")
  BY DEF Recheck
<1>4. StoreTypes' /\ groupOffset' \in 1..LogLength + 1
  BY <1>0, TypesSplit DEF AInv, StoreTypes, QueueTypes, anchorStoreVars
<1>5. DeadLetterIsEarned' /\ ProcessedIsAccounted' /\ AnnouncedIsRooted'
  BY <1>0, EarnedKept, AccountsKept DEF AInv, AnnouncedIsRooted, anchorStoreVars
<1>6. CASE /\ Ahead # {p} /\ at' = p /\ unique' = remaining
           /\ UNCHANGED <<stage, flushOwner, todo, flushSent, mainVars, paceVars>>
  <2>1. Ahead' # {} /\ at' \in 0..LogLength
    BY <1>0, <1>6, LoopGoesOn
  <2>2. todo \subseteq remaining
    BY DEF AInv, AnchorTypeOK
  <2> HIDE DEF remaining
  <2>3. FlushTypes' /\ PaceTypes' /\ flushSent' \in 0..drained
    BY <1>0, <1>2, <1>6, <2>1, <2>2, TypesSplit DEF AInv, FlushTypes, PaceTypes, QueueTypes, paceVars
  <2>4. StageKnows'
    BY <1>0, <1>2, <1>6, <2>1 DEF StageKnows, Carried, WorkIsLeft
  <2> QED BY <1>0, <1>4, <1>5, <1>6, <2>3, <2>4, FlushFrame DEF AInv
<1>7. CASE Enter("commitDlq", {}) /\ UNCHANGED <<flushOwner, unique, mainVars, paceVars>>
  <2>1. at' \in 0..LogLength /\ flushSent' \in 0..drained /\ stage' = "commitDlq" /\ todo' = {}
    BY <1>0, <1>7, EnterTypes DEF AInv, queueVars
  <2>2. FlushTypes' /\ PaceTypes'
    BY <1>0, <1>7, <2>1, TypesSplit DEF AInv, FlushTypes, PaceTypes, paceVars
  <2>3. StageKnows'
    BY <1>0, <1>7, <2>1 DEF StageKnows, Carried, WorkIsLeft
  <2> QED BY <1>0, <1>4, <1>5, <1>7, <2>1, <2>2, <2>3, FlushFrame DEF AInv
<1>8. CASE PauseCheck /\ EndFlush("loop")
  <2>1. QueueTypes' /\ MainTypes' /\ FlushTypes' /\ MainKnows' /\ StageKnows'
    BY <1>0, <1>4, <1>8, EndKeeps
  <2>2. PaceTypes'
    BY <1>8, TypesSplit DEF AInv, PaceTypes, PauseCheck
  <2> QED BY <1>4, <1>5, <2>1, <2>2, TypesSplitNext DEF AInv
<1> HIDE DEF remaining, p
<1> QED BY <1>3, <1>6, <1>7, <1>8

LEMMA FlushThrowsStep == ASSUME AInv, FlushThrows PROVE AInv'
<1> DEFINE p == Min(Ahead)
<1>0. UNCHANGED <<queueVars, batch, paceVars, ledger, rooted, announced>> /\ EndFlush("dead")
  BY DEF FlushThrows
<1>1. groupOffset' \in 1..LogLength + 1
  <2>1. groupOffset' \in {groupOffset, Sent(flushSent)}
    BY DEF FlushThrows
  <2> QED BY <2>1, SentTypes DEF AInv, AnchorTypeOK
<1>2. QueueTypes' /\ MainTypes' /\ FlushTypes' /\ MainKnows' /\ StageKnows'
  BY <1>0, <1>1, EndKeeps
<1>3. PaceTypes'
  BY <1>0, TypesSplit DEF AInv, PaceTypes, paceVars
<1>4. StoreTypes' /\ DeadLetterIsEarned' /\ ProcessedIsAccounted' /\ AnnouncedIsRooted'
  <2>1. CASE UNCHANGED <<failures, deadLetters, processed>>
    <3>1. StoreTypes'
      BY <1>0, <2>1, TypesSplit DEF AInv, StoreTypes
    <3> QED BY <1>0, <2>1, <3>1, EarnedKept, AccountsKept DEF AInv, AnnouncedIsRooted
  <2>2. CASE /\ stage = "record"
             /\ failures' = [failures EXCEPT ![KeyOf[p]] = Count(KeyOf[p])]
             /\ deadLetters' \in {deadLetters, DeadLettered(p)}
             /\ processed' \in {processed, IF deadLetters' # deadLetters THEN processed \cup {KeyOf[p]} ELSE processed}
    <3>1. p \in WellFormed
      BY <2>2, NextOfBatch DEF AInv, StageKnows, WorkIsLeft
    <3>2. /\ deadLetters \subseteq deadLetters' /\ deadLetters' \subseteq DeadLettered(p)
          /\ processed \subseteq processed' /\ processed' \subseteq processed \cup {KeyOf[p]}
          /\ p \in deadLetters' \/ processed' = processed
      BY <2>2 DEF DeadLettered
    <3> HIDE DEF p
    <3> QED BY <1>0, <2>2, <3>1, <3>2, CountsEarn
  <2> QED BY <2>1, <2>2 DEF FlushThrows
<1> QED BY <1>2, <1>3, <1>4, TypesSplitNext DEF AInv

LEMMA NextAInv == ASSUME AInv, [AnchorNext]_anchorVars PROVE AInv'
BY LoopSteps, DrainStep, MalformedSteps, TimerStep, CrashStep, ScanStep, ApplyStep, SubmitRootStep,
   WriteProofStep, MarkStep, CommitSteps, FabricErrorStep, StoreErrorStep, RecordStep, AlertStep,
   RecheckStep, FlushThrowsStep
DEF AnchorNext, MainStep, FlushStep

LEMMA AInvHolds == AnchorSpec => []AInv
BY InitAInv, NextAInv, PTL DEF AnchorSpec

-----------------------------------------------------------------------------
(* The theorems.                                                           *)

\* Offsets and counters stay in range, and only a malformed message, or one with
\* FailureLimit recorded failures, is dead-lettered, across any crashes.
THEOREM DeadLettersAreEarned == AnchorSpec => []AnchorInvariant
<1>1. AInv => AnchorInvariant
  BY DEF AInv, AnchorInvariant
<1> QED BY <1>1, AInvHolds, PTL

\* A key enters processed_events only when a message with it went the whole way to
\* the ledger, the root, the proof rows and the announcement, or was dead-lettered.
THEOREM ProcessedWentThrough == AnchorSpec => []ProcessedIsAccounted
<1>1. AInv => ProcessedIsAccounted
  BY DEF AInv
<1> QED BY <1>1, AInvHolds, PTL

\* What is announced as anchored lies under a root the ledger accepted.
THEOREM NoUnrootedAnnouncement == AnchorSpec => []AnnouncedIsRooted
<1>1. AInv => AnnouncedIsRooted
  BY DEF AInv
<1> QED BY <1>1, AInvHolds, PTL

\* No message is submitted, rooted, given proof rows or announced again once its key
\* is in processed_events, whether or not the ledger holds it already.
THEOREM ProcessedIsNotAnchoredAgain == AnchorSpec => NoAnchorAfterProcessed
<1>1. ASSUME AInv PROVE \A p \in HandedOn : KeyOf[p] \notin processed
  <2>1. CASE stage = "apply"
    <3>1. NextApply \in unique
      BY <1>1, <2>1, NextOfTodo DEF AInv, StageKnows, WorkIsLeft
    <3> QED BY <1>1, <2>1, <3>1 DEF HandedOn, AInv, StageKnows
  <2>2. CASE stage = "root"
    BY <1>1, <2>2 DEF HandedOn, AInv, StageKnows
  <2>3. CASE stage = "proofs"
    <3>1. Min(todo) \in unique
      BY <1>1, <2>3, NextOfTodo DEF AInv, StageKnows, WorkIsLeft
    <3> QED BY <1>1, <2>3, <3>1 DEF HandedOn, AInv, StageKnows
  <2>4. CASE stage \notin {"apply", "root", "proofs"}
    BY <2>4 DEF HandedOn
  <2> QED BY <2>1, <2>2, <2>3, <2>4
<1>2. AInv => [(Apply \/ SubmitRoot \/ WriteProof \/ FabricError \/ StoreError)
                 => \A p \in HandedOn : KeyOf[p] \notin processed]_anchorVars
  BY <1>1
<1> QED BY <1>2, AInvHolds, PTL DEF AnchorSpec, NoAnchorAfterProcessed

-----------------------------------------------------------------------------
(* Without the timer, and without malformed messages, only the main loop   *)
(* flushes, and nothing is pushed on the batch while it does.              *)

Quiet == ~ TimerOn /\ Malformed = {}

Done(p) == KeyOf[p] \in processed

\* The flush has looked at every message of the batch.
BatchIsVisited ==
  /\ stage \in {"scan", "recheck"} => \A p \in batch : p <= at => Done(p) \/ p \in unique
  /\ stage \in {"apply", "root", "proofs"} => \A p \in batch : Done(p) \/ p \in unique
  /\ stage = "mark" => \A p \in batch : Done(p) \/ p \in todo
  /\ stage \in {"commit", "commitDlq"} => \A p \in batch : Done(p)

OnlyMainFlushes ==
  /\ main \notin {"parse", "commit"}
  /\ Flushing => main = "flush"
  /\ flushOwner = "main"

\* What was taken off the queue is processed or in the batch.
NothingLost ==
  /\ groupOffset <= drained + 1
  /\ \A p \in AnchorMsgs : p <= drained => Done(p) \/ p \in batch
  /\ \A p \in AnchorMsgs : p < groupOffset => Done(p)

QuietInv == Quiet => OnlyMainFlushes /\ NothingLost /\ BatchIsVisited

LEMMA QuietNumbers ==
  ASSUME AInv
  PROVE  /\ drained \in Nat /\ fetched \in Nat /\ groupOffset \in Nat /\ drained <= fetched
         /\ flushSent \in Nat /\ flushSent <= drained /\ at \in Nat
         /\ batch \subseteq AnchorMsgs /\ \A p \in AnchorMsgs : p \in Nat /\ p > 0
BY KeysOfMsgs, AnchorAssumption DEF AInv, AnchorTypeOK, MainKnows, WellFormed

\* A step that neither commits, nor drains, nor empties the batch.
LEMMA LostNothing ==
  ASSUME NothingLost, UNCHANGED <<groupOffset, drained, batch>>, processed \subseteq processed'
  PROVE  NothingLost'
BY DEF NothingLost, Done

\* A commit is of what was drained, when the whole batch is done.
LEMMA CommitLosesNothing ==
  ASSUME AInv, NothingLost, \A p \in batch : Done(p), UNCHANGED <<drained, processed>>,
         groupOffset' \in {groupOffset, Sent(flushSent)}
  PROVE  NothingLost'
<1>1. \A p \in AnchorMsgs : p <= drained => Done(p)
  BY DEF NothingLost
<1>2. groupOffset' = groupOffset \/ groupOffset' = flushSent + 1
  BY DEF Sent
<1> QED BY <1>1, <1>2, QuietNumbers DEF NothingLost, Done

LEMMA QuietMain ==
  ASSUME AInv, Quiet, OnlyMainFlushes, NothingLost, BatchIsVisited,
         Fetch \/ MainStep \/ TimerFlush \/ MainThrows \/ AnchorCrash \/ UNCHANGED anchorVars
  PROVE  OnlyMainFlushes' /\ NothingLost' /\ BatchIsVisited'
<1>1. CASE Fetch \/ Pause \/ PauseElapses \/ Consume \/ UNCHANGED anchorVars
  <2>1. UNCHANGED <<groupOffset, drained, batch, flushVars, processed>>
    BY <1>1 DEF Fetch, Pause, PauseElapses, Consume, anchorVars, queueVars, anchorStoreVars
  <2>2. OnlyMainFlushes'
    BY <1>1, <2>1 DEF OnlyMainFlushes, Flushing, Fetch, Pause, PauseElapses, Consume, anchorVars, mainVars,
                      flushVars
  <2>3. NothingLost'
    BY <2>1, LostNothing
  <2>4. BatchIsVisited'
    BY <2>1 DEF BatchIsVisited, Done, flushVars
  <2> QED BY <2>2, <2>3, <2>4
<1>2. CASE Drain
  <2>1. /\ UNCHANGED <<groupOffset, processed>> /\ drained' = fetched
        /\ batch' = batch \cup drained + 1..fetched
        /\ SizeCheck /\ main' # "parse" /\ ~ Flushing
    <3>1. {p \in Malformed : p >= drained + 1 /\ p <= fetched} = {}
      BY DEF Quiet
    <3>2. PICK wasAdded \in BOOLEAN : PushFrom(drained + 1, fetched, wasAdded)
      BY <1>2, Zenon DEF Drain
    <3>4. ~ (fetched < fetched)
      BY QuietNumbers
    <3>3. batch' = batch \cup drained + 1..fetched /\ SizeCheck
      BY <3>1, <3>2, <3>4 DEF PushFrom
    <3> QED BY <1>2, <3>3 DEF Drain, anchorStoreVars, SizeCheck, OnlyMainFlushes
  <2>2. \/ main' = "loop" /\ UNCHANGED flushVars
        \/ main' = "flush" /\ StartFlush("main")
    BY <2>1 DEF SizeCheck
  <2>3. OnlyMainFlushes'
    BY <2>1, <2>2 DEF OnlyMainFlushes, Flushing, StartFlush, flushVars
  <2>4. NothingLost'
    <3>1. ASSUME NEW p \in AnchorMsgs, p <= fetched PROVE Done(p)' \/ p \in batch'
      <4>1. CASE p <= drained
        BY <2>1, <4>1 DEF NothingLost, Done
      <4>2. CASE ~ (p <= drained)
        <5>1. p \in drained + 1..fetched
          BY <3>1, <4>2, QuietNumbers
        <5> QED BY <2>1, <5>1
      <4> QED BY <4>1, <4>2
    <3>2. groupOffset' <= drained' + 1
      BY <2>1, QuietNumbers DEF NothingLost
    <3> QED BY <2>1, <3>1, <3>2 DEF NothingLost, Done
  <2>5. BatchIsVisited'
    <3>1. CASE UNCHANGED flushVars
      BY <2>1, <3>1 DEF BatchIsVisited, Flushing, flushVars
    <3>2. CASE StartFlush("main")
      <4>1. \A p \in batch' : p > 0
        BY <2>1, QuietNumbers
      <4>2. \A p \in batch' : ~ (p <= 0)
        BY <2>1, <4>1, QuietNumbers
      <4> QED BY <3>2, <4>2 DEF BatchIsVisited, StartFlush
    <3> QED BY <2>2, <3>1, <3>2
  <2> QED BY <2>3, <2>4, <2>5
<1>3. CASE AnchorCrash
  <2>1. /\ UNCHANGED <<groupOffset, processed>> /\ drained' = groupOffset - 1 /\ batch' = {}
        /\ main' = "loop" /\ stage' = "off" /\ flushOwner' = "main"
    BY <1>3 DEF AnchorCrash, anchorStoreVars
  <2>2. NothingLost'
    BY <2>1, QuietNumbers DEF NothingLost, Done
  <2> QED BY <2>1, <2>2 DEF OnlyMainFlushes, Flushing, BatchIsVisited
<1>4. ~ (ParseMalformed \/ CommitMalformed \/ TimerFlush \/ MainThrows)
  BY DEF Quiet, OnlyMainFlushes, ParseMalformed, CommitMalformed, TimerFlush, MainThrows
<1> QED BY <1>1, <1>2, <1>3, <1>4 DEF MainStep

\* A flush step that goes on leaves the main loop waiting for it.
LEMMA QuietStage ==
  ASSUME OnlyMainFlushes, UNCHANGED mainVars, Flushing, UNCHANGED flushOwner
  PROVE  OnlyMainFlushes'
BY DEF OnlyMainFlushes, mainVars

LEMMA QuietEnd ==
  ASSUME OnlyMainFlushes, Flushing, NEW next \in {"loop", "dead"}, EndFlush(next)
  PROVE  OnlyMainFlushes' /\ BatchIsVisited'
BY DEF OnlyMainFlushes, EndFlush, Flushing, BatchIsVisited

\* The loop over the batch has visited p too, and everything when p was the last.
LEMMA VisitedNext ==
  ASSUME AInv, Ahead # {}, NEW q \in batch, NEW p, p = Min(Ahead),
         q <= p \/ Ahead = {p}
  PROVE  q <= at \/ q = p
<1>1. p \in Ahead /\ p \in Nat /\ p > at /\ \A r \in batch : r > at => p <= r
  BY NextOfBatch, KeysOfMsgs DEF AInv, Ahead
<1>2. q \in Nat /\ at \in Nat
  BY QuietNumbers
<1> QED BY <1>1, <1>2 DEF Ahead

LEMMA QuietLoops ==
  ASSUME AInv, Quiet, OnlyMainFlushes, NothingLost, BatchIsVisited, Scan \/ Recheck
  PROVE  OnlyMainFlushes' /\ NothingLost' /\ BatchIsVisited'
<1> DEFINE p == Min(Ahead)
           seen == IF KeyOf[p] \in processed THEN unique ELSE unique \cup {p}
<1>0. /\ UNCHANGED <<groupOffset, queueVars, batch, processed>> /\ Flushing /\ Ahead # {}
      /\ stage \in {"scan", "recheck"} /\ drained' = drained
      /\ \A q \in batch : q <= at => Done(q) \/ q \in unique
  BY DEF Scan, Recheck, AInv, StageKnows, WorkIsLeft, Flushing, BatchIsVisited, anchorStoreVars, queueVars
<1>1. NothingLost'
  BY <1>0, LostNothing
<1>2. \A q \in batch : q <= p \/ Ahead = {p} => Done(q) \/ q \in seen
  <2> SUFFICES ASSUME NEW q \in batch, q <= p \/ Ahead = {p} PROVE Done(q) \/ q \in seen
    OBVIOUS
  <2>1. q <= at \/ q = p
    BY <1>0, VisitedNext
  <2> QED BY <1>0, <2>1 DEF Done
<1>3. \/ /\ Ahead # {p} /\ at' = p /\ unique' = seen /\ stage' = stage
         /\ UNCHANGED <<mainVars, flushOwner>>
      \/ /\ Ahead = {p} /\ unique' = seen /\ stage' = "apply"
         /\ UNCHANGED <<mainVars, flushOwner>>
      \/ /\ Ahead = {p} /\ seen = {} /\ stage' \in {"commit", "commitDlq"}
         /\ UNCHANGED <<mainVars, flushOwner>>
      \/ EndFlush("loop")
  BY DEF Scan, Recheck, Enter
<1> HIDE DEF p, seen
<1>4. OnlyMainFlushes'
  BY <1>0, <1>3, QuietStage, QuietEnd
<1>5. BatchIsVisited'
  <2>1. \A q \in batch : Done(q)' <=> Done(q)
    BY <1>0 DEF Done
  <2>2. CASE EndFlush("loop")
    BY <1>0, <2>2, QuietEnd
  <2>3. CASE Ahead # {p} /\ at' = p /\ unique' = seen /\ stage' = stage
    BY <1>0, <1>2, <2>1, <2>3 DEF BatchIsVisited
  <2>4. CASE Ahead = {p} /\ unique' = seen /\ stage' = "apply"
    BY <1>0, <1>2, <2>1, <2>4 DEF BatchIsVisited
  <2>5. CASE Ahead = {p} /\ seen = {} /\ stage' \in {"commit", "commitDlq"}
    BY <1>0, <1>2, <2>1, <2>5 DEF BatchIsVisited
  <2> QED BY <1>3, <2>2, <2>3, <2>4, <2>5
<1> QED BY <1>1, <1>4, <1>5

LEMMA QuietStages ==
  ASSUME AInv, Quiet, OnlyMainFlushes, NothingLost, BatchIsVisited,
         Apply \/ SubmitRoot \/ WriteProof \/ MarkProcessed
  PROVE  OnlyMainFlushes' /\ NothingLost' /\ BatchIsVisited'
<1>0. /\ UNCHANGED <<groupOffset, queueVars, batch, mainVars>> /\ processed \subseteq processed'
      /\ UNCHANGED <<flushOwner, unique>> /\ Flushing /\ drained' = drained
  BY DEF Apply, SubmitRoot, WriteProof, MarkProcessed, ItemHandled, Flushing, queueVars
<1>1. OnlyMainFlushes' /\ NothingLost'
  BY <1>0, LostNothing, QuietStage
<1>2. CASE Apply \/ SubmitRoot \/ WriteProof
  <2>1. processed' = processed /\ \A q \in batch : Done(q) \/ q \in unique
    BY <1>2 DEF Apply, SubmitRoot, WriteProof, BatchIsVisited
  <2>2. /\ stage' \in {"apply", "root", "proofs", "mark"}
        /\ stage' = "mark" => todo' = unique
    BY <1>2 DEF Apply, SubmitRoot, WriteProof, ItemHandled, Enter
  <2>3. \A q \in batch : Done(q)' \/ q \in unique
    BY <2>1 DEF Done
  <2>4. batch' = batch /\ unique' = unique
    BY <1>0
  <2>5. \A q \in batch' : Done(q)' \/ q \in unique'
    BY <2>3, <2>4
  <2>6. stage' = "mark" => \A q \in batch' : Done(q)' \/ q \in todo'
    BY <2>2, <2>3, <2>4
  <2> QED BY <1>1, <2>2, <2>5, <2>6 DEF BatchIsVisited
<1>3. CASE MarkProcessed
  <2>1. /\ processed' = processed \cup {KeyOf[Min(todo)]}
        /\ \A q \in batch : Done(q) \/ q \in todo
        /\ \/ todo' = todo \ {Min(todo)} /\ stage' = "mark"
           \/ todo = {Min(todo)} /\ stage' = "commit"
    BY <1>3 DEF MarkProcessed, ItemHandled, Enter, BatchIsVisited
  <2>2. \A q \in batch : Done(q)' \/ (q \in todo /\ q # Min(todo))
    BY <2>1 DEF Done
  <2>3. CASE todo' = todo \ {Min(todo)} /\ stage' = "mark"
    <3>1. \A q \in batch' : Done(q)' \/ q \in todo'
      BY <1>0, <2>2, <2>3
    <3> QED BY <1>1, <2>3, <3>1 DEF BatchIsVisited
  <2>4. CASE todo = {Min(todo)} /\ stage' = "commit"
    <3>1. \A q \in batch' : Done(q)'
      BY <1>0, <2>2, <2>4
    <3> QED BY <1>1, <2>4, <3>1 DEF BatchIsVisited
  <2> QED BY <2>1, <2>3, <2>4
<1> QED BY <1>1, <1>2, <1>3

LEMMA QuietFaults ==
  ASSUME AInv, Quiet, OnlyMainFlushes, NothingLost, BatchIsVisited,
         FabricError \/ StoreError \/ Record \/ AlertOps \/ FlushThrows \/ Commit \/ CommitDlq
  PROVE  OnlyMainFlushes' /\ NothingLost' /\ BatchIsVisited'
<1>0. Flushing /\ processed \subseteq processed' /\ drained' = drained
  BY DEF FabricError, StoreError, Record, AlertOps, FlushThrows, Commit, CommitDlq, Flushing, queueVars,
         anchorStoreVars
<1>1. CASE FabricError \/ Record \/ AlertOps
  <2>1. UNCHANGED <<groupOffset, batch, mainVars, flushOwner>>
    BY <1>1 DEF FabricError, Record, AlertOps, Fail
  <2>2. stage' \in {"record", "alert"} \/ (stage' = "recheck" /\ at' = 0)
    BY <1>1 DEF FabricError, Record, AlertOps, Fail, Enter
  <2>3. \A q \in batch : ~ (q <= 0)
    BY QuietNumbers
  <2>4. BatchIsVisited'
    BY <2>1, <2>2, <2>3 DEF BatchIsVisited
  <2> QED BY <1>0, <2>1, <2>4, LostNothing, QuietStage
<1>2. CASE StoreError
  <2>1. UNCHANGED <<batch, mainVars, flushOwner>> /\ stage' = "record"
    BY <1>2 DEF StoreError, Fail, Enter
  <2>2. BatchIsVisited' /\ OnlyMainFlushes'
    BY <1>0, <2>1, QuietStage DEF BatchIsVisited
  <2>3. CASE stage = "commit"
    <3>1. groupOffset' \in {groupOffset, Sent(flushSent)} /\ UNCHANGED processed
      BY <1>2, <2>3 DEF StoreError
    <3> QED BY <1>0, <2>2, <2>3, <3>1, CommitLosesNothing, <2>1 DEF BatchIsVisited
  <2>4. CASE stage # "commit"
    <3>1. UNCHANGED groupOffset
      BY <1>2, <2>4 DEF StoreError
    <3> QED BY <1>0, <2>1, <2>2, <3>1, LostNothing
  <2> QED BY <2>3, <2>4
<1>3. CASE Commit \/ CommitDlq
  <2>1. /\ EndFlush("loop") /\ UNCHANGED processed /\ groupOffset' \in {groupOffset, Sent(flushSent)}
        /\ \A q \in batch : Done(q)
    BY <1>3 DEF Commit, CommitDlq, CommitReturns, anchorStoreVars, BatchIsVisited
  <2> QED BY <1>0, <2>1, QuietEnd, CommitLosesNothing
<1>4. CASE FlushThrows
  <2>1. EndFlush("dead") /\ UNCHANGED batch
    BY <1>4 DEF FlushThrows
  <2>2. CASE stage = "commitDlq"
    <3>1. /\ UNCHANGED processed /\ groupOffset' \in {groupOffset, Sent(flushSent)}
          /\ \A q \in batch : Done(q)
      BY <1>4, <2>2 DEF FlushThrows, BatchIsVisited
    <3> QED BY <1>0, <2>1, <3>1, QuietEnd, CommitLosesNothing
  <2>3. CASE stage # "commitDlq"
    <3>1. UNCHANGED groupOffset
      BY <1>4, <2>3 DEF FlushThrows
    <3> QED BY <1>0, <2>1, <3>1, QuietEnd, LostNothing
  <2> QED BY <2>2, <2>3
<1> QED BY <1>1, <1>2, <1>3, <1>4

LEMMA NextQuiet == ASSUME AInv, QuietInv, [AnchorNext]_anchorVars PROVE QuietInv'
BY QuietMain, QuietLoops, QuietStages, QuietFaults DEF QuietInv, AnchorNext, FlushStep

\* What flush() promises - "Commit only after Fabric confirms + DB writes complete" -
\* it keeps while no timer flushes beside the main loop and no message is malformed:
\* whatever fails or dies, a committed message is anchored or dead-lettered.
THEOREM CommitsAreSettled == AnchorSpec => [](Quiet => CommittedIsSettled)
<1>1. AnchorInit => QuietInv
  <2> SUFFICES ASSUME AnchorInit PROVE OnlyMainFlushes /\ NothingLost /\ BatchIsVisited
    BY DEF QuietInv
  <2>1. \A p \in AnchorMsgs : ~ (p <= 0) /\ ~ (p < 1)
    BY KeysOfMsgs
  <2> QED BY <2>1 DEF AnchorInit, OnlyMainFlushes, NothingLost, BatchIsVisited, Flushing
<1>2. QuietInv => (Quiet => CommittedIsSettled)
  BY DEF QuietInv, Quiet, NothingLost, CommittedIsSettled, Settled, Done
<1> QED BY <1>1, <1>2, AInvHolds, NextQuiet, PTL DEF AnchorSpec
=============================================================================
