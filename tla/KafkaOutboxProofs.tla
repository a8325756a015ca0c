------------------------- MODULE KafkaOutboxProofs -------------------------
(***************************************************************************)
(* Proofs about KafkaOutbox for every number of rows and replicas, every   *)
(* batch size, attempt limit and number of requests per send, and any      *)
(* number of crashes, database errors and copies that land unheard.        *)
(***************************************************************************)
EXTENDS KafkaOutbox, TLAPS

-----------------------------------------------------------------------------
(* The step lemmas speak of one relay r; this is what a step is.           *)

Step(r) ==
  \/ ClaimSelect(r) \/ ClaimCommit(r) \/ ClaimError(r)
  \/ \E e \in Events : StartPublish(r, e)
  \/ \E c \in Cluster : Ack(r, c)
  \/ Reject(r)
  \/ MarkSent(r) \/ MarkSentError(r) \/ MarkFailed(r) \/ MarkFailedError(r)
  \/ DeadLetter(r)
  \/ Crash(r)

\* And this what a step of no relay is.
Elsewhere(e) ==
  \/ Enqueue(e) \/ BecomeDue(e) \/ LetterLands(e)
  \/ \E c \in Cluster : Append(e, c)

LEMMA NextCases ==
  ASSUME Next
  PROVE  \/ \E e \in Events : Elsewhere(e)
         \/ \E r \in Relays : Step(r)
  BY DEF Next, RelayStep, Fault, Step, Elsewhere

LEMMA ClustersOfIsSubset == \A e : ClustersOf(e) \subseteq Cluster
  BY DEF ClustersOf, Cluster

-----------------------------------------------------------------------------
(* Type correctness: the columns, the brokers and the relays' memory keep  *)
(* their types through every step, faults included (outbox.ts: OutboxRow). *)

LEMMA AppendCopyType ==
  ASSUME TypeOK, NEW e \in Events, NEW c \in Cluster, AppendCopy(e, c)
  PROVE  copies' \in [Events -> [Cluster -> Nat]]
<1>1. copies[e] \in [Cluster -> Nat] /\ copies[e][c] + 1 \in Nat
  BY DEF TypeOK
<1>2. [copies[e] EXCEPT ![c] = @ + 1] \in [Cluster -> Nat]
  BY <1>1
<1>3. copies' = [copies EXCEPT ![e] = [copies[e] EXCEPT ![c] = @ + 1]]
  BY DEF AppendCopy
<1> QED BY <1>2, <1>3 DEF TypeOK

LEMMA SetFailedType ==
  ASSUME TypeOK, NEW r \in Relays, SetFailed(cur[r], rowAttempts[r][cur[r]])
  PROVE  /\ status' \in [Events -> Status]
         /\ attempts' \in [Events -> Nat]
         /\ due' \in [Events -> BOOLEAN]
<1>1. CASE cur[r] \in Events
  BY <1>1 DEF TypeOK, SetFailed, Status
<1>2. CASE cur[r] \notin Events
  BY <1>2 DEF TypeOK, SetFailed, Status
<1> QED BY <1>1, <1>2

LEMMA TakeRowsType ==
  ASSUME TypeOK, NEW r \in Relays, TakeRows(r) \/ UNCHANGED rowVars
  PROVE  /\ status' \in [Events -> Status]
         /\ attempts' \in [Events -> Nat]
         /\ due' \in [Events -> BOOLEAN]
<1>1. CASE TakeRows(r)
  BY <1>1 DEF TypeOK, TakeRows, Status
<1>2. CASE UNCHANGED rowVars
  BY <1>2 DEF TypeOK, rowVars
<1> QED BY <1>1, <1>2

\* The relay's memory after it drops its batch, or one row of it.
LEMMA RelayMemoryType ==
  ASSUME TypeOK, NEW r \in Relays, AbandonTick(r) \/ NextRow(r)
  PROVE  /\ phase' \in [Relays -> Phase]
         /\ held' \in [Relays -> SUBSET Events]
         /\ cur' \in [Relays -> Events \cup {0}]
         /\ \A q \in Relays :
              phase'[q] \in {"idle", "claiming", "publish"} \/ cur'[q] \in Events
         /\ waiting' \in [Relays -> SUBSET Cluster]
         /\ rowAttempts' \in [Relays -> [Events -> Nat]]
<1>1. CASE AbandonTick(r)
  BY <1>1 DEF TypeOK, AbandonTick, Phase
<1>2. CASE NextRow(r)
  <2>1. held' \in [Relays -> SUBSET Events]
    BY <1>2 DEF TypeOK, NextRow
  <2>2. phase' \in [Relays -> Phase]
    BY <1>2 DEF TypeOK, NextRow, Phase
  <2> QED BY <1>2, <2>1, <2>2 DEF TypeOK, NextRow
<1> QED BY <1>1, <1>2

LEMMA RelayTypeStep ==
  ASSUME TypeOK, NEW r \in Relays, Step(r)
  PROVE  TypeOK'
<1> USE DEF TypeOK, Status, Phase, rowVars, brokerVars, bounds
<1>1. CASE ClaimSelect(r)
  BY <1>1 DEF ClaimSelect, Oldest
<1>2. CASE ClaimCommit(r)
  <2>1. attempts' \in [Events -> Nat]
    BY <1>2 DEF ClaimCommit, TakeRows
  <2>2. rowAttempts' \in [Relays -> [Events -> Nat]]
    BY <1>2, <2>1 DEF ClaimCommit
  <2> QED BY <1>2, <2>1, <2>2 DEF ClaimCommit, TakeRows
<1>3. CASE ClaimError(r)
  BY <1>3, TakeRowsType, RelayMemoryType DEF ClaimError, DbError
<1>4. CASE \E e \in Events : StartPublish(r, e)
  BY <1>4, ClustersOfIsSubset DEF StartPublish
<1>5. CASE (\E c \in Cluster : Ack(r, c)) \/ Reject(r)
  <2>1. CASE Reject(r)
    BY <2>1 DEF Reject
  <2>2. ASSUME NEW c \in Cluster, Ack(r, c) PROVE TypeOK'
    <3>1. cur[r] \in Events
      BY <2>2 DEF Ack
    <3>2. copies' \in [Events -> [Cluster -> Nat]]
      BY <2>2, <3>1, AppendCopyType DEF Ack
    <3> QED BY <2>2, <3>2 DEF Ack
  <2> QED BY <1>5, <2>1, <2>2
<1>6. CASE MarkSent(r)
  BY <1>6, RelayMemoryType DEF MarkSent, SetSent
<1>7. CASE MarkSentError(r)
  BY <1>7 DEF MarkSentError, SetSent, DbError
<1>8. CASE MarkFailed(r)
  <2>1. CASE rowAttempts[r][cur[r]] >= MaxAttempts
    <3>1. cur[r] \in Events
      BY <1>8 DEF MarkFailed
    <3>2. /\ lettered' = lettered \cup {cur[r]}
          /\ phase' = [phase EXCEPT ![r] = "deadLetter"]
          /\ UNCHANGED <<sends, copies, dlq, held, cur, waiting, rowAttempts, crashes,
                         dbErrors, unheard>>
      BY <1>8, <2>1 DEF MarkFailed
    <3>3. SetFailed(cur[r], rowAttempts[r][cur[r]])
      BY <1>8 DEF MarkFailed
    <3>4. /\ status' \in [Events -> Status] /\ attempts' \in [Events -> Nat]
          /\ due' \in [Events -> BOOLEAN]
      BY <3>3, SetFailedType
    <3> QED BY <3>1, <3>2, <3>4
  <2>2. CASE ~(rowAttempts[r][cur[r]] >= MaxAttempts)
    BY <1>8, <2>2, SetFailedType, RelayMemoryType DEF MarkFailed
  <2> QED BY <2>1, <2>2
<1>9. CASE MarkFailedError(r)
  BY <1>9, SetFailedType, RelayMemoryType DEF MarkFailedError, DbError
<1>10. CASE DeadLetter(r)
  BY <1>10, RelayMemoryType DEF DeadLetter
<1>11. CASE Crash(r)
  BY <1>11, RelayMemoryType DEF Crash
<1> QED BY <1>1, <1>2, <1>3, <1>4, <1>5, <1>6, <1>7, <1>8, <1>9, <1>10, <1>11
        DEF Step

LEMMA RowTypeStep ==
  ASSUME TypeOK, NEW e \in Events, Elsewhere(e)
  PROVE  TypeOK'
<1> USE DEF TypeOK, Status, brokerVars, relayVars, rowVars, bounds
<1>1. CASE Enqueue(e) \/ BecomeDue(e)
  BY <1>1 DEF Enqueue, BecomeDue
<1>2. CASE LetterLands(e)
  BY <1>2 DEF LetterLands
<1>3. CASE \E c \in Cluster : Append(e, c)
  BY <1>3, AppendCopyType DEF Append
<1> QED BY <1>1, <1>2, <1>3 DEF Elsewhere

\* The columns of the outbox, the brokers and the relays keep their types.
THEOREM TypeCorrect == Spec => []TypeOK
<1>1. Init => TypeOK
  BY DEF Init, TypeOK, Status, Phase
<1>2. TypeOK /\ [Next]_vars => TypeOK'
  <2> SUFFICES ASSUME TypeOK, [Next]_vars PROVE TypeOK'
    OBVIOUS
  <2>1. CASE Next
    BY <2>1, NextCases, RowTypeStep, RelayTypeStep
  <2>2. CASE UNCHANGED vars
    BY <2>2 DEF TypeOK, vars, rowVars, brokerVars, relayVars, bounds
  <2> QED BY <2>1, <2>2
<1> QED BY <1>1, <1>2, PTL DEF Spec

-----------------------------------------------------------------------------
(* The inductive invariant, split into what it says of a row, of a relay   *)
(* and of two relays.                                                      *)

RowOK(e) ==
  /\ status[e] = "SENT" => \A c \in ClustersOf(e) : copies[e][c] > 0
  /\ sends[e] <= attempts[e]
  /\ \A c \in Cluster : copies[e][c] <= SendTries * sends[e]
  /\ attempts[e] <= MaxAttempts
  /\ status[e] = "DEAD" => attempts[e] = MaxAttempts
  /\ e \in dlq => e \in lettered
  /\ e \in lettered => status[e] = "DEAD"
  /\ status[e] \in {"ABSENT", "PENDING", "FAILED"} => attempts[e] < MaxAttempts

\* More publishes, more requests.
LEMMA RequestsGrow ==
  ASSUME OutboxAssumption, NEW m \in Nat, NEW n \in Nat, m <= n
  PROVE  SendTries * m \in Nat /\ SendTries * n \in Nat /\ SendTries * m <= SendTries * n
<1>1. SendTries \in Nat
  BY DEF OutboxAssumption
<1>2. PICK d \in Nat : n = m + d
  <2>1. n - m \in Nat /\ n = m + (n - m)
    OBVIOUS
  <2> QED BY <2>1
<1>3. SendTries * m \in Nat /\ SendTries * d \in Nat
  BY <1>1
<1>4. SendTries * (m + d) = SendTries * m + SendTries * d
  BY <1>1
<1> QED BY <1>2, <1>3, <1>4

LEMMA RequestsBound ==
  ASSUME OutboxAssumption, NEW m \in Nat, NEW n \in Nat, m <= n,
         NEW k \in Nat, k <= SendTries * m
  PROVE  k <= SendTries * n
<1>1. SendTries * m \in Nat /\ SendTries * n \in Nat /\ SendTries * m <= SendTries * n
  BY RequestsGrow
<1> QED BY <1>1

LEMMA InvariantParts ==
  ASSUME OutboxInvariant
  PROVE  /\ ClaimExclusive /\ (\A e \in Events : RowOK(e))
         /\ \A r \in Relays : RelayKnows(r)
<1>1. Cluster # {}
  BY DEF Cluster
<1> QED BY <1>1 DEF OutboxInvariant, SentIsOnEveryCluster, CopiesWithinAttempts,
              DeadIsExhausted, RetriesLeft, SendsWithinAttempts, LettersAreOfTheDead,
              RowOK

LEMMA InvariantFromParts ==
  ASSUME OutboxAssumption, TypeOK', ClaimExclusive', \A e \in Events : RowOK(e)',
         \A r \in Relays : RelayKnows(r)'
  PROVE  OutboxInvariant'
<1>1. CopiesWithinAttempts'
  <2>1. ASSUME NEW e \in Events, NEW c \in Cluster
        PROVE  copies'[e][c] <= SendTries * attempts'[e] /\ attempts'[e] <= MaxAttempts
    <3>1. /\ sends'[e] \in Nat /\ attempts'[e] \in Nat /\ copies'[e][c] \in Nat
          /\ sends'[e] <= attempts'[e] /\ copies'[e][c] <= SendTries * sends'[e]
          /\ attempts'[e] <= MaxAttempts
      BY DEF RowOK, TypeOK
    <3> QED BY <3>1, RequestsBound
  <2> QED BY <2>1 DEF CopiesWithinAttempts
<1>2. dlq' \subseteq Events /\ lettered' \subseteq Events
  BY DEF TypeOK
<1>3. LettersAreOfTheDead'
  BY <1>2 DEF LettersAreOfTheDead, RowOK
<1>4. SentIsOnEveryCluster' /\ DeadIsExhausted'
  BY DEF SentIsOnEveryCluster, DeadIsExhausted, RowOK
<1>5. RetriesLeft' /\ SendsWithinAttempts'
  BY DEF RetriesLeft, SendsWithinAttempts, RowOK
<1> QED BY <1>1, <1>3, <1>4, <1>5 DEF OutboxInvariant

\* A step of r touches the rows r holds and the memory of r, nothing else.
OnlyOwnRows(r) ==
  /\ \A e \in Events : e \notin held[r] =>
       /\ status'[e] = status[e]
       /\ attempts'[e] = attempts[e]
       /\ sends'[e] = sends[e]
       /\ copies'[e] = copies[e]
       /\ e \in dlq' <=> e \in dlq
       /\ e \in lettered' <=> e \in lettered
  /\ \A q \in Relays : q # r =>
       /\ phase'[q] = phase[q]
       /\ held'[q] = held[q]
       /\ cur'[q] = cur[q]
       /\ waiting'[q] = waiting[q]
       /\ rowAttempts'[q] = rowAttempts[q]

LEMMA StepTouchesOwnRows ==
  ASSUME TypeOK, OutboxInvariant, NEW r \in Relays, Step(r)
  PROVE  OnlyOwnRows(r)
<1> USE DEF TypeOK, OnlyOwnRows, rowVars, brokerVars
<1>0. cur[r] # 0 => cur[r] \in held[r]
  BY DEF OutboxInvariant, RelayKnows
<1>a. phase[r] \in {"sending", "markSent", "markFailed", "deadLetter"} => cur[r] \in held[r]
  BY <1>0 DEF OutboxInvariant, RelayKnows
<1>1. CASE ClaimSelect(r)
  BY <1>1 DEF ClaimSelect
<1>2. CASE ClaimCommit(r)
  BY <1>2 DEF ClaimCommit, TakeRows
<1>3. CASE ClaimError(r)
  BY <1>3 DEF ClaimError, TakeRows, AbandonTick
<1>4. CASE \E e \in Events : StartPublish(r, e)
  BY <1>4 DEF StartPublish
<1>5. CASE (\E c \in Cluster : Ack(r, c)) \/ Reject(r)
  BY <1>5, <1>a DEF Ack, Reject, AppendCopy
<1>6. CASE MarkSent(r)
  BY <1>6, <1>a DEF MarkSent, SetSent, NextRow
<1>7. CASE MarkSentError(r)
  BY <1>7, <1>a DEF MarkSentError, SetSent
<1>8. CASE MarkFailed(r)
  BY <1>8, <1>a DEF MarkFailed, SetFailed, NextRow
<1>9. CASE MarkFailedError(r)
  BY <1>9, <1>a DEF MarkFailedError, SetFailed, AbandonTick
<1>10. CASE DeadLetter(r)
  BY <1>10, <1>a DEF DeadLetter, NextRow
<1>11. CASE Crash(r)
  BY <1>11 DEF Crash, AbandonTick
<1> QED BY <1>1, <1>2, <1>3, <1>4, <1>5, <1>6, <1>7, <1>8, <1>9, <1>10, <1>11
        DEF Step

\* So the other relays still know what they knew, and their rows are in order.
LEMMA OthersUndisturbed ==
  ASSUME TypeOK, OutboxInvariant, NEW r \in Relays, OnlyOwnRows(r)
  PROVE  /\ \A q \in Relays : q # r => RelayKnows(q)'
         /\ \A e \in Events : e \notin held[r] => RowOK(e)'
<1>1. ASSUME NEW q \in Relays, q # r PROVE RelayKnows(q)'
  <2>1. \A e \in held[q] : e \in Events /\ e \notin held[r]
    BY <1>1 DEF TypeOK, OutboxInvariant, ClaimExclusive
  <2>2. RelayKnows(q)
    BY DEF OutboxInvariant
  <2>3. /\ phase'[q] = phase[q] /\ held'[q] = held[q] /\ cur'[q] = cur[q]
        /\ rowAttempts'[q] = rowAttempts[q] /\ waiting'[q] = waiting[q]
    BY <1>1 DEF OnlyOwnRows
  <2>4. \A e \in held[q] : /\ status'[e] = status[e] /\ attempts'[e] = attempts[e]
                           /\ sends'[e] = sends[e] /\ copies'[e] = copies[e]
    BY <2>1 DEF OnlyOwnRows
  <2> QED BY <2>2, <2>3, <2>4 DEF RelayKnows
<1>2. ASSUME NEW e \in Events, e \notin held[r] PROVE RowOK(e)'
  <2>1. RowOK(e)
    BY InvariantParts
  <2> QED BY <1>2, <2>1 DEF RowOK, OnlyOwnRows
<1> QED BY <1>1, <1>2

\* What the step of r does to the rows r holds and to what r knows.
OwnInOrder(r) == RelayKnows(r)' /\ \A e \in held[r] : RowOK(e)'

LEMMA ClaimKeepsOrder ==
  ASSUME TypeOK, OutboxInvariant, OutboxAssumption, NEW r \in Relays,
         ClaimSelect(r) \/ ClaimCommit(r) \/ ClaimError(r)
  PROVE  OwnInOrder(r)
<1> USE DEF TypeOK, OwnInOrder, rowVars, brokerVars, OutboxAssumption
<1>0. RelayKnows(r) /\ \A e \in held[r] : RowOK(e)
  BY InvariantParts
<1>1. CASE ClaimSelect(r)
  <2>1. \A e \in held'[r] : e \in Events /\ status[e] \in {"PENDING", "FAILED"}
    BY <1>1 DEF ClaimSelect, Oldest, Claimable
  <2>2. cur'[r] = 0 /\ phase'[r] = "claiming" /\ waiting'[r] = {}
    BY <1>0, <1>1 DEF ClaimSelect, RelayKnows
  <2>3. \A e \in held'[r] : e # cur'[r]
    BY <2>1, <2>2 DEF Events
  <2>4. status' = status
    BY <1>1 DEF ClaimSelect
  <2>5. RelayKnows(r)'
    BY <2>1, <2>2, <2>3, <2>4 DEF RelayKnows
  <2> QED BY <1>0, <1>1, <2>5 DEF ClaimSelect, RowOK
<1>2. CASE ClaimCommit(r)
  <2>1. /\ phase[r] = "claiming" /\ cur[r] = 0 /\ waiting[r] = {}
        /\ cur' = cur /\ held' = held /\ waiting' = waiting /\ phase'[r] = "publish"
    BY <1>0, <1>2 DEF ClaimCommit, TakeRows, RelayKnows
  <2>2. \A e \in held[r] :
           /\ e \in Events /\ status'[e] = "IN_FLIGHT"
           /\ attempts[e] \in Nat /\ attempts'[e] = attempts[e] + 1
           /\ attempts[e] < MaxAttempts /\ status[e] # "DEAD"
           /\ copies' = copies /\ sends' = sends /\ lettered' = lettered /\ dlq' = dlq
           /\ rowAttempts'[r][e] = attempts'[e]
    BY <1>0, <1>2 DEF ClaimCommit, TakeRows, RelayKnows, RowOK
  <2>3. \A e \in held[r] : sends[e] \in Nat /\ sends[e] <= attempts[e]
    BY <1>0 DEF RowOK
  <2>4. \A e \in held[r] : RowOK(e)'
    BY <1>0, <2>2, <2>3 DEF RowOK
  <2>5. RelayKnows(r)'
    <3>1. \A e \in held'[r] : e # cur'[r]
      BY <2>1 DEF Events
    <3> QED BY <2>1, <2>2, <2>3, <3>1 DEF RelayKnows
  <2> QED BY <2>4, <2>5
<1>3. CASE ClaimError(r)
  <2>1. phase'[r] = "idle" /\ held'[r] = {} /\ cur'[r] = 0 /\ waiting'[r] = {}
    BY <1>3 DEF ClaimError, AbandonTick
  <2>2. RelayKnows(r)'
    BY <2>1 DEF RelayKnows
  <2>3. ASSUME NEW e \in held[r] PROVE RowOK(e)'
    <3>1. /\ RowOK(e) /\ UNCHANGED <<sends, copies, lettered, dlq>> /\ e \in Events
          /\ attempts[e] \in Nat /\ sends[e] \in Nat
      BY <1>0, <1>3 DEF ClaimError
    <3>2. CASE UNCHANGED rowVars
      BY <3>1, <3>2 DEF RowOK
    <3>3. CASE TakeRows(r)
      <4>1. /\ status'[e] = "IN_FLIGHT" /\ attempts'[e] = attempts[e] + 1
            /\ status[e] \in {"PENDING", "FAILED"}
        BY <1>0, <3>3 DEF TakeRows, RelayKnows
      <4> QED BY <3>1, <4>1 DEF RowOK
    <3> QED BY <1>3, <3>2, <3>3 DEF ClaimError
  <2> QED BY <2>2, <2>3
<1> QED BY <1>1, <1>2, <1>3

\* A publish begins: the row has had fewer publishes than claims.
LEMMA PublishKeepsOrder ==
  ASSUME TypeOK, OutboxInvariant, OutboxAssumption, NEW r \in Relays, NEW e \in held[r],
         StartPublish(r, e)
  PROVE  OwnInOrder(r)
<1>a. RelayKnows(r) /\ \A f \in held[r] : RowOK(f) /\ f \in Events
  BY InvariantParts DEF TypeOK
<1>0. /\ RelayKnows(r) /\ \A f \in held[r] : RowOK(f) /\ f \in Events
      /\ phase[r] = "publish" /\ cur[r] = 0 /\ e # 0 /\ e \in Events
  BY <1>a DEF StartPublish, RelayKnows, Events
<1>1. /\ status' = status /\ attempts' = attempts /\ copies' = copies
      /\ lettered' = lettered /\ dlq' = dlq
      /\ held' = held /\ rowAttempts' = rowAttempts
      /\ cur'[r] = e /\ phase'[r] = "sending" /\ waiting'[r] = ClustersOf(e)
      /\ sends'[e] = sends[e] + 1 /\ \A f \in held[r] \ {e} : sends'[f] = sends[f]
  BY <1>0 DEF StartPublish, rowVars, TypeOK
<1>2. \A f \in held[r] : /\ status[f] = "IN_FLIGHT" /\ rowAttempts[r][f] = attempts[f]
                         /\ sends[f] < attempts[f]
  BY <1>0 DEF RelayKnows, Events
<1>3. \A f \in held[r] \ {e} : RowOK(f)'
  BY <1>0, <1>1 DEF RowOK
<1>4. RowOK(e)'
  <2>1. /\ sends[e] \in Nat /\ attempts[e] \in Nat
        /\ sends[e] + 1 \in Nat /\ sends[e] + 1 <= attempts[e]
    BY <1>0, <1>2 DEF TypeOK
  <2>2. \A c \in Cluster : copies[e][c] <= SendTries * (sends[e] + 1)
    <3>1. /\ SendTries * sends[e] \in Nat /\ SendTries * (sends[e] + 1) \in Nat
          /\ SendTries * sends[e] <= SendTries * (sends[e] + 1)
      BY <2>1, RequestsGrow
    <3>2. \A c \in Cluster : copies[e][c] \in Nat /\ copies[e][c] <= SendTries * sends[e]
      BY <1>0 DEF RowOK, TypeOK
    <3> HIDE DEF OutboxAssumption
    <3> QED BY <3>1, <3>2
  <2>3. RowOK(e)
    BY <1>0
  <2> QED BY <1>1, <1>2, <2>1, <2>2, <2>3 DEF RowOK
<1>5. RelayKnows(r)'
  <2>1. \A f \in held'[r] : rowAttempts'[r][f] = attempts'[f] /\ status'[f] = "IN_FLIGHT"
    BY <1>1, <1>2
  <2>2. \A f \in held'[r] : f # cur'[r] => sends'[f] < attempts'[f]
    BY <1>1, <1>2
  <2>3. /\ cur'[r] = e /\ e \in held'[r] /\ e # 0 /\ phase'[r] = "sending"
        /\ waiting'[r] = ClustersOf(e)
    BY <1>0, <1>1
  <2> QED BY <2>1, <2>2, <2>3 DEF RelayKnows
<1> QED BY <1>3, <1>4, <1>5 DEF OwnInOrder

\* A cluster answers, or a send throws, and the relay hears of it.
LEMMA AnswerKeepsOrder ==
  ASSUME TypeOK, OutboxInvariant, OutboxAssumption, NEW r \in Relays,
         (\E c \in Cluster : Ack(r, c)) \/ Reject(r)
  PROVE  OwnInOrder(r)
<1>0. /\ RelayKnows(r) /\ \A f \in held[r] : RowOK(f) /\ f \in Events
      /\ phase[r] = "sending" /\ cur[r] # 0 /\ cur[r] \in held[r] /\ cur[r] \in Events
      /\ status[cur[r]] = "IN_FLIGHT" /\ waiting[r] \subseteq ClustersOf(cur[r])
  BY InvariantParts DEF Ack, Reject, TypeOK, RelayKnows
<1>1. /\ UNCHANGED <<status, attempts, sends, lettered, dlq, held, cur, rowAttempts>>
  BY DEF Ack, Reject, rowVars, brokerVars
<1>2. CASE Reject(r)
  <2>1. phase'[r] = "markFailed" /\ waiting'[r] = {} /\ copies' = copies
    BY <1>2 DEF Reject, brokerVars, TypeOK
  <2> QED BY <1>0, <1>1, <2>1 DEF OwnInOrder, RowOK, RelayKnows
<1>3. ASSUME NEW c \in Cluster, Ack(r, c) PROVE OwnInOrder(r)
  <2>1. /\ waiting'[r] = waiting[r] \ {c}
        /\ phase'[r] = IF waiting[r] = {c} THEN "markSent" ELSE "sending"
        /\ c \in waiting[r] /\ copies[cur[r]][c] < SendTries * sends[cur[r]]
    BY <1>3 DEF Ack, MayLand, TypeOK
  <2>2. /\ \A f \in held[r] \ {cur[r]} : copies'[f] = copies[f]
        /\ \A d \in Cluster \ {c} : copies'[cur[r]][d] = copies[cur[r]][d]
        /\ copies'[cur[r]][c] = copies[cur[r]][c] + 1
        /\ \A d \in Cluster : copies[cur[r]][d] \in Nat
    BY <1>0, <1>3 DEF Ack, AppendCopy, TypeOK
  <2>3. SendTries * sends[cur[r]] \in Nat
    BY <1>0, RequestsGrow DEF TypeOK
  <2>4. \A d \in Cluster : copies'[cur[r]][d] <= SendTries * sends[cur[r]]
    BY <1>0, <2>1, <2>2, <2>3 DEF RowOK
  <2>5. \A f \in held[r] : RowOK(f)'
    <3>1. \A f \in held[r] \ {cur[r]} : RowOK(f)'
      BY <1>0, <1>1, <2>2 DEF RowOK
    <3>2. RowOK(cur[r])
      BY <1>0
    <3>3. RowOK(cur[r])'
      BY <1>0, <1>1, <2>4, <3>2 DEF RowOK
    <3> QED BY <1>1, <3>1, <3>3
  <2>6. \A d \in ClustersOf(cur[r]) \ waiting'[r] : copies'[cur[r]][d] > 0
    <3>1. \A d \in ClustersOf(cur[r]) \ waiting[r] : copies[cur[r]][d] > 0
      BY <1>0 DEF RelayKnows
    <3> QED BY <2>1, <2>2, <3>1, ClustersOfIsSubset
  <2>7. phase'[r] = "markSent" => waiting'[r] = {}
    BY <2>1
  <2>8. RelayKnows(r)'
    <3>1. CASE phase'[r] = "sending"
      BY <1>0, <1>1, <2>1, <2>6, <3>1 DEF RelayKnows
    <3>2. CASE phase'[r] = "markSent"
      BY <1>0, <1>1, <2>1, <2>6, <2>7, <3>2 DEF RelayKnows
    <3> QED BY <2>1, <3>1, <3>2
  <2> QED BY <2>5, <2>8 DEF OwnInOrder
<1> QED BY <1>2, <1>3

LEMMA AbandonedRelayKnows ==
  ASSUME TypeOK, NEW r \in Relays, AbandonTick(r)
  PROVE  RelayKnows(r)'
<1>1. phase'[r] = "idle" /\ held'[r] = {} /\ cur'[r] = 0 /\ waiting'[r] = {}
  BY DEF AbandonTick, TypeOK
<1> QED BY <1>1 DEF RelayKnows

\* Finishing the current row leaves the rest of the batch as it was.
LEMMA NextRowRelayKnows ==
  ASSUME TypeOK, NEW r \in Relays, RelayKnows(r), NextRow(r), cur[r] # 0,
         phase[r] # "sending",
         \A e \in held[r] \ {cur[r]} :
           status'[e] = status[e] /\ attempts'[e] = attempts[e] /\ sends'[e] = sends[e]
  PROVE  RelayKnows(r)'
<1>1. /\ held'[r] = held[r] \ {cur[r]} /\ cur'[r] = 0 /\ rowAttempts' = rowAttempts
      /\ phase'[r] = IF held[r] \subseteq {cur[r]} THEN "idle" ELSE "publish"
      /\ waiting'[r] = {}
  BY DEF NextRow, TypeOK, RelayKnows
<1>2. \A e \in held'[r] :
        /\ status'[e] = "IN_FLIGHT" /\ rowAttempts'[r][e] = attempts'[e]
        /\ sends'[e] < attempts'[e]
        /\ e \in Events /\ e # 0
  BY <1>1 DEF RelayKnows, TypeOK, Events
<1> QED BY <1>1, <1>2 DEF RelayKnows

LEMMA MarkSentKeepsOrder ==
  ASSUME TypeOK, OutboxInvariant, NEW r \in Relays, MarkSent(r) \/ MarkSentError(r)
  PROVE  OwnInOrder(r)
<1>0. /\ RelayKnows(r) /\ \A e \in held[r] : RowOK(e) /\ e \in Events
      /\ phase[r] = "markSent"
  BY InvariantParts DEF MarkSent, MarkSentError, TypeOK
<1>1. /\ cur[r] \in held[r] /\ cur[r] # 0
      /\ \A c \in ClustersOf(cur[r]) : copies[cur[r]][c] > 0
      /\ status[cur[r]] = "IN_FLIGHT" /\ waiting[r] = {}
  BY <1>0 DEF RelayKnows
<1>2. /\ UNCHANGED <<attempts, sends, copies, lettered, dlq>>
      /\ \A e \in held[r] \ {cur[r]} : status'[e] = status[e]
      /\ status'[cur[r]] \in {"IN_FLIGHT", "SENT"}
  BY <1>0, <1>1 DEF MarkSent, MarkSentError, SetSent, rowVars, brokerVars, TypeOK
<1>3. \A e \in held[r] : RowOK(e)'
  BY <1>0, <1>1, <1>2 DEF RowOK
<1>4. RelayKnows(r)'
  <2>1. CASE MarkSent(r)
    BY <1>0, <1>1, <1>2, <2>1, NextRowRelayKnows DEF MarkSent
  <2>2. CASE MarkSentError(r)
    <3>1. /\ phase'[r] = "markFailed" /\ held' = held /\ cur' = cur
          /\ rowAttempts' = rowAttempts /\ waiting' = waiting
      BY <2>2 DEF MarkSentError, TypeOK
    <3> QED BY <1>0, <1>1, <1>2, <3>1 DEF RelayKnows
  <2> QED BY <2>1, <2>2
<1> QED BY <1>3, <1>4 DEF OwnInOrder

\* markFailed's two UPDATEs on a row whose attempts it knows; a letter is asked
\* for none but that row, and only when it is given up.
LEMMA SetFailedRows ==
  ASSUME TypeOK, OutboxInvariant, OutboxAssumption, NEW r \in Relays,
         phase[r] = "markFailed", SetFailed(cur[r], rowAttempts[r][cur[r]]),
         UNCHANGED <<sends, copies, dlq>>,
         \/ lettered' = lettered
         \/ rowAttempts[r][cur[r]] >= MaxAttempts /\ lettered' = lettered \cup {cur[r]}
  PROVE  /\ attempts' = attempts
         /\ \A e \in held[r] : RowOK(e)'
         /\ \A e \in held[r] \ {cur[r]} : status'[e] = status[e]
         /\ rowAttempts[r][cur[r]] >= MaxAttempts => status'[cur[r]] = "DEAD"
<1>0. RelayKnows(r) /\ \A e \in held[r] : RowOK(e) /\ e \in Events /\ attempts[e] \in Nat
  BY InvariantParts DEF TypeOK
<1>1. /\ cur[r] \in held[r] /\ rowAttempts[r][cur[r]] = attempts[cur[r]]
      /\ status[cur[r]] \in {"IN_FLIGHT", "SENT"}
  BY <1>0 DEF RelayKnows
<1>2. attempts' = attempts
  BY <1>0, <1>1 DEF SetFailed, TypeOK
<1>3. /\ \A e \in held[r] \ {cur[r]} : status'[e] = status[e]
      /\ status'[cur[r]] = IF attempts[cur[r]] >= MaxAttempts THEN "DEAD" ELSE "FAILED"
  BY <1>0, <1>1 DEF SetFailed, TypeOK
<1>4. /\ sends' = sends /\ copies' = copies /\ dlq' = dlq
      /\ \A e \in held[r] \ {cur[r]} : e \in lettered' <=> e \in lettered
      /\ cur[r] \in lettered' =>
           cur[r] \in lettered \/ attempts[cur[r]] >= MaxAttempts
  BY <1>1
<1>5. ASSUME NEW e \in held[r] PROVE RowOK(e)'
  <2>1. CASE e # cur[r]
    BY <1>0, <1>2, <1>3, <1>4, <2>1 DEF RowOK
  <2>2. CASE e = cur[r]
    <3>1. e \notin dlq /\ e \notin lettered /\ attempts[e] <= MaxAttempts
      BY <1>0, <1>1, <2>2 DEF RowOK
    <3>2. RowOK(e)
      BY <1>0
    <3> QED BY <1>0, <1>2, <1>3, <1>4, <2>2, <3>1, <3>2 DEF RowOK, OutboxAssumption
  <2> QED BY <2>1, <2>2
<1> QED BY <1>1, <1>2, <1>3, <1>5

LEMMA MarkFailedKeepsOrder ==
  ASSUME TypeOK, OutboxInvariant, OutboxAssumption, NEW r \in Relays,
         MarkFailed(r) \/ MarkFailedError(r)
  PROVE  OwnInOrder(r)
<1>0. /\ RelayKnows(r) /\ \A e \in held[r] : RowOK(e) /\ e \in Events
      /\ phase[r] = "markFailed" /\ UNCHANGED <<sends, copies, dlq>>
      /\ cur[r] \in held[r] /\ cur[r] # 0 /\ waiting[r] = {}
  BY InvariantParts DEF MarkFailed, MarkFailedError, TypeOK, RelayKnows, brokerVars
<1>1. CASE MarkFailed(r)
  <2>1. /\ attempts' = attempts
        /\ \A e \in held[r] : RowOK(e)'
        /\ \A e \in held[r] \ {cur[r]} : status'[e] = status[e]
        /\ rowAttempts[r][cur[r]] >= MaxAttempts => status'[cur[r]] = "DEAD"
    BY <1>0, <1>1, SetFailedRows DEF MarkFailed
  <2>2. CASE rowAttempts[r][cur[r]] >= MaxAttempts
    <3>1. /\ phase'[r] = "deadLetter" /\ held' = held /\ cur' = cur
          /\ rowAttempts' = rowAttempts /\ waiting' = waiting
      BY <1>1, <2>2 DEF MarkFailed, TypeOK
    <3>2. RelayKnows(r)'
      BY <1>0, <2>1, <2>2, <3>1 DEF RelayKnows
    <3> QED BY <2>1, <3>2 DEF OwnInOrder
  <2>3. CASE ~(rowAttempts[r][cur[r]] >= MaxAttempts)
    BY <1>0, <1>1, <2>1, <2>3, NextRowRelayKnows DEF MarkFailed, OwnInOrder
  <2> QED BY <2>2, <2>3
<1>2. CASE MarkFailedError(r)
  <2>0. lettered' = lettered
    BY <1>2 DEF MarkFailedError, brokerVars
  <2>1. RelayKnows(r)'
    BY <1>2, AbandonedRelayKnows DEF MarkFailedError
  <2>2. CASE UNCHANGED rowVars
    BY <1>0, <2>0, <2>1, <2>2 DEF OwnInOrder, RowOK, rowVars
  <2>3. CASE SetFailed(cur[r], rowAttempts[r][cur[r]])
    BY <1>0, <2>0, <2>1, <2>3, SetFailedRows DEF OwnInOrder
  <2> QED BY <1>2, <2>2, <2>3 DEF MarkFailedError
<1> QED BY <1>1, <1>2

LEMMA DeadLetterKeepsOrder ==
  ASSUME TypeOK, OutboxInvariant, NEW r \in Relays, DeadLetter(r)
  PROVE  OwnInOrder(r)
<1>0. /\ RelayKnows(r) /\ \A e \in held[r] : RowOK(e)
      /\ phase[r] = "deadLetter"
  BY InvariantParts DEF DeadLetter, TypeOK
<1>1. cur[r] # 0
  BY <1>0 DEF RelayKnows
<1>2. UNCHANGED <<status, attempts, sends, copies, lettered, dlq>>
  BY DEF DeadLetter, rowVars, brokerVars
<1>3. \A e \in held[r] : RowOK(e)'
  BY <1>0, <1>2 DEF RowOK
<1>4. RelayKnows(r)'
  BY <1>0, <1>1, <1>2, NextRowRelayKnows DEF DeadLetter
<1> QED BY <1>3, <1>4 DEF OwnInOrder

LEMMA CrashKeepsOrder ==
  ASSUME TypeOK, OutboxInvariant, NEW r \in Relays, Crash(r)
  PROVE  OwnInOrder(r)
<1>0. \A e \in held[r] : RowOK(e)
  BY InvariantParts DEF TypeOK
<1>1. RelayKnows(r)'
  BY AbandonedRelayKnows DEF Crash
<1>2. UNCHANGED <<status, attempts, sends, copies, lettered, dlq>>
  BY DEF Crash, rowVars, brokerVars
<1> QED BY <1>0, <1>1, <1>2 DEF OwnInOrder, RowOK

LEMMA StepKeepsOrder ==
  ASSUME TypeOK, OutboxInvariant, OutboxAssumption, NEW r \in Relays, Step(r)
  PROVE  OwnInOrder(r)
<1>1. \A e \in Events : StartPublish(r, e) => e \in held[r]
  BY DEF StartPublish
<1> QED BY <1>1, ClaimKeepsOrder, PublishKeepsOrder, AnswerKeepsOrder,
          MarkSentKeepsOrder, MarkFailedKeepsOrder, DeadLetterKeepsOrder,
          CrashKeepsOrder DEF Step

\* Only a claim adds rows to a relay, and it takes none that another holds.
LEMMA StepKeepsExclusive ==
  ASSUME TypeOK, OutboxInvariant, NEW r \in Relays, Step(r), OnlyOwnRows(r)
  PROVE  ClaimExclusive'
<1>1. ASSUME NEW q \in Relays, q # r PROVE held'[r] \cap held[q] = {}
  <2>1. CASE ClaimSelect(r)
    <3>1. \A e \in held'[r] : e \in Events /\ Claimable(e)
      BY <2>1 DEF ClaimSelect, Oldest, TypeOK
    <3>2. \A e \in held[q] : e \in Locked \/ status[e] \notin {"PENDING", "FAILED"}
      <4>1. RelayKnows(q)
        BY DEF OutboxInvariant
      <4>2. phase[q] = "claiming" => held[q] \subseteq Locked
        BY DEF Locked
      <4> QED BY <4>1, <4>2 DEF RelayKnows
    <3> QED BY <3>1, <3>2 DEF Claimable
  <2>2. CASE ~ClaimSelect(r)
    <3>1. held'[r] \subseteq held[r]
      BY <2>2 DEF Step, TypeOK, ClaimCommit, ClaimError, StartPublish, Ack, Reject,
              MarkSent, MarkSentError, MarkFailed, MarkFailedError, DeadLetter,
              Crash, NextRow, AbandonTick
    <3> QED BY <1>1, <3>1 DEF OutboxInvariant, ClaimExclusive
  <2> QED BY <2>1, <2>2
<1>2. \A q \in Relays : q # r => held'[q] = held[q]
  BY DEF OnlyOwnRows
<1> QED BY <1>1, <1>2 DEF OutboxInvariant, ClaimExclusive

\* Steps of no relay: an event arrives, a delay runs out, a copy or a letter
\* lands, perhaps long after the relay that sent it has gone on.
LEMMA ElsewhereKeepsInvariant ==
  ASSUME TypeOK, TypeOK', OutboxInvariant, OutboxAssumption, NEW e \in Events, Elsewhere(e)
  PROVE  OutboxInvariant'
<1>0. /\ \A f \in Events : RowOK(f)
      /\ \A r \in Relays : RelayKnows(r) /\ held[r] \subseteq Events
      /\ ClaimExclusive
  BY InvariantParts DEF TypeOK
<1>1. attempts' = attempts /\ sends' = sends /\ lettered' = lettered /\ UNCHANGED relayVars
  BY DEF Elsewhere, Enqueue, BecomeDue, LetterLands, Append, rowVars, brokerVars
<1>2. \A f \in Events : \/ status'[f] = status[f]
                        \/ status[f] = "ABSENT" /\ status'[f] = "PENDING"
  BY DEF Elsewhere, Enqueue, BecomeDue, LetterLands, Append, rowVars, TypeOK
<1>3. dlq' \subseteq dlq \cup lettered
  BY DEF Elsewhere, Enqueue, BecomeDue, LetterLands, Append, brokerVars
<1>4. \A f \in Events, c \in Cluster :
         /\ copies[f][c] \in Nat /\ copies'[f][c] \in Nat
         /\ copies'[f][c] >= copies[f][c]
         /\ copies'[f][c] <= SendTries * sends[f]
  <2>1. ASSUME copies' = copies
        PROVE  \A f \in Events, c \in Cluster :
                 /\ copies[f][c] \in Nat /\ copies'[f][c] \in Nat
                 /\ copies'[f][c] >= copies[f][c]
                 /\ copies'[f][c] <= SendTries * sends[f]
    BY <1>0, <2>1 DEF RowOK, TypeOK
  <2>2. CASE copies' = copies
    BY <2>1, <2>2
  <2>3. CASE \E d \in Cluster : Append(e, d)
    <3>1. PICK d \in Cluster : Append(e, d)
      BY <2>3
    <3>2. ASSUME NEW f \in Events, NEW c \in Cluster
          PROVE  /\ copies[f][c] \in Nat /\ copies'[f][c] \in Nat
                 /\ copies'[f][c] >= copies[f][c]
                 /\ copies'[f][c] <= SendTries * sends[f]
      <4>1. copies[f][c] \in Nat /\ copies[f][c] <= SendTries * sends[f]
        BY <1>0 DEF RowOK, TypeOK
      <4>2. SendTries * sends[f] \in Nat
        BY RequestsGrow DEF TypeOK
      <4>3. CASE f = e /\ c = d
        <5>1. copies[f][c] < SendTries * sends[f] /\ copies'[f][c] = copies[f][c] + 1
          BY <3>1, <4>3 DEF Append, MayLand, AppendCopy, TypeOK
        <5> QED BY <4>1, <4>2, <5>1
      <4>4. CASE ~(f = e /\ c = d)
        <5>1. copies'[f][c] = copies[f][c]
          BY <3>1, <4>4 DEF Append, AppendCopy, TypeOK
        <5> QED BY <4>1, <5>1
      <4> QED BY <4>3, <4>4
    <3> QED BY <3>2
  <2> QED BY <2>2, <2>3 DEF Elsewhere, Enqueue, BecomeDue, LetterLands, brokerVars
<1>5. ASSUME NEW f \in Events PROVE RowOK(f)'
  <2>1. RowOK(f)
    BY <1>0
  <2>2. /\ attempts'[f] = attempts[f] /\ sends'[f] = sends[f]
        /\ f \in dlq' => f \in lettered'
        /\ f \in lettered' => status'[f] = "DEAD"
    BY <1>1, <1>2, <1>3, <2>1 DEF RowOK
  <2>3. status'[f] = "SENT" => \A c \in ClustersOf(f) : copies'[f][c] > 0
    <3>1. ASSUME status'[f] = "SENT", NEW c \in ClustersOf(f) PROVE copies'[f][c] > 0
      <4>1. copies[f][c] > 0
        BY <1>2, <2>1, <3>1 DEF RowOK
      <4>2. c \in Cluster
        BY ClustersOfIsSubset
      <4> QED BY <1>4, <4>1, <4>2
    <3> QED BY <3>1
  <2>4. \A c \in Cluster : copies'[f][c] <= SendTries * sends'[f]
    BY <1>1, <1>4
  <2> QED BY <1>2, <2>1, <2>2, <2>3, <2>4 DEF RowOK
<1>6. ASSUME NEW r \in Relays PROVE RelayKnows(r)'
  <2>1. /\ RelayKnows(r) /\ held[r] \subseteq Events
        /\ UNCHANGED <<phase[r], held[r], cur[r], waiting[r], rowAttempts[r]>>
    BY <1>0, <1>1 DEF relayVars
  <2>2. \A f \in held[r] : status[f] # "ABSENT"
    BY <2>1 DEF RelayKnows
  <2>3. \A f \in held[r] : status'[f] = status[f]
    BY <1>2, <2>1, <2>2
  <2>4. ASSUME phase[r] \in {"sending", "markSent"},
               NEW c \in ClustersOf(cur[r]) \ waiting[r]
        PROVE  copies'[cur[r]][c] > 0
    <3>1. cur[r] \in Events /\ cur[r] \in held[r]
      BY <2>1, <2>4 DEF RelayKnows
    <3>2. copies[cur[r]][c] > 0 /\ c \in Cluster
      BY <2>1, <2>4, <3>1, ClustersOfIsSubset DEF RelayKnows
    <3> QED BY <1>4, <3>1, <3>2
  <2> QED BY <1>1, <2>1, <2>3, <2>4 DEF RelayKnows
<1>7. ClaimExclusive'
  BY <1>0, <1>1 DEF ClaimExclusive, relayVars
<1> QED BY <1>5, <1>6, <1>7, InvariantFromParts

\* The relays never share a row, a SENT row is on every cluster of its topic,
\* duplicates stay within the attempts, and only exhausted rows are DEAD or
\* dead-lettered, whatever crashes and database errors happen (outbox.ts:
\* claimPendingEvents to publishOutboxDeadLetter).
THEOREM OutboxSafe == Spec => []OutboxInvariant
<1>1. Init => OutboxInvariant
  <2> SUFFICES ASSUME Init PROVE OutboxInvariant
    OBVIOUS
  <2>1. SendTries * 0 = 0 /\ MaxAttempts \in Nat \ {0}
    BY OutboxAssumption DEF OutboxAssumption
  <2>2. SentIsOnEveryCluster /\ CopiesWithinAttempts /\ DeadIsExhausted
    BY <2>1 DEF Init, SentIsOnEveryCluster, CopiesWithinAttempts, DeadIsExhausted
  <2>3. RetriesLeft /\ SendsWithinAttempts /\ LettersAreOfTheDead
    BY <2>1 DEF Init, RetriesLeft, SendsWithinAttempts, LettersAreOfTheDead
  <2>4. ClaimExclusive /\ \A r \in Relays : RelayKnows(r)
    BY DEF Init, ClaimExclusive, RelayKnows
  <2> QED BY <2>2, <2>3, <2>4 DEF OutboxInvariant
<1>2. TypeOK /\ TypeOK' /\ OutboxInvariant /\ [Next]_vars => OutboxInvariant'
  <2> SUFFICES ASSUME TypeOK, TypeOK', OutboxInvariant, [Next]_vars
               PROVE  OutboxInvariant'
    OBVIOUS
  <2>1. ASSUME NEW r \in Relays, Step(r) PROVE OutboxInvariant'
    <3>1. OnlyOwnRows(r)
      BY <2>1, StepTouchesOwnRows
    <3>2. OwnInOrder(r) /\ ClaimExclusive'
      BY <2>1, <3>1, StepKeepsOrder, StepKeepsExclusive, OutboxAssumption
    <3>3. (\A e \in Events : RowOK(e)') /\ \A q \in Relays : RelayKnows(q)'
      BY <3>1, <3>2, OthersUndisturbed DEF OwnInOrder
    <3> QED BY <3>2, <3>3, OutboxAssumption, InvariantFromParts
  <2>2. CASE UNCHANGED vars
    BY <2>2 DEF vars, rowVars, brokerVars, relayVars, OutboxInvariant, ClaimExclusive,
            SentIsOnEveryCluster, CopiesWithinAttempts, DeadIsExhausted, RetriesLeft,
            SendsWithinAttempts, LettersAreOfTheDead, RelayKnows
  <2>3. ASSUME NEW e \in Events, Elsewhere(e) PROVE OutboxInvariant'
    BY <2>3, OutboxAssumption, ElsewhereKeepsInvariant
  <2> QED BY <2>1, <2>2, <2>3, NextCases
<1> QED BY <1>1, <1>2, TypeCorrect, PTL DEF Spec

\* An unsettled row is in one relay's hands at most, however many replicas run.
THEOREM ClaimsAreExclusive == Spec => []ClaimExclusive
<1>1. OutboxInvariant => ClaimExclusive
  BY DEF OutboxInvariant
<1> QED BY <1>1, OutboxSafe, PTL

\* A row is marked SENT only when every configured cluster has the event.
THEOREM SentMeansDelivered == Spec => []SentIsOnEveryCluster
<1>1. OutboxInvariant => SentIsOnEveryCluster
  BY DEF OutboxInvariant
<1> QED BY <1>1, OutboxSafe, PTL

\* A broker holds no more copies of an event than the requests that the claims
\* made for it allow, late and repeated ones included.
THEOREM DuplicatesAreBounded == Spec => []CopiesWithinAttempts
<1>1. OutboxInvariant => CopiesWithinAttempts
  BY DEF OutboxInvariant
<1> QED BY <1>1, OutboxSafe, PTL

\* A row is given up only with its attempts spent, and dlq-events holds only
\* events given up.
THEOREM OnlyExhaustedRowsDie == Spec => []DeadIsExhausted
<1>1. OutboxInvariant => DeadIsExhausted
  BY DEF OutboxInvariant
<1> QED BY <1>1, OutboxSafe, PTL

-----------------------------------------------------------------------------
(* Steps seen from the brokers and from the promise.                       *)

\* No publish begins for a row that is settled or waits for its retry delay.
THEOREM PublishesOnlyClaimedRows == Spec => PublishOnlyWhileClaimed
<1>1. ASSUME TypeOK, OutboxInvariant, [Next]_vars, NEW e \in Events,
             sends'[e] # sends[e]
      PROVE  status[e] = "IN_FLIGHT"
  <2>1. Next
    BY <1>1 DEF vars, brokerVars
  <2>2. ~(\E f \in Events : Elsewhere(f))
    BY <1>1 DEF Elsewhere, Enqueue, BecomeDue, LetterLands, Append, brokerVars
  <2>3. PICK r \in Relays : Step(r)
    BY <2>1, <2>2, NextCases
  <2>4. e \in held[r] /\ phase[r] = "publish"
    BY <1>1, <2>3 DEF Step, ClaimSelect, ClaimCommit, ClaimError, StartPublish, Ack,
            Reject, MarkSent, MarkSentError, MarkFailed, MarkFailedError,
            DeadLetter, Crash, brokerVars, TypeOK
  <2> QED BY <1>1, <2>4 DEF OutboxInvariant, RelayKnows, Events
<1>2. TypeOK /\ OutboxInvariant /\ [Next]_vars =>
        [\A e \in Events : sends'[e] # sends[e] => status[e] = "IN_FLIGHT"]_vars
  BY <1>1
<1> QED BY <1>2, TypeCorrect, OutboxSafe, PTL DEF Spec, PublishOnlyWhileClaimed

LEMMA BeginRefines ==
  ASSUME TypeOK, OutboxInvariant, OutboxAssumption, NEW r \in Relays, NEW e \in Events,
         StartPublish(r, e)
  PROVE  Delivery!Begin(e)
<1>1. /\ status[e] = "IN_FLIGHT" /\ sends[e] < attempts[e]
      /\ UNCHANGED <<status, attempts, copies>>
      /\ sends' = [sends EXCEPT ![e] = @ + 1]
  BY DEF StartPublish, rowVars, OutboxInvariant, RelayKnows, Events
<1>2. StatusPromise(e) = "pending"
  BY <1>1 DEF StatusPromise
<1>3. \A f \in Events : StatusPromise(f)' = StatusPromise(f)
  BY <1>1 DEF StatusPromise
<1> QED BY <1>1, <1>2, <1>3 DEF Delivery!Begin

\* A copy lands, whether its relay hears of it or not.
LEMMA LandRefines ==
  ASSUME TypeOK, OutboxInvariant, OutboxAssumption, NEW e \in Events, NEW c \in Cluster,
         MayLand(e, c), AppendCopy(e, c), UNCHANGED <<status, attempts, sends>>
  PROVE  Delivery!Land(e, c)
<1>1. c \in ClustersOf(e) /\ sends[e] > 0
  <2>1. /\ c \in ClustersOf(e) /\ copies[e][c] < SendTries * sends[e]
        /\ copies[e][c] \in Nat /\ sends[e] \in Nat /\ SendTries \in Nat
    BY DEF MayLand, TypeOK, OutboxAssumption
  <2>2. CASE sends[e] = 0
    <3>1. SendTries * 0 = 0
      BY <2>1
    <3> QED BY <2>1, <2>2, <3>1
  <2>3. CASE sends[e] # 0
    BY <2>1, <2>3
  <2> QED BY <2>2, <2>3
<1>2. \A f \in Events : StatusPromise(f)' = StatusPromise(f)
  BY DEF StatusPromise
<1> DEFINE on(f) == {d \in Cluster : copies[f][d] > 0}
<1>3. on(e)' = on(e) \cup {c}
  <2>1. \A d \in Cluster : /\ copies[e][d] \in Nat
           /\ copies'[e][d] = IF d = c THEN copies[e][d] + 1 ELSE copies[e][d]
    BY DEF AppendCopy, TypeOK
  <2> QED BY <2>1
<1>4. \A f \in Events \ {e} : on(f)' = on(f)
  BY DEF AppendCopy, TypeOK
<1> QED BY <1>1, <1>2, <1>3, <1>4 DEF Delivery!Land

\* A step that leaves the promise, the attempts and the brokers alone.
LEMMA Stutters ==
  ASSUME attempts' = attempts, sends' = sends, copies' = copies,
         \A e \in Events : StatusPromise(e)' = StatusPromise(e)
  PROVE  UNCHANGED Delivery!vars
  BY DEF Delivery!vars

\* A step that changes the promise of row e only, to p.
LEMMA PromiseChanges ==
  ASSUME TypeOK, NEW e \in Events, NEW p, attempts' = attempts, sends' = sends,
         copies' = copies, StatusPromise(e)' = p,
         \A f \in Events \ {e} : status'[f] = status[f]
  PROVE  /\ [f \in Events |-> StatusPromise(f)]' =
              [[f \in Events |-> StatusPromise(f)] EXCEPT ![e] = p]
         /\ UNCHANGED <<attempts, sends,
                        [f \in Events |-> {c \in Cluster : copies[f][c] > 0}]>>
<1>1. \A f \in Events \ {e} : StatusPromise(f)' = StatusPromise(f)
  BY DEF StatusPromise
<1> QED BY <1>1

LEMMA TakeRowsRefines ==
  ASSUME TypeOK, OutboxInvariant, OutboxAssumption, NEW r \in Relays, TakeRows(r),
         sends' = sends, copies' = copies
  PROVE  Delivery!StartTries(held[r])
<1>1. \A e \in held[r] : /\ e \in Events /\ status[e] \in {"PENDING", "FAILED"}
                         /\ attempts[e] < MaxAttempts
  BY DEF OutboxInvariant, RelayKnows, RetriesLeft, TakeRows, TypeOK
<1>2. \A e \in Events : StatusPromise(e)' = StatusPromise(e)
  BY <1>1 DEF StatusPromise, TakeRows
<1>3. \A e \in held[r] : StatusPromise(e) = "pending"
  BY <1>1 DEF StatusPromise
<1> QED BY <1>1, <1>2, <1>3 DEF Delivery!StartTries, TakeRows

LEMMA SetSentRefines ==
  ASSUME TypeOK, OutboxInvariant, NEW r \in Relays, phase[r] = "markSent",
         NEW e \in held[r], e = cur[r], SetSent(e), sends' = sends, copies' = copies
  PROVE  Delivery!RecordSent(e)
<1>1. /\ e \in Events /\ status[e] = "IN_FLIGHT" /\ waiting[r] = {}
      /\ \A c \in ClustersOf(e) : copies[e][c] > 0
  BY DEF OutboxInvariant, RelayKnows, TypeOK
<1>2. StatusPromise(e) = "pending" /\ StatusPromise(e)' = "sent"
  BY <1>1 DEF StatusPromise, SetSent, TypeOK
<1>3. attempts' = attempts /\ \A f \in Events \ {e} : status'[f] = status[f]
  BY <1>1 DEF SetSent, TypeOK
<1> QED BY <1>1, <1>2, <1>3, PromiseChanges, ClustersOfIsSubset DEF Delivery!RecordSent

LEMMA SetFailedRefines ==
  ASSUME TypeOK, OutboxInvariant, NEW r \in Relays, phase[r] = "markFailed",
         NEW e \in held[r], e = cur[r], SetFailed(e, rowAttempts[r][e]),
         sends' = sends, copies' = copies
  PROVE  \/ Delivery!GiveUp(e) \/ Delivery!Reopen(e)
         \/ UNCHANGED Delivery!vars
<1>1. /\ e \in Events /\ status[e] \in {"IN_FLIGHT", "SENT"}
      /\ rowAttempts[r][e] = attempts[e] /\ attempts[e] \in Nat
      /\ attempts[e] <= MaxAttempts
  BY DEF OutboxInvariant, RelayKnows, TypeOK, CopiesWithinAttempts, Cluster
<1>2. /\ attempts' = attempts
      /\ \A f \in Events \ {e} : status'[f] = status[f]
      /\ status'[e] = IF attempts[e] >= MaxAttempts THEN "DEAD" ELSE "FAILED"
  BY <1>1 DEF SetFailed, TypeOK
<1>3. CASE attempts[e] >= MaxAttempts
  <2>1. attempts[e] = MaxAttempts /\ StatusPromise(e)' = "dead"
    BY <1>1, <1>2, <1>3, OutboxAssumption DEF StatusPromise, OutboxAssumption
  <2>2. StatusPromise(e) \in {"pending", "sent"}
    BY <1>1 DEF StatusPromise
  <2> QED BY <1>1, <1>2, <2>1, <2>2, PromiseChanges DEF Delivery!GiveUp, Delivery!Reopen
<1>4. CASE ~(attempts[e] >= MaxAttempts) /\ status[e] = "SENT"
  <2>1. StatusPromise(e) = "sent" /\ StatusPromise(e)' = "pending"
    BY <1>2, <1>4 DEF StatusPromise
  <2> QED BY <1>1, <1>2, <2>1, PromiseChanges DEF Delivery!Reopen
<1>5. CASE ~(attempts[e] >= MaxAttempts) /\ status[e] = "IN_FLIGHT"
  <2>1. \A f \in Events : StatusPromise(f)' = StatusPromise(f)
    BY <1>2, <1>5 DEF StatusPromise
  <2> QED BY <1>2, <2>1, Stutters
<1> QED BY <1>1, <1>3, <1>4, <1>5

LEMMA StepRefines ==
  ASSUME TypeOK, OutboxInvariant, OutboxAssumption, NEW r \in Relays, Step(r)
  PROVE  [Delivery!Next]_(Delivery!vars)
<1> USE DEF Delivery!Next
<1>a. held[r] \subseteq Events /\ (cur[r] # 0 => cur[r] \in held[r])
      /\ (phase[r] \in {"markSent", "markFailed"} => cur[r] \in held[r])
  BY DEF OutboxInvariant, RelayKnows, TypeOK
<1>b. ASSUME UNCHANGED <<rowVars, sends, copies>> PROVE UNCHANGED Delivery!vars
  <2>1. \A e \in Events : StatusPromise(e)' = StatusPromise(e)
    BY <1>b DEF rowVars, StatusPromise
  <2> QED BY <1>b, <2>1, Stutters DEF rowVars
<1>c. ASSUME TakeRows(r), sends' = sends, copies' = copies PROVE Delivery!Next
  BY <1>c, <1>a, TakeRowsRefines
<1>1. CASE ClaimSelect(r)
  BY <1>1, <1>b DEF ClaimSelect, brokerVars
<1>2. CASE ClaimCommit(r)
  BY <1>2, <1>c DEF ClaimCommit, brokerVars
<1>3. CASE ClaimError(r)
  BY <1>3, <1>b, <1>c DEF ClaimError, brokerVars
<1>4. CASE \E e \in Events : StartPublish(r, e)
  BY <1>4, BeginRefines
<1>5. CASE \E c \in Cluster : Ack(r, c)
  <2>1. PICK c \in Cluster : Ack(r, c)
    BY <1>5
  <2>2. PICK e \in Events : e = cur[r]
    BY <2>1 DEF Ack, TypeOK
  <2>3. /\ MayLand(e, c) /\ AppendCopy(e, c)
        /\ UNCHANGED <<status, attempts, sends>>
    BY <2>1, <2>2 DEF Ack, rowVars
  <2>4. Delivery!Land(e, c)
    BY <2>3, LandRefines
  <2> QED BY <2>4
<1>6. CASE MarkSent(r) \/ MarkSentError(r)
  <2>1. phase[r] = "markSent" /\ UNCHANGED <<sends, copies>>
        /\ (SetSent(cur[r]) \/ UNCHANGED rowVars)
    BY <1>6 DEF MarkSent, MarkSentError, brokerVars
  <2>2. CASE SetSent(cur[r])
    BY <1>a, <2>1, <2>2, SetSentRefines
  <2> QED BY <1>b, <2>1, <2>2
<1>7. CASE MarkFailed(r) \/ MarkFailedError(r)
  <2>1. phase[r] = "markFailed" /\ UNCHANGED <<sends, copies>>
        /\ (SetFailed(cur[r], rowAttempts[r][cur[r]]) \/ UNCHANGED rowVars)
    BY <1>7 DEF MarkFailed, MarkFailedError, brokerVars
  <2>2. CASE SetFailed(cur[r], rowAttempts[r][cur[r]])
    BY <1>a, <2>1, <2>2, SetFailedRefines
  <2> QED BY <1>b, <2>1, <2>2
<1>8. CASE Reject(r) \/ DeadLetter(r) \/ Crash(r)
  BY <1>8, <1>b DEF Reject, DeadLetter, Crash, brokerVars
<1> QED BY <1>1, <1>2, <1>3, <1>4, <1>5, <1>6, <1>7, <1>8 DEF Step

\* A step of no relay: Accept, Land, or nothing the promise speaks of.
LEMMA ElsewhereRefines ==
  ASSUME TypeOK, OutboxInvariant, OutboxAssumption, NEW e \in Events, Elsewhere(e)
  PROVE  [Delivery!Next]_(Delivery!vars)
<1> USE DEF Delivery!Next
<1>1. CASE Enqueue(e)
  <2>1. /\ StatusPromise(e) = "none" /\ StatusPromise(e)' = "pending"
        /\ attempts' = attempts /\ sends' = sends /\ copies' = copies
        /\ \A f \in Events \ {e} : status'[f] = status[f]
    BY <1>1 DEF Enqueue, StatusPromise, brokerVars, TypeOK
  <2>2. Delivery!Accept(e)
    BY <2>1, PromiseChanges DEF Delivery!Accept
  <2> QED BY <2>2
<1>2. CASE BecomeDue(e) \/ LetterLands(e)
  <2>1. UNCHANGED <<status, attempts, sends, copies>>
    BY <1>2 DEF BecomeDue, LetterLands, rowVars, brokerVars
  <2>2. \A f \in Events : StatusPromise(f)' = StatusPromise(f)
    BY <2>1 DEF StatusPromise
  <2> QED BY <2>1, <2>2, Stutters
<1>3. CASE \E c \in Cluster : Append(e, c)
  <2>1. PICK c \in Cluster : Append(e, c)
    BY <1>3
  <2>2. Delivery!Land(e, c)
    BY <2>1, LandRefines DEF Append, rowVars
  <2> QED BY <2>2
<1> QED BY <1>1, <1>2, <1>3 DEF Elsewhere

\* Whatever the relays, the brokers and the database do, the table keeps the
\* promise of EventDelivery: a delivery begins only while the event is pending
\* and once per try, whenever its copies land; sent only once every cluster holds
\* the event, given up only after MaxAttempts tries (outbox.ts:
\* drainKafkaEventOutbox).
THEOREM OutboxImplementsDelivery == Spec => ImplementsDelivery
<1>1. Init => Delivery!Init
  BY DEF Init, Delivery!Init, StatusPromise
<1>2. TypeOK /\ OutboxInvariant /\ [Next]_vars => [Delivery!Next]_(Delivery!vars)
  <2> SUFFICES ASSUME TypeOK, OutboxInvariant, [Next]_vars
               PROVE  [Delivery!Next]_(Delivery!vars)
    OBVIOUS
  <2>1. ASSUME UNCHANGED vars PROVE UNCHANGED Delivery!vars
    <3>1. UNCHANGED <<status, attempts, sends, copies>>
      BY <2>1 DEF vars, rowVars, brokerVars
    <3>2. \A f \in Events : StatusPromise(f)' = StatusPromise(f)
      BY <3>1 DEF StatusPromise
    <3> QED BY <3>1, <3>2, Stutters
  <2>2. ASSUME NEW e \in Events, Elsewhere(e) PROVE [Delivery!Next]_(Delivery!vars)
    BY <2>2, ElsewhereRefines, OutboxAssumption
  <2>3. ASSUME NEW r \in Relays, Step(r) PROVE [Delivery!Next]_(Delivery!vars)
    BY <2>3, StepRefines, OutboxAssumption
  <2> QED BY <2>1, <2>2, <2>3, NextCases
<1> QED BY <1>1, <1>2, TypeCorrect, OutboxSafe, PTL
        DEF Spec, ImplementsDelivery, Delivery!Spec
=============================================================================
